------------------------------- MODULE Rendering -------------------------------
(***************************************************************************)
(* Where the picture and the subtitles of a clip go (media/rendering.py,   *)
(* resolve_safe_area_pixels and the layouts in media/subtitles.py): all    *)
(* integer pixels.  Ratios are given in thousandths.                       *)
(***************************************************************************)
EXTENDS Integers, FiniteSets

CONSTANTS
  NoSize,           \* no explicit target_width, target_height
  TargetHeights     \* mode -> height

ASSUME RenderingConstants ==
  \A mode \in DOMAIN TargetHeights :
    TargetHeights[mode] \in Nat \ {0} /\ TargetHeights[mode] % 2 = 0

Larger(a, b) == IF a >= b THEN a ELSE b
Smaller(a, b) == IF a <= b THEN a ELSE b

(* round(n / d), a half to the even neighbour; int(n / d), towards zero.   *)
Round(n, d) ==
  LET q == n \div d  r == 2 * (n % d) IN
  IF r > d \/ (r = d /\ q % 2 = 1) THEN q + 1 ELSE q
Even(n, d) == LET r == Round(n, d) IN r + (r % 2)
EvenFloor(n) == Larger(2, n - (n % 2))
BoundedEven(n, d, most) == Smaller(Even(n, d), EvenFloor(most))

(* resolve_resolution.                                                     *)
Target(spec, w, h) ==
  IF spec.size # NoSize THEN spec.size
  ELSE IF spec.mode = "source" THEN [w |-> w, h |-> h]
  ELSE [w |-> Even(w * TargetHeights[spec.mode], h), h |-> TargetHeights[spec.mode]]
ResolveResolution(spec, w, h) ==
  LET target == Target(spec, w, h) IN
  IF (target.w > w \/ target.h > h) /\ ~spec.upscale THEN [w |-> w, h |-> h] ELSE target

(* The largest crop of 9:16.                                               *)
CropSize(w, h) ==
  LET u == EvenFloor(w)  v == EvenFloor(h) IN
  IF 16 * u >= 9 * v THEN [w |-> Smaller(u, Even(v * 9, 16)), h |-> v]
  ELSE [w |-> u, h |-> Smaller(v, Even(u * 16, 9))]

(* |w / h - 9 / 16| > 0.002.                                               *)
NotVertical(s) ==
  LET d == 16 * s.w - 9 * s.h IN 1000 * Larger(d, -d) > 32 * s.h
VerticalTarget(spec, crop) ==
  IF spec.size # NoSize THEN spec.size
  ELSE IF spec.mode = "source" THEN crop
  ELSE [w |-> TargetHeights[spec.mode], h |-> Even(TargetHeights[spec.mode] * 16, 9)]
RefusesSize(spec) ==
  spec.size # NoSize /\ (spec.size.w % 2 = 1 \/ spec.size.h % 2 = 1 \/ NotVertical(spec.size))

(* The scale is the lesser of room.w / want.w and room.h / want.h: by which *)
(* of the two, and the size it gives.                                      *)
WidthBinds(room, want) == room.w * want.h <= room.h * want.w
TooSmall(room, want) == room.w < want.w \/ room.h < want.h
ScaledTo(room, want) ==
  IF WidthBinds(room, want)
  THEN [w |-> BoundedEven(room.w, 1, room.w), h |-> BoundedEven(want.h * room.w, want.w, room.h)]
  ELSE [w |-> BoundedEven(want.w * room.h, want.h, room.w), h |-> BoundedEven(room.h, 1, room.h)]

(* _clamp: an even number from 0 to most.                                  *)
BadClamp(n, d, most) == Larger(0, Smaller(most, Even(n, d)))   \* not down but up
Clamp(n, d, most) ==
  LET r == IF n <= 0 THEN 0 ELSE IF n >= d * most THEN most ELSE Round(n, d)
  IN Larger(0, r - (r % 2))

(* The point of the picture that is to be at a point of the crop, both in  *)
(* thousandths; of the safe area it is the middle, a third from its top.   *)
FocusOf(spec) ==
  IF spec.focus # NoSize THEN spec.focus
  ELSE IF spec.how = "fixed_subject" THEN [x |-> 500, y |-> 350] ELSE [x |-> 0, y |-> 0]
Anchor(safe) ==   \* in hundred thousandths
  [x |-> 100 * safe.left + 50 * (1000 - safe.left - safe.right),
   y |-> 100 * safe.top + 33 * (1000 - safe.top - safe.bottom)]
AnchorOf(spec) ==
  IF spec.how = "fixed_subject" THEN Anchor(spec.safe) ELSE [x |-> 50000, y |-> 50000]

CropAt(spec, crop, w, h) ==
  IF spec.how = "center_crop"
  THEN [x |-> Clamp(w - crop.w, 2, w - crop.w), y |-> Clamp(h - crop.h, 2, h - crop.h)]
  ELSE LET f == FocusOf(spec)  a == AnchorOf(spec) IN
       [x |-> Clamp(100 * f.x * w - a.x * crop.w, 100000, w - crop.w),
        y |-> Clamp(100 * f.y * h - a.y * crop.h, 100000, h - crop.h)]

(* resolve_reframe.                                                        *)
Reframed(spec, crop, room, want, w, h) ==
  [size |-> IF spec.upscale \/ ~TooSmall(room, want) THEN want ELSE ScaledTo(room, want),
   crop |-> crop,
   at |-> IF spec.how = "fit_background" THEN NoSize ELSE CropAt(spec, crop, w, h)]
ResolveReframe(spec, w, h) ==
  LET crop == CropSize(w, h)
      want == VerticalTarget(spec, crop)
      room == IF spec.how = "fit_background" THEN [w |-> w, h |-> h] ELSE crop
  IN IF spec.how \in {"none", "tracked_focus"} THEN [error |-> "CAPABILITY_UNAVAILABLE"]
     ELSE IF RefusesSize(spec) THEN [error |-> "PROTOCOL_INVALID"]
     ELSE IF spec.size # NoSize /\ ~spec.upscale /\ TooSmall(room, want)
          THEN [error |-> "CAPABILITY_CONFLICT"]
     ELSE Reframed(spec, crop, room, want, w, h)

-----------------------------------------------------------------------------
(* resolve_safe_area_pixels: the host's margins, at least the platform's.  *)
SafeArea(given, platform, w, h) ==
  [left |-> Round(w * Larger(given.left, platform.side), 1000),
   right |-> Round(w * Larger(given.right, platform.side), 1000),
   top |-> Round(h * Larger(given.top, platform.top), 1000),
   bottom |-> Round(h * Larger(given.bottom, platform.bottom), 1000)]

FontSize(preferred, h) == Larger(10, Round(preferred * h, 720))

(* The height of the overlay that the macOS renderer draws a line in; it   *)
(* is put EdgeMargin from its edge.                                        *)
Desired(spec, h) ==
  LET fonts == FontSize(spec.font, h)
                 + (IF spec.bilingual THEN FontSize(spec.translationFont, h) ELSE 0)
  IN Round(fonts * spec.lines * 135 + 1600, 100)
BadOverlayHeight(spec, area, h) ==   \* of the picture, not of the safe area
  Larger(1, Smaller(Larger(32, Desired(spec, h)),
                    Round(h * (IF spec.bilingual THEN 200 ELSE 140), 1000)))
OverlayHeight(spec, area, h) ==
  LET most == Smaller(Round(h * (IF spec.bilingual THEN 200 ELSE 140), 1000),
                      h - area.top - area.bottom)
  IN Larger(1, Smaller(Larger(32, Desired(spec, h)), most))

(* Where an ASS line and the overlay start, measured from their edge: the  *)
(* second language is a line further in.                                   *)
EdgeMargin(spec, area) == Larger(spec.margin, IF spec.atTop THEN area.top ELSE area.bottom)
LineOffset(spec, h) ==
  Larger(FontSize(spec.font, h), FontSize(spec.translationFont, h)) + 14
AssMargins(spec, area, h) ==
  LET edge == EdgeMargin(spec, area)  further == edge + LineOffset(spec, h)
      sourceIsUpper == spec.sourceFirst
  IN IF ~spec.bilingual THEN [source |-> edge, translation |-> edge]
     ELSE IF sourceIsUpper = spec.atTop THEN [source |-> edge, translation |-> further]
     ELSE [source |-> further, translation |-> edge]
HorizontalMargin(spec, area, w) ==
  Larger(Larger(area.left, area.right), Larger(Round(w * (1000 - spec.width), 2000), 32))
=============================================================================
