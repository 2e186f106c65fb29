--------------------------- MODULE BoundedCapture ---------------------------
(***************************************************************************)
(* _BoundedCapture (media/process.py): what is kept of one output stream   *)
(* of a process.  The reader thread feeds it the chunks its reads return,  *)
(* cut anywhere.  Up to Limit bytes are kept whole; of more, the first     *)
(* HeadLimit and the last TailLimit, with a marker between them.                     *)
(***************************************************************************)
EXTENDS Naturals, Sequences

CONSTANTS
  Bytes,
  HeadLimit, TailLimit,    \* _head_limit and _tail_limit
  Marker,        \* the length of TRUNCATION_MARKER
  MaxBytes       \* bound: how much is fed

ASSUME CaptureConstants ==
  HeadLimit \in Nat \ {0} /\ TailLimit \in Nat \ {0} /\ Marker \in Nat /\ MaxBytes \in Nat

Limit == HeadLimit + Marker + TailLimit

VARIABLES
  fed,           \* all the bytes that were fed, which the code does not keep
  buffer, head, tail, total

vars == <<fed, buffer, head, tail, total>>

TypeOK ==
  /\ fed \in Seq(Bytes) /\ buffer \in Seq(Bytes)
  /\ head \in Seq(Bytes) /\ tail \in Seq(Bytes)
  /\ total \in Nat

Init == fed = <<>> /\ buffer = <<>> /\ head = <<>> /\ tail = <<>> /\ total = 0

(* s[-n:] for n > 0.                                                       *)
LastOf(s, n) == IF Len(s) <= n THEN s ELSE SubSeq(s, Len(s) - n + 1, Len(s))
FirstOf(s, n) == IF Len(s) <= n THEN s ELSE SubSeq(s, 1, n)

BadOverflow(chunk) ==   \* the tail of the chunk that overflows
  LET combined == buffer \o chunk
  IN IF Len(combined) <= Limit
     THEN buffer' = combined /\ UNCHANGED <<head, tail>>
     ELSE /\ head' = FirstOf(combined, HeadLimit)
          /\ tail' = LastOf(chunk, TailLimit)
          /\ buffer' = <<>>

(* feed while nothing was dropped yet.                                     *)
Collect(chunk) ==
  LET combined == buffer \o chunk
  IN IF Len(combined) <= Limit
     THEN buffer' = combined /\ UNCHANGED <<head, tail>>
     ELSE /\ head' = FirstOf(combined, HeadLimit)
          /\ tail' = LastOf(combined, TailLimit)
          /\ buffer' = <<>>

(* feed after that: extend, then cut the front off.                        *)
Slide(chunk) ==
  tail' = LastOf(tail \o chunk, TailLimit) /\ UNCHANGED <<buffer, head>>

Feed(chunk) ==
  /\ total + Len(chunk) <= MaxBytes
  /\ fed' = fed \o chunk
  /\ total' = total + Len(chunk)
  /\ IF head = <<>> THEN Collect(chunk) ELSE Slide(chunk)

Next == \E n \in 1..MaxBytes : \E chunk \in [1..n -> Bytes] : Feed(chunk)
Spec == Init /\ [][Next]_vars

truncated == total > Limit

-----------------------------------------------------------------------------
(* What text returns is a function of the bytes alone, however the reads   *)
(* cut them into chunks and wherever the limit was crossed: all of them,   *)
(* or their first HeadLimit and their last TailLimit.                                *)
TextIsExact ==
  IF truncated THEN head = FirstOf(fed, HeadLimit) /\ tail = LastOf(fed, TailLimit)
  ELSE buffer = fed

(* No stream makes the capture hold more than the limit, between calls of  *)
(* feed.                                                                   *)
MemoryIsBounded == Len(buffer) + Len(head) + Len(tail) <= Limit
=============================================================================
