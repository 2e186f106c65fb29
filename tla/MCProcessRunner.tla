--------------------------- MODULE MCProcessRunner ---------------------------
(* Instances of ProcessRunner for TLC: two streams.                        *)
EXTENDS ProcessRunner
CONSTANTS stdout, stderr
=============================================================================
