----------------------------- MODULE MCUntaint -----------------------------
(* Untaint with three strings, of which two share their char array. *)
EXTENDS Untaint

CONSTANTS s1, s2, s3, a1, a2

SharedArrays == [s \in {s1, s2, s3} |-> IF s = s3 THEN a2 ELSE a1]

=============================================================================
