----------------------------- MODULE MCBackoff -----------------------------
(* Backoff with the exponent range of an IEEE 754 double.                   *)
EXTENDS Backoff, TLC
============================================================================
