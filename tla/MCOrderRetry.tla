---------------------------- MODULE MCOrderRetry ----------------------------
(* Instances of OrderRetry for TLC. *)
EXTENDS OrderRetry, TLC
============================================================================
