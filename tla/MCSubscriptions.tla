-------------------------- MODULE MCSubscriptions --------------------------
(* Instances of Subscriptions for TLC. The registry is ordered and liveness *)
(* is checked, so the entries are not made symmetric.                       *)
EXTENDS Subscriptions, TLC
============================================================================
