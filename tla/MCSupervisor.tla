---------------------------- MODULE MCSupervisor ----------------------------
(* Instances of Supervisor for TLC; the configurations choose what may      *)
(* happen.  Conns and starts are numbered in order, so there is no symmetry.*)
EXTENDS Supervisor, TLC
============================================================================
