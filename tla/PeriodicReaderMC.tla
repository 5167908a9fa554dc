-------------------------- MODULE PeriodicReaderMC --------------------------
(* Small instances of PeriodicReader for TLC. *)
EXTENDS PeriodicReader

MCThrottles == {0, 2}
=============================================================================
