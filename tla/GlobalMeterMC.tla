---------------------------- MODULE GlobalMeterMC ----------------------------
(* Small instances of GlobalMeter for TLC. *)
EXTENDS GlobalMeter
=============================================================================
