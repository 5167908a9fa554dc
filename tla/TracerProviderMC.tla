-------------------------- MODULE TracerProviderMC --------------------------
(* Small instances of TracerProvider for TLC. *)
EXTENDS TracerProvider

CONSTANTS p1, p2, r1, r2, r3, u1, u2

(* Two processors, the first of which may be registered twice, and a call  *)
(* that unregisters each.                                                  *)
MCTarget ==
  [c \in Registers \cup Unregisters |-> IF c \in {r2, u2} THEN p2 ELSE p1]
=============================================================================
