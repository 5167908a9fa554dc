------------------------- MODULE LogAttributeValues -------------------------
(***************************************************************************)
(* The values of log attributes as far as applyValueLimits of              *)
(* sdk/log/record.go tells them apart: a text that is too long becomes one *)
(* of the length limit, and a map that holds a key twice loses an entry,   *)
(* which is counted as dropped.                                            *)
(***************************************************************************)
EXTENDS Naturals

Values == {"short", "long", "cut", "twice", "once"}

Limited(v) == [short |-> "short", long |-> "cut", cut |-> "cut", twice |-> "once", once |-> "once"][v]

NestedDrops(v) == IF v = "twice" THEN 1 ELSE 0
=============================================================================
