------------------------ MODULE BatchSpanProcessorMC ------------------------
(* Small instances of BatchSpanProcessor for TLC. *)
EXTENDS BatchSpanProcessor, TLC

(* Spans take no part in any comparison but equality. *)
Symmetry == Permutations(Spans \ Unsampled)
=============================================================================
