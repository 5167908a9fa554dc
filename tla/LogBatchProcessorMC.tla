------------------------- MODULE LogBatchProcessorMC -------------------------
(* Small instances of LogBatchProcessor for TLC: the records and the calls *)
(* are interchangeable model values.                                       *)
EXTENDS LogBatchProcessor, TLC

RecordSymmetry == Permutations(Records)
=============================================================================
