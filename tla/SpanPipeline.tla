---------------------------- MODULE SpanPipeline ----------------------------
(***************************************************************************)
(* What a batching span processor promises (sdk/trace/span_processor.go    *)
(* and span_exporter.go): the spans it accepts reach the exporter once, in *)
(* the order they were accepted, in batches of bounded size, and none      *)
(* after the exporter was shut down.                                       *)
(***************************************************************************)
EXTENDS Integers, Sequences

CONSTANTS Spans, MaxBatch

VARIABLES
  accepted,    (* the spans accepted so far, in order       *)
  delivered,   (* the spans the exporter is done with       *)
  closed       (* the exporter has been told to shut down   *)

vars == <<accepted, delivered, closed>>

Init == accepted = <<>> /\ delivered = <<>> /\ closed = FALSE

Accept(s) ==
  /\ \A i \in 1..Len(accepted) : accepted[i] # s
  /\ accepted' = Append(accepted, s)
  /\ UNCHANGED <<delivered, closed>>

Deliver(n) ==
  /\ ~closed
  /\ Len(delivered) + n <= Len(accepted)
  /\ delivered' = SubSeq(accepted, 1, Len(delivered) + n)
  /\ UNCHANGED <<accepted, closed>>

Close ==
  /\ ~closed
  /\ closed' = TRUE
  /\ UNCHANGED <<accepted, delivered>>

Next ==
  \/ \E s \in Spans : Accept(s)
  \/ \E n \in 1..MaxBatch : Deliver(n)
  \/ Close

Spec == Init /\ [][Next]_vars
=============================================================================
