------------------------- MODULE SimpleSpanProcessor -------------------------
(***************************************************************************)
(* The processor that exports each span as it ends                         *)
(* (sdk/trace/simple_span_processor.go).  OnEnd holds exporterMu while the *)
(* exporter works, Shutdown takes the exporter away under it and lets a    *)
(* goroutine shut it down, because that may itself end a span.             *)
(***************************************************************************)
EXTENDS Naturals, Sequences, FiniteSets

CONSTANTS
  Enders,      (* goroutines that end spans                                   *)
  Stoppers,    (* callers of Shutdown                                         *)
  Sampled,     (* the trace flags of the spans                                *)
  Goroutine    (* the goroutine Shutdown starts; it may end a span as well    *)

NoProc == "none"

ASSUME ProcAssumption ==
  /\ Sampled \in BOOLEAN
  /\ NoProc \notin Enders \cup Stoppers \cup {Goroutine} /\ Goroutine \notin Enders

VARIABLES
  exporterMu,    (* who holds the mutex                                       *)
  exporter,      (* ssp.exporter is not nil                                   *)
  exporting,     (* who is inside ExportSpans                                 *)
  exported,      (* what the exporter was given, in order                     *)
  stopOnce,      (* "new", "running" or "done"                                *)
  stopPc,        (* per caller of Shutdown                                    *)
  worker         (* the goroutine: "none", "shutdown", "OnEnd", "export",     *)
                 (* "send" or "gone"                                          *)

sspVars == <<exporterMu, exporter, exporting, exported, stopOnce, stopPc, worker>>

SspInit ==
  /\ exporterMu = NoProc /\ exporter = TRUE
  /\ exporting = {} /\ exported = <<>>
  /\ stopOnce = "new" /\ stopPc = [p \in Stoppers |-> "idle"] /\ worker = "none"

(* OnEnd has three outcomes: it waits for the mutex, and then either hands *)
(* the span to the exporter or has none.                                   *)
MuFree == exporterMu = NoProc

OnEndExports(e, snapshot) ==
  /\ MuFree /\ exporter /\ Sampled
  /\ exporterMu' = e
  /\ exporting' = exporting \cup {e}
  /\ exported' = Append(exported, snapshot)
  /\ UNCHANGED <<exporter, stopOnce, stopPc>>

DroppedWhenBusy ==                            \* mutant: OnEnd only tries the lock
  /\ ~(MuFree /\ exporter /\ Sampled)
  /\ UNCHANGED <<exporterMu, exporter, exporting, exported, stopOnce, stopPc>>

OnEndIgnores ==
  /\ MuFree /\ ~(exporter /\ Sampled)
  /\ UNCHANGED <<exporterMu, exporter, exporting, exported, stopOnce, stopPc>>

ExportReturns(e) ==
  /\ e \in exporting
  /\ exporting' = exporting \ {e}
  /\ exporterMu' = NoProc
  /\ UNCHANGED <<exporter, exported, stopOnce, stopPc>>

(* Shutdown: the first caller runs the function, the others wait for it.   *)
ShutdownCall(p) ==
  /\ stopPc[p] = "idle"
  /\ IF stopOnce = "new"
     THEN stopOnce' = "running" /\ stopPc' = [stopPc EXCEPT ![p] = "lock"]
     ELSE stopPc' = [stopPc EXCEPT ![p] = "once"] /\ UNCHANGED stopOnce
  /\ UNCHANGED <<exporterMu, exporter, exporting, exported, worker>>

AfterOthers(p) ==
  /\ stopPc[p] = "once" /\ stopOnce = "done"
  /\ stopPc' = [stopPc EXCEPT ![p] = "nil"]
  /\ UNCHANGED <<exporterMu, exporter, exporting, exported, stopOnce, worker>>

NotZeroed == exporter                         \* mutant: the field is not zeroed

Zeroed == FALSE

HoldsTheLock(p) ==                            \* mutant: exporterMu is not released
  /\ stopPc[p] = "lock" /\ MuFree
  /\ exporterMu' = p
  /\ exporter' = Zeroed
  /\ worker' = "shutdown"
  /\ stopPc' = [stopPc EXCEPT ![p] = "select"]
  /\ UNCHANGED <<exporting, exported, stopOnce>>

TakeExporter(p) ==
  /\ stopPc[p] = "lock" /\ MuFree
  /\ exporter' = Zeroed
  /\ worker' = "shutdown"
  /\ stopPc' = [stopPc EXCEPT ![p] = "select"]
  /\ UNCHANGED <<exporterMu, exporting, exported, stopOnce>>

(* The exporter's Shutdown, which may end one span on its way.             *)
WorkerEndsSpan ==
  /\ worker = "shutdown"
  /\ worker' = "OnEnd"
  /\ UNCHANGED <<exporterMu, exporter, exporting, exported, stopOnce, stopPc>>

WorkerOnEnd ==
  /\ worker = "OnEnd"
  /\ \/ OnEndExports(Goroutine, 0) /\ worker' = "export"
     \/ OnEndIgnores /\ worker' = "send"

WorkerExported ==
  /\ ExportReturns(Goroutine)
  /\ worker' = "send"

WorkerStopped ==
  /\ worker = "shutdown"
  /\ worker' = "send"
  /\ UNCHANGED <<exporterMu, exporter, exporting, exported, stopOnce, stopPc>>

(* The channel is unbuffered: sender and receiver go on together.          *)
Done(p) ==
  /\ stopPc[p] = "select" /\ worker = "send"
  /\ worker' = "gone"
  /\ stopPc' = [stopPc EXCEPT ![p] = "stopped"]
  /\ stopOnce' = "done"
  /\ UNCHANGED <<exporterMu, exporter, exporting, exported>>

(* The context ends; the second select found no answer either.             *)
CtxDone(p) ==
  /\ stopPc[p] = "select" /\ worker # "send"
  /\ stopPc' = [stopPc EXCEPT ![p] = "ctxErr"]
  /\ stopOnce' = "done"
  /\ UNCHANGED <<exporterMu, exporter, exporting, exported, worker>>

WorkerNext == WorkerEndsSpan \/ WorkerOnEnd \/ WorkerExported \/ WorkerStopped

ShutdownNext(p) == AfterOthers(p) \/ TakeExporter(p) \/ Done(p) \/ CtxDone(p)

SspNext == WorkerNext \/ \E p \in Stoppers : ShutdownCall(p) \/ ShutdownNext(p)

-----------------------------------------------------------------------------
(* Properties. *)

ExporterTold == worker # "none"

(* The exporter is called by one goroutine at a time and never once        *)
(* Shutdown has taken it away, although spans may end at that very moment  *)
(* and within the exporter's own Shutdown (simple_span_processor.go:62-88).*)
ExporterProtected ==
  /\ Cardinality(exporting) <= 1
  /\ ExporterTold => exporting = {}
=============================================================================
