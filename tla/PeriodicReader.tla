--------------------------- MODULE PeriodicReader ---------------------------
(***************************************************************************)
(* The periodic reader (sdk/metric/periodic_reader.go) with the pipeline   *)
(* it collects from (pipeline.go), one counter with delta temporality      *)
(* (internal/aggregate/sum.go) and the exporter it exports to.             *)
(* Measurements are numbered; a sum is the set of measurements in it.      *)
(***************************************************************************)
EXTENDS MetricExporter, FiniteSets

CONSTANTS
  Flushers,      (* callers of ForceFlush                                     *)
  Stoppers,      (* callers of Shutdown                                       *)
  Others,        (* others who export with the same exporter                  *)
  MaxRecords     (* bound: measurements                                       *)

Tick == "tick"

ASSUME BoundAssumption == MaxRecords \in Nat
ASSUME UserAssumption == Idle \notin Flushers \cup Stoppers \cup Others \cup {Tick}

VARIABLES
  sum,           (* the measurements summed up since the last collection      *)
  recorded,      (* how many measurements there were so far (history)         *)
  exported, lost,(* what the exporter acknowledged, and what was collected    *)
                 (* and not (history)                                         *)
  job,           (* the collection in progress: [for, step, failed, batch]    *)
  run,           (* the goroutine: "select", "busy" or "done"                 *)
  cancelled,     (* Shutdown has called r.cancel                              *)
  flush,         (* per flusher: [pc, asked]                                  *)
  stopOnce,      (* "new", "running" or "done"                                *)
  stop,          (* per stopper: [pc, before, gone], the last two history     *)
  others         (* those of Others who have not exported yet (a bound)       *)

readerVars == <<job, run, cancelled, flush, stopOnce, stop, others>>
dataVars == <<sum, recorded, exported, lost>>
vars == <<exporterVars, readerVars, dataVars>>

NoJob == [for |-> Idle, step |-> "none", failed |-> FALSE, batch |-> {}]

Init ==
  /\ ExporterInit
  /\ sum = {} /\ recorded = 0 /\ exported = {} /\ lost = {}
  /\ job = NoJob /\ run = "select" /\ cancelled = FALSE
  /\ flush = [f \in Flushers |-> [pc |-> "idle", asked |-> {}]]
  /\ stopOnce = "new" /\ stop = [p \in Stoppers |-> [pc |-> "idle", before |-> {}, gone |-> {}]]
  /\ others = Others

-----------------------------------------------------------------------------
(* The counter. *)

Measure ==
  /\ recorded < MaxRecords
  /\ recorded' = recorded + 1
  /\ sum' = sum \cup {recorded'}
  /\ UNCHANGED <<exporterVars, readerVars, exported, lost>>

-----------------------------------------------------------------------------
(* One collection, for a tick, a flush or a Shutdown.  The contexts of the *)
(* first two end when Shutdown cancels the goroutine's.                    *)

JobStep(label) == job' = [job EXCEPT !.step = label]

JobCancelled == cancelled /\ job.for \notin Stoppers

(* produce runs the callbacks; one of them may fail, and when the context  *)
(* has ended after one of them nothing is collected.                       *)
Callbacks ==
  /\ job.step = "callbacks"
  /\ \/ JobStep("aggregate")
     \/ Faults /\ job' = [job EXCEPT !.step = "aggregate", !.failed = TRUE]
     \/ (Faults \/ JobCancelled) /\ JobStep("error")
  /\ UNCHANGED <<exporterVars, run, cancelled, flush, stopOnce, stop, others, dataVars>>

(* delta: the sum is taken and cleared, also when a callback failed.       *)
NotCleared == sum                             \* mutant: delta does not clear

Cleared == {}

Aggregate ==
  /\ job.step = "aggregate"
  /\ sum' = Cleared
  /\ IF job.failed
     THEN JobStep("error") /\ lost' = lost \cup sum
     ELSE job' = [job EXCEPT !.step = "export", !.batch = sum] /\ UNCHANGED lost
  /\ UNCHANGED <<exporterVars, run, cancelled, flush, stopOnce, stop, others, recorded, exported>>

Export ==
  /\ job.step = "export"
  /\ Lock(job.for, JobCancelled)
  /\ JobStep("upload")
  /\ UNCHANGED <<run, cancelled, flush, stopOnce, stop, others, dataVars>>

ExportReturns ==
  /\ job.step = "upload"
  /\ \/ Unlock(job.for, "ok") /\ job' = [job EXCEPT !.step = "ok", !.batch = {}]
        /\ exported' = exported \cup job.batch /\ UNCHANGED lost
     \/ Unlock(job.for, "error") /\ job' = [job EXCEPT !.step = "error", !.batch = {}]
        /\ lost' = lost \cup job.batch /\ UNCHANGED exported
  /\ UNCHANGED <<run, cancelled, flush, stopOnce, stop, others, sum, recorded>>

CollectNext == Callbacks \/ Aggregate \/ Export \/ ExportReturns

Collect(for) == job' = [NoJob EXCEPT !.for = for, !.step = "callbacks"]

(* Other users of the exporter, one upload each.                           *)
OtherExport(o) ==
  /\ o \in others /\ Lock(o, FALSE)
  /\ others' = others \ {o}
  /\ UNCHANGED <<job, run, cancelled, flush, stopOnce, stop, dataVars>>

OtherReturns(o) ==
  /\ Unlock(o, "ok") \/ Unlock(o, "error")
  /\ UNCHANGED <<readerVars, dataVars>>

-----------------------------------------------------------------------------
(* The goroutine of run.  Its select takes any of the ready cases.         *)

RunTick ==
  /\ run = "select"
  /\ run' = "busy" /\ Collect(Tick)
  /\ UNCHANGED <<exporterVars, cancelled, flush, stopOnce, stop, others, dataVars>>

(* The rendezvous on flushCh; asked is history.                            *)
RunFlush(f) ==
  /\ run = "select" /\ flush[f].pc = "send"
  /\ run' = "busy" /\ Collect(f)
  /\ flush' = [flush EXCEPT ![f] = [pc |-> "answer", asked |-> sum]]
  /\ UNCHANGED <<exporterVars, cancelled, stopOnce, stop, others, dataVars>>

AlwaysNil == "ok"                             \* mutant: the error of the collection is dropped

Answer == job.step

(* The answer goes to errCh, which has room for it if nobody waits.        *)
RunAnswers ==
  /\ run = "busy" /\ job.step \in {"ok", "error"}
  /\ flush' = [f \in Flushers |-> IF f = job.for /\ flush[f].pc = "answer"
                                  THEN [flush[f] EXCEPT !.pc = Answer] ELSE flush[f]]
  /\ run' = "select" /\ job' = NoJob
  /\ UNCHANGED <<exporterVars, cancelled, stopOnce, stop, others, dataVars>>

RunStops ==
  /\ run = "select" /\ cancelled
  /\ run' = "done"
  /\ UNCHANGED <<exporterVars, job, cancelled, flush, stopOnce, stop, others, dataVars>>

-----------------------------------------------------------------------------
(* ForceFlush ends in "ok", "error" or "ErrReaderShutdown".                *)

FlushGoto(f, label) ==
  /\ flush' = [flush EXCEPT ![f].pc = label]
  /\ UNCHANGED <<exporterVars, job, run, cancelled, stopOnce, stop, others, dataVars>>

ForceFlush(f) == flush[f].pc = "idle" /\ FlushGoto(f, "send")

FlushReaderDone(f) == flush[f].pc = "send" /\ run = "done" /\ FlushGoto(f, "ErrReaderShutdown")

FlushCtxDone(f) ==
  /\ flush[f].pc \in {"send", "answer"}
  /\ flush' = [flush EXCEPT ![f] = [pc |-> "error", asked |-> {}]]
  /\ UNCHANGED <<exporterVars, job, run, cancelled, stopOnce, stop, others, dataVars>>

-----------------------------------------------------------------------------
(* Shutdown.  It waits for the goroutine, not for its context.             *)

StopGoto(p, label) == stop' = [stop EXCEPT ![p].pc = label]

Shutdown(p) ==
  /\ stop[p].pc = "idle"
  /\ IF stopOnce = "new"
     THEN /\ stopOnce' = "running" /\ cancelled' = TRUE
          /\ ctxDone' = (ctxDone \/ (Uploading /\ up.by \in Flushers \cup {Tick}))
          /\ stop' = [stop EXCEPT ![p] = [pc |-> "wait", before |-> sum, gone |-> {}]]
     ELSE StopGoto(p, "once") /\ UNCHANGED <<stopOnce, cancelled, ctxDone>>
  /\ UNCHANGED <<up, client, closed, shutOnce, job, run, flush, others, dataVars>>

ShutdownAgain(p) ==
  /\ stop[p].pc = "once" /\ stopOnce = "done"
  /\ StopGoto(p, "ErrReaderShutdown")
  /\ UNCHANGED <<exporterVars, job, run, cancelled, flush, stopOnce, others, dataVars>>

NoWait == TRUE                                \* mutant: Shutdown does not wait for r.done

WaitsForRun == run = "done"

ShutdownCollects(p) ==
  /\ stop[p].pc = "wait" /\ WaitsForRun
  /\ Collect(p)
  /\ stop' = [stop EXCEPT ![p] = [pc |-> "collect", before |-> @.before, gone |-> lost]]
  /\ UNCHANGED <<exporterVars, run, cancelled, flush, stopOnce, others, dataVars>>

ShutdownExporter(p) ==
  /\ stop[p].pc = "collect" /\ job.step \in {"ok", "error"}
  /\ ExporterSwap
  /\ StopGoto(p, "client")
  /\ UNCHANGED <<job, run, cancelled, flush, stopOnce, others, dataVars>>

(* The client answers an error when the context has ended.                 *)
ShutdownClient(p) ==
  /\ stop[p].pc = "client"
  /\ ClientShutdown
  /\ \E answer \in {job.step} \cup (IF Faults THEN {"error"} ELSE {}) : StopGoto(p, answer)
  /\ stopOnce' = "done" /\ job' = NoJob
  /\ UNCHANGED <<run, cancelled, flush, others, dataVars>>

ShutdownNext(p) ==
  ShutdownAgain(p) \/ ShutdownCollects(p) \/ ShutdownExporter(p) \/ ShutdownClient(p)

RunNext == (\E f \in Flushers : RunFlush(f)) \/ RunAnswers

Next ==
  \/ Measure
  \/ CollectNext
  \/ \E o \in Others : OtherExport(o) \/ OtherReturns(o)
  \/ UploadNext /\ UNCHANGED <<readerVars, dataVars>>
  \/ CtxEnds /\ UNCHANGED <<readerVars, dataVars>>
  \/ RunTick \/ RunNext \/ RunStops
  \/ \E f \in Flushers : ForceFlush(f) \/ FlushReaderDone(f) \/ FlushCtxDone(f)
  \/ \E p \in Stoppers : Shutdown(p) \/ ShutdownNext(p)

Spec == Init /\ [][Next]_vars

(* Goroutines go on, and a request returns.  ForceFlush always has a       *)
(* timeout, and the random select takes the cancellation some time though  *)
(* the ticker fires for ever.                                              *)
FairSpec ==
  /\ Spec
  /\ WF_vars(CollectNext)
  /\ WF_vars(UploadNext /\ UNCHANGED <<readerVars, dataVars>>)
  /\ \A o \in Others : WF_vars(OtherReturns(o))
  /\ WF_vars(RunAnswers) /\ SF_vars(RunStops)
  /\ \A f \in Flushers : WF_vars(FlushReaderDone(f) \/ FlushCtxDone(f))
  /\ \A p \in Stoppers : WF_vars(ShutdownNext(p))

-----------------------------------------------------------------------------
(* Properties. *)

(* Every measurement is in the counter, in the collection under way, was   *)
(* exported or was lost with an error, and only one of these: a collection *)
(* clears what it takes and nothing else (sum.go delta, pipeline.go        *)
(* produce).                                                               *)
Flying == IF job.step \in {"export", "upload"} THEN job.batch ELSE {}

CountedOnce ==
  /\ 1..recorded = sum \cup Flying \cup exported \cup lost
  /\ Cardinality(sum) + Cardinality(Flying) + Cardinality(exported) + Cardinality(lost) = recorded

(* ForceFlush answers nil only when what the counter held as the goroutine *)
(* took the request has been exported (periodic_reader.go, ForceFlush).    *)
FlushExports == \A f \in Flushers : flush[f].pc = "ok" => flush[f].asked \subseteq exported

(* Shutdown answers nil only when what the counter held as it was called   *)
(* has been exported, but for what the goroutine's collections took after  *)
(* the call and had lost before Shutdown collected itself, which is less   *)
(* than its comment says ("flushes pending telemetry"); and nothing is     *)
(* being collected any more (periodic_reader.go, Shutdown).                *)
ShutdownDrains ==
  \A p \in Stoppers : stop[p].pc = "ok" =>
    stop[p].before \subseteq exported \cup stop[p].gone /\ job = NoJob /\ run = "done"

(* ForceFlush and Shutdown return, also when they meet and when the        *)
(* exporter is busy with somebody else's upload.                           *)
Waiting ==
  \/ \E f \in Flushers : flush[f].pc \in {"send", "answer"}
  \/ \E p \in Stoppers : stop[p].pc \in {"wait", "once", "collect", "client"}

CallsReturn == Waiting ~> ~Waiting
=============================================================================
