------------------------- MODULE BatchSpanProcessor -------------------------
(***************************************************************************)
(* The batch span processor of sdk/trace/batch_span_processor.go: the      *)
(* goroutines that end spans, the ones that call ForceFlush and Shutdown,  *)
(* the processor goroutine, the goroutine each ForceFlush spawns to export *)
(* and the goroutine Shutdown spawns to stop.                              *)
(*                                                                         *)
(* A span stands for the one OnEnd call it is passed to.  The marker a     *)
(* ForceFlush call enqueues is the name of that call.                      *)
(***************************************************************************)
EXTENDS Integers, Sequences, FiniteSets

CONSTANTS
  Spans,               (* the ended spans, one OnEnd call each              *)
  Unsampled,           (* the spans whose SpanContext is not sampled        *)
  Flushers,            (* the ForceFlush calls                              *)
  Closers,             (* the Shutdown calls                                *)
  Cancellable,         (* the calls whose context may be cancelled          *)
  Processor,           (* the processor goroutine                           *)
  NoThread,            (* the owner of a free mutex                         *)
  MaxQueueSize,
  MaxExportBatchSize,
  BlockOnQueueFull

ASSUME NamesAssumption ==
  /\ Spans \cap Flushers = {}
  /\ Processor \notin Flushers
  /\ NoThread \notin Flushers \cup {Processor}

ASSUME CallsAssumption ==
  /\ Unsampled \subseteq Spans
  /\ Cancellable \subseteq Flushers \cup Closers

(* A capacity of 0 would make the channel a rendezvous; the options never  *)
(* set it unless the user asks for it, and the model leaves it out.        *)
ASSUME SizesAssumption ==
  /\ MaxQueueSize \in Nat \ {0}
  /\ MaxExportBatchSize \in Nat \ {0}
  /\ BlockOnQueueFull \in BOOLEAN

VARIABLES
  queue,      (* bsp.queue: a buffered channel of spans and flush markers   *)
  dropped,    (* bsp.dropped                                                *)
  batch,      (* bsp.batch                                                  *)
  mutex,      (* the owner of bsp.batchMutex                                *)
  armed,      (* bsp.timer is running                                       *)
  tick,       (* a value is waiting in bsp.timer.C                          *)
  stopped,    (* bsp.stopped                                                *)
  stopCh,     (* bsp.stopCh is closed                                       *)
  once,       (* bsp.stopOnce                                               *)
  cancelled,  (* the calls whose context is done                            *)
  flushed,    (* the markers whose flushed channel is closed                *)
  endPc,      (* where each OnEnd call is                                   *)
  flushPc,    (* where each ForceFlush call is                              *)
  shutPc,     (* where each Shutdown call is                                *)
  procPc,     (* where the processor goroutine is                           *)
  draining,   (* the processor goroutine is in drainQueue                   *)
  hand,       (* the span it took from the queue and has not yet batched    *)
  exportPc,   (* where each thread is in exportSpans                        *)
  exportErr,  (* what its ExportSpans returned                              *)
  stopperPc,  (* where the goroutine that Shutdown spawns is                *)
  accepted,   (* history: the spans that entered the queue, in order        *)
  exported,   (* history: the spans whose ExportSpans call has returned     *)
  atFlush,    (* history: how many spans each ForceFlush has to flush       *)
  atStop      (* history: how many spans were accepted at Shutdown          *)

timerVars == <<armed, tick>>
stopVars  == <<stopped, stopCh, once, shutPc, stopperPc>>
procVars  == <<procPc, draining, hand>>
callVars  == <<cancelled, flushed, endPc, flushPc>>
exportVars == <<exportPc, exportErr>>
history   == <<accepted, exported, atFlush, atStop>>
dataVars  == <<queue, dropped, batch, mutex>>
coreVars  == <<timerVars, stopVars, procVars>>
vars == <<dataVars, coreVars, callVars, exportVars, history>>

(* The threads that call exportSpans: the processor goroutine and the one  *)
(* each ForceFlush spawns.                                                 *)
Threads == Flushers \cup {Processor}

Init ==
  /\ queue = <<>> /\ dropped = 0 /\ batch = <<>> /\ mutex = NoThread
  /\ armed = TRUE /\ tick = FALSE
  /\ stopped = FALSE /\ stopCh = FALSE /\ once = "fresh"
  /\ shutPc = [c \in Closers |-> "idle"] /\ stopperPc = "none"
  /\ procPc = "receive" /\ draining = FALSE /\ hand = <<>>
  /\ cancelled = {} /\ flushed = {}
  /\ endPc = [s \in Spans |-> "idle"]
  /\ flushPc = [f \in Flushers |-> "idle"]
  /\ exportPc = [t \in Threads |-> "idle"]
  /\ exportErr = [t \in Threads |-> FALSE]
  /\ accepted = <<>> /\ exported = <<>>
  /\ atFlush = [f \in Flushers |-> 0] /\ atStop = 0

-----------------------------------------------------------------------------
(* The environment: contexts end and the timer fires.  A timer channel     *)
(* holds one value: a second expiry finds it full and is lost.  A context  *)
(* that ends after its call has returned makes no difference.              *)

FlushDone == {"nil", "stopped", "ctxErr", "exportErr"}

Returned ==
  {f \in Flushers : flushPc[f] \in FlushDone}
    \cup {c \in Closers : shutPc[c] \in {"nil", "ctxErr", "again"}}

Cancel(x) ==
  /\ x \in Cancellable \ (cancelled \cup Returned)
  /\ cancelled' = cancelled \cup {x}
  /\ UNCHANGED <<dataVars, coreVars, flushed, endPc, flushPc, exportVars,
                 history>>

TimerFires ==
  /\ armed
  /\ armed' = FALSE
  /\ tick' = TRUE
  /\ UNCHANGED <<dataVars, stopVars, procVars, callVars, exportVars, history>>

-----------------------------------------------------------------------------
(* OnEnd. *)

HasRoom == Len(queue) < MaxQueueSize

(* OnEnd looks at stopped once, before it enqueues. *)
OnEnd(s) ==
  /\ endPc[s] = "idle"
  /\ endPc' = [endPc EXCEPT ![s] =
                 IF stopped \/ s \in Unsampled THEN "ignored" ELSE "enqueue"]
  /\ UNCHANGED <<dataVars, coreVars, cancelled, flushed, flushPc, exportVars,
                 history>>

(* The send of both enqueueBlockOnQueueFull, whose context here is never   *)
(* done, and enqueueDrop.                                                  *)
EnqueueSpan(s) ==
  /\ endPc[s] = "enqueue"
  /\ HasRoom
  /\ queue' = Append(queue, s)
  /\ accepted' = Append(accepted, s)
  /\ endPc' = [endPc EXCEPT ![s] = "queued"]
  /\ UNCHANGED <<dropped, batch, mutex, coreVars, cancelled, flushed, flushPc,
                 exportVars, exported, atFlush, atStop>>

(* The default case of enqueueDrop. *)
EnqueueDrop(s) ==
  /\ endPc[s] = "enqueue"
  /\ ~BlockOnQueueFull
  /\ ~HasRoom
  /\ dropped' = dropped + 1
  /\ endPc' = [endPc EXCEPT ![s] = "dropped"]
  /\ UNCHANGED <<queue, batch, mutex, coreVars, cancelled, flushed, flushPc,
                 exportVars, history>>

-----------------------------------------------------------------------------
(* exportSpans, by the processor goroutine or by the one of a ForceFlush.  *)

StartExport(t) == exportPc' = [exportPc EXCEPT ![t] = "reset"]

ForgetTimer == UNCHANGED armed                         \* mutant: no Reset

ResetTimer == armed' = TRUE

ExportResetTimer(t) ==
  /\ exportPc[t] = "reset"
  /\ ResetTimer
  /\ exportPc' = [exportPc EXCEPT ![t] = "lock"]
  /\ UNCHANGED <<dataVars, tick, stopVars, procVars, callVars, exportErr,
                 history>>

NoLock == TRUE                                         \* mutant: no Lock

Unlocked == mutex = NoThread

(* Lock the batch and, unless it is empty, call the exporter with it. *)
ExportLock(t) ==
  /\ exportPc[t] = "lock"
  /\ Unlocked
  /\ IF batch = <<>>
     THEN /\ exportPc' = [exportPc EXCEPT ![t] = "return"]
          /\ exportErr' = [exportErr EXCEPT ![t] = FALSE]
          /\ UNCHANGED mutex
     ELSE /\ exportPc' = [exportPc EXCEPT ![t] = "export"]
          /\ mutex' = t
          /\ UNCHANGED exportErr
  /\ UNCHANGED <<queue, dropped, batch, coreVars, callVars, history>>

KeptBatch == batch                                     \* mutant: kept for a retry

EmptiedBatch == <<>>

(* The exporter returns, with an error or without: the batch is emptied    *)
(* either way, and unlocked.                                               *)
ExportReturns(t) ==
  /\ exportPc[t] = "export"
  /\ \E err \in BOOLEAN : exportErr' = [exportErr EXCEPT ![t] = err]
  /\ exportPc' = [exportPc EXCEPT ![t] = "return"]
  /\ exported' = exported \o batch
  /\ batch' = EmptiedBatch
  /\ mutex' = NoThread
  /\ UNCHANGED <<queue, dropped, coreVars, callVars, accepted, atFlush,
                 atStop>>
-----------------------------------------------------------------------------
(* ForceFlush. *)

(* The two checks on entry. *)
ForceFlush(f) ==
  /\ flushPc[f] = "idle"
  /\ flushPc' = [flushPc EXCEPT ![f] = IF f \in cancelled THEN "ctxErr"
                                       ELSE IF stopped THEN "stopped"
                                       ELSE "enqueue"]
  /\ atFlush' = [atFlush EXCEPT ![f] = Len(accepted)]
  /\ UNCHANGED <<dataVars, coreVars, cancelled, flushed, endPc, exportVars,
                 accepted, exported, atStop>>

(* enqueueBlockOnQueueFull sends the marker ... *)
EnqueueMarker(f) ==
  /\ flushPc[f] = "enqueue"
  /\ HasRoom
  /\ queue' = Append(queue, f)
  /\ flushPc' = [flushPc EXCEPT ![f] = "await"]
  /\ UNCHANGED <<dropped, batch, mutex, coreVars, cancelled, flushed, endPc,
                 exportVars, history>>

(* ... or gives up because the context is done.  ForceFlush then does not  *)
(* return: it goes on to export the batch as it is.                        *)
MarkerAbandoned(f) ==
  /\ flushPc[f] = "enqueue"
  /\ f \in cancelled
  /\ flushPc' = [flushPc EXCEPT ![f] = "export"]
  /\ StartExport(f)
  /\ UNCHANGED <<dataVars, coreVars, cancelled, flushed, endPc, exportErr,
                 history>>

MarkerNotAwaited(f) == TRUE                            \* mutant: no wait

MarkerSeen(f) == f \in flushed

(* The first select: the marker came through, so export what it left in    *)
(* the batch ...                                                           *)
FlushSeen(f) ==
  /\ flushPc[f] = "await"
  /\ MarkerSeen(f)
  /\ flushPc' = [flushPc EXCEPT ![f] = "export"]
  /\ StartExport(f)
  /\ UNCHANGED <<dataVars, coreVars, cancelled, flushed, endPc, exportErr,
                 history>>

(* ... or the processor is being shut down, or the context is done. *)
FlushInterrupted(f) ==
  /\ flushPc[f] = "await"
  /\ \/ /\ stopCh
        /\ flushPc' = [flushPc EXCEPT ![f] = "stopped"]
     \/ /\ f \in cancelled
        /\ flushPc' = [flushPc EXCEPT ![f] = "ctxErr"]
  /\ UNCHANGED <<dataVars, coreVars, cancelled, flushed, endPc, exportVars,
                 history>>

(* The second select: the export has finished (an unbuffered channel: the  *)
(* spawned goroutine and the caller meet) ...                              *)
FlushExported(f) ==
  /\ flushPc[f] = "export"
  /\ exportPc[f] = "return"
  /\ flushPc' = [flushPc EXCEPT ![f] = IF exportErr[f] THEN "exportErr" ELSE "nil"]
  /\ exportPc' = [exportPc EXCEPT ![f] = "idle"]
  /\ UNCHANGED <<dataVars, coreVars, cancelled, flushed, endPc, exportErr,
                 history>>

(* ... or the context is done and the caller leaves.  The goroutine goes   *)
(* on, and stays at "return" for good: nobody will receive its result.     *)
FlushAbandoned(f) ==
  /\ flushPc[f] = "export"
  /\ f \in cancelled
  /\ flushPc' = [flushPc EXCEPT ![f] = "ctxErr"]
  /\ UNCHANGED <<dataVars, coreVars, cancelled, flushed, endPc, exportVars,
                 history>>

-----------------------------------------------------------------------------
(* The processor goroutine: processQueue, then drainQueue. *)

ProcessStop ==
  /\ procPc = "receive" /\ ~draining
  /\ stopCh
  /\ draining' = TRUE
  /\ armed' = FALSE                       \* the deferred timer.Stop
  /\ UNCHANGED <<dataVars, tick, stopVars, procPc, hand, callVars, exportVars,
                 history>>

ProcessTick ==
  /\ procPc = "receive" /\ ~draining
  /\ tick
  /\ tick' = FALSE
  /\ procPc' = "export"
  /\ StartExport(Processor)
  /\ UNCHANGED <<dataVars, armed, stopVars, draining, hand, callVars,
                 exportErr, history>>

(* Receive a flush marker: processQueue acknowledges it, drainQueue does   *)
(* not.                                                                    *)
ReceiveMarker ==
  /\ procPc = "receive"
  /\ queue # <<>>
  /\ Head(queue) \in Flushers
  /\ queue' = Tail(queue)
  /\ flushed' = IF draining THEN flushed ELSE flushed \cup {Head(queue)}
  /\ UNCHANGED <<dropped, batch, mutex, coreVars, cancelled, endPc, flushPc,
                 exportVars, history>>

ReceiveSpan ==
  /\ procPc = "receive"
  /\ queue # <<>>
  /\ Head(queue) \in Spans
  /\ queue' = Tail(queue)
  /\ hand' = <<Head(queue)>>
  /\ procPc' = "append"
  /\ UNCHANGED <<dropped, batch, mutex, timerVars, stopVars, draining,
                 callVars, exportVars, history>>

ShouldExportLate(n) == n > MaxExportBatchSize          \* mutant: off by one

(* shouldExport: the two loops compare differently. *)
ShouldExport(n) ==
  IF draining THEN n = MaxExportBatchSize ELSE n >= MaxExportBatchSize

(* One critical section of batchMutex. *)
AppendSpan ==
  /\ procPc = "append"
  /\ Unlocked
  /\ batch' = batch \o hand
  /\ hand' = <<>>
  /\ IF ~ShouldExport(Len(batch) + 1)
     THEN procPc' = "receive" /\ UNCHANGED exportPc
     ELSE IF draining
     THEN procPc' = "export" /\ StartExport(Processor)
     ELSE procPc' = "stopTimer" /\ UNCHANGED exportPc
  /\ UNCHANGED <<queue, dropped, mutex, timerVars, stopVars, draining,
                 callVars, exportErr, history>>

(* timer.Stop reports whether the timer was running; if it was not, its    *)
(* value has to be taken from the channel.                                 *)
StopTimer ==
  /\ procPc = "stopTimer"
  /\ armed' = FALSE
  /\ IF armed
     THEN procPc' = "export" /\ StartExport(Processor)
     ELSE procPc' = "drainTick" /\ UNCHANGED exportPc
  /\ UNCHANGED <<dataVars, tick, stopVars, draining, hand, callVars, exportErr,
                 history>>

DrainTick ==
  /\ procPc = "drainTick"
  /\ tick
  /\ tick' = FALSE
  /\ procPc' = "export"
  /\ StartExport(Processor)
  /\ UNCHANGED <<dataVars, armed, stopVars, draining, hand, callVars,
                 exportErr, history>>

NothingToDrain == TRUE                                 \* mutant: no drain

QueueDrained == queue = <<>>

(* The default case of drainQueue: the queue is empty, export what is left.*)
DrainFinal ==
  /\ procPc = "receive" /\ draining
  /\ QueueDrained
  /\ procPc' = "final"
  /\ StartExport(Processor)
  /\ UNCHANGED <<dataVars, timerVars, stopVars, draining, hand, callVars,
                 exportErr, history>>

(* exportSpans returns to the loop; after the final export the goroutine   *)
(* ends and releases stopWait.                                             *)
ProcessorExported ==
  /\ procPc \in {"export", "final"}
  /\ exportPc[Processor] = "return"
  /\ procPc' = IF procPc = "final" THEN "exited" ELSE "receive"
  /\ exportPc' = [exportPc EXCEPT ![Processor] = "idle"]
  /\ UNCHANGED <<dataVars, timerVars, stopVars, draining, hand, callVars,
                 exportErr, history>>

-----------------------------------------------------------------------------
(* Shutdown. *)

ShutdownCall(c) ==
  /\ shutPc[c] = "idle"
  /\ shutPc' = [shutPc EXCEPT ![c] = "called"]
  /\ UNCHANGED <<dataVars, timerVars, stopped, stopCh, once, stopperPc,
                 procVars, callVars, exportVars, history>>

(* The call that runs stopOnce sets stopped and spawns the stopper. *)
ShutdownBegin(c) ==
  /\ shutPc[c] = "called"
  /\ once = "fresh"
  /\ once' = "running"
  /\ stopped' = TRUE
  /\ stopperPc' = "close"
  /\ shutPc' = [shutPc EXCEPT ![c] = "wait"]
  /\ atStop' = Len(accepted)
  /\ UNCHANGED <<dataVars, timerVars, stopCh, procVars, callVars, exportVars,
                 accepted, exported, atFlush>>

(* Its select: the stopper has finished, or the context is done. *)
ShutdownReturn(c) ==
  /\ shutPc[c] = "wait"
  /\ \/ /\ stopperPc = "finished"
        /\ shutPc' = [shutPc EXCEPT ![c] = "nil"]
     \/ /\ c \in cancelled
        /\ shutPc' = [shutPc EXCEPT ![c] = "ctxErr"]
  /\ once' = "done"
  /\ UNCHANGED <<dataVars, timerVars, stopped, stopCh, stopperPc, procVars,
                 callVars, exportVars, history>>

(* Any other call waits in stopOnce.Do, whatever its context, and returns  *)
(* nil.                                                                    *)
ShutdownAgain(c) ==
  /\ shutPc[c] = "called"
  /\ once = "done"
  /\ shutPc' = [shutPc EXCEPT ![c] = "again"]
  /\ UNCHANGED <<dataVars, timerVars, stopped, stopCh, once, stopperPc,
                 procVars, callVars, exportVars, history>>

(* The goroutine of Shutdown: close stopCh, wait for the processor         *)
(* goroutine, shut the exporter down, close wait.                          *)
StopperStep(from, to) ==
  /\ stopperPc = from
  /\ stopperPc' = to
  /\ UNCHANGED <<dataVars, timerVars, stopped, once, shutPc, procVars,
                 callVars, exportVars, history>>

StopperClose == StopperStep("close", "await") /\ stopCh' = TRUE

ExporterShutdown ==
  /\ procPc = "exited"
  /\ StopperStep("await", "exporter")
  /\ UNCHANGED stopCh

ExporterShutdownReturns ==
  /\ StopperStep("exporter", "finished")
  /\ UNCHANGED stopCh

-----------------------------------------------------------------------------
OnEndNext(s) == OnEnd(s) \/ EnqueueSpan(s) \/ EnqueueDrop(s)

ExportNext(t) == ExportResetTimer(t) \/ ExportLock(t) \/ ExportReturns(t)

FlushProceeds(f) ==
  \/ EnqueueMarker(f) \/ MarkerAbandoned(f) \/ FlushSeen(f)
  \/ FlushInterrupted(f) \/ FlushExported(f) \/ FlushAbandoned(f)

FlushNext(f) == ForceFlush(f) \/ FlushProceeds(f)

ProcessorNext ==
  \/ ProcessStop \/ ProcessTick \/ ReceiveMarker \/ ReceiveSpan \/ AppendSpan
  \/ StopTimer \/ DrainTick \/ DrainFinal \/ ProcessorExported

ShutdownNext(c) ==
  ShutdownCall(c) \/ ShutdownBegin(c) \/ ShutdownReturn(c) \/ ShutdownAgain(c)

StopperNext == StopperClose \/ ExporterShutdown \/ ExporterShutdownReturns

Next ==
  \/ \E x \in Cancellable : Cancel(x)
  \/ TimerFires
  \/ \E s \in Spans : OnEndNext(s)
  \/ \E t \in Threads : ExportNext(t)
  \/ \E f \in Flushers : FlushNext(f)
  \/ ProcessorNext
  \/ \E c \in Closers : ShutdownNext(c)
  \/ StopperNext

Spec == Init /\ [][Next]_vars

(* The goroutines that were started are scheduled, the timer expires, and  *)
(* the exporter returns from ExportSpans and Shutdown.  Strong fairness is *)
(* for the select of processQueue only: Go picks a ready case at random,   *)
(* so that a timer that keeps firing cannot shut the other two out for     *)
(* ever.  Waiting for the mutex or for room needs no more than weak        *)
(* fairness, and weak fairness of all calls of a kind together, since the  *)
(* calls are finitely many and each is over after finitely many steps.     *)
Fairness ==
  /\ WF_vars(TimerFires)
  /\ WF_vars(ProcessorNext)
  /\ SF_vars(ProcessStop \/ ReceiveMarker \/ ReceiveSpan)
  /\ \A t \in Threads : WF_vars(ExportNext(t))
  /\ WF_vars(\E s \in Spans : EnqueueSpan(s) \/ EnqueueDrop(s))
  /\ WF_vars(\E f \in Flushers : FlushProceeds(f))
  /\ WF_vars(\E c \in Closers :
                ShutdownBegin(c) \/ ShutdownReturn(c) \/ ShutdownAgain(c))
  /\ WF_vars(StopperNext)

FairSpec == Spec /\ Fairness

-----------------------------------------------------------------------------
(* Properties. *)

Calls == Flushers \cup Closers

TypeOK ==
  /\ queue \in Seq(Spans \cup Flushers)
  /\ Len(queue) <= MaxQueueSize
  /\ dropped \in Nat
  /\ batch \in Seq(Spans)
  /\ mutex \in Threads \cup {NoThread}
  /\ armed \in BOOLEAN /\ tick \in BOOLEAN
  /\ stopped \in BOOLEAN /\ stopCh \in BOOLEAN
  /\ once \in {"fresh", "running", "done"}
  /\ cancelled \in SUBSET Calls
  /\ flushed \in SUBSET Flushers
  /\ endPc \in [Spans -> {"idle", "enqueue", "queued", "dropped", "ignored"}]
  /\ flushPc \in [Flushers -> {"idle", "enqueue", "await", "export", "nil",
                               "stopped", "ctxErr", "exportErr"}]
  /\ shutPc \in [Closers -> {"idle", "called", "wait", "nil", "ctxErr", "again"}]
  /\ procPc \in {"receive", "append", "stopTimer", "drainTick", "export",
                 "final", "exited"}
  /\ draining \in BOOLEAN
  /\ hand \in Seq(Spans)
  /\ exportPc \in [Threads -> {"idle", "reset", "lock", "export", "return"}]
  /\ exportErr \in [Threads -> BOOLEAN]
  /\ stopperPc \in {"none", "close", "await", "exporter", "finished"}
  /\ accepted \in Seq(Spans)
  /\ exported \in Seq(Spans)
  /\ atFlush \in [Flushers -> Nat]
  /\ atStop \in Nat

(* What the SpanExporter interface promises an exporter (span_exporter.go, *)
(* ExportSpans "is called synchronously, so there is no concurrency safety *)
(* requirement"): two ExportSpans calls never overlap, and none overlaps   *)
(* or follows the exporter's Shutdown, although ForceFlush goroutines may  *)
(* outlive their callers and the processor goroutine.                      *)
ExporterContract ==
  \A t \in Threads : exportPc[t] = "export" =>
    /\ \A u \in Threads \ {t} : exportPc[u] # "export"
    /\ stopperPc \notin {"exporter", "finished"}

(* The batch passed to the exporter never exceeds MaxExportBatchSize, even *)
(* though drainQueue tests for the size with == and ForceFlush goroutines  *)
(* empty the batch between an append and the export it asks for.           *)
BatchBounded == Len(batch) <= MaxExportBatchSize

Increasing(q, acc) ==
  \A i, j \in 1..Len(q), k, l \in 1..Len(acc) :
    i < j /\ q[i] = acc[k] /\ q[j] = acc[l] => k < l

(* q holds, in order and with flush markers in between, the elements of    *)
(* acc past its first n.                                                   *)
InOrder(n, q, acc) ==
  /\ n \in 0..Len(acc)
  /\ \A k \in n + 1..Len(acc) : \E i \in 1..Len(q) : q[i] = acc[k]
  /\ \A i \in 1..Len(q) : q[i] \in Spans =>
       \E k \in n + 1..Len(acc) : q[i] = acc[k]
  /\ Increasing(q, acc)

Distinct(acc) == \A i, j \in 1..Len(acc) : acc[i] = acc[j] => i = j

(* The spans taken from the queue so far: exported, in the batch, in the   *)
(* processor's hand.                                                       *)
Taken == exported \o batch \o hand

(* Every span that entered the queue is in exactly one place and in order: *)
(* exported, in the batch, in the processor's hand, or still queued, and   *)
(* these in the order in which they were accepted.                         *)
FIFO ==
  /\ InOrder(Len(Taken), queue, accepted)
  /\ \A i \in 1..Len(Taken) : Taken[i] = accepted[i]
  /\ Distinct(accepted)

(* When processQueue stops a timer that already fired, the channel holds   *)
(* the value it then waits for: a concurrent exportSpans, which resets the *)
(* timer outside the lock, cannot leave it waiting.                        *)
TimerHasTicked == procPc = "drainTick" => tick

(* A ForceFlush that returned nil after its export, with its context alive,*)
(* finds every span accepted before the call exported.                     *)
FlushIsComplete ==
  \A f \in Flushers :
    flushPc[f] = "nil" /\ f \notin cancelled => Len(exported) >= atFlush[f]

(* The exporter is shut down only when every span accepted before Shutdown *)
(* was called has been exported, and the Shutdown call that ran returns    *)
(* nil only after that.                                                    *)
ShutdownDrains ==
  /\ stopperPc \in {"exporter", "finished"} => Len(exported) >= atStop
  /\ \A c \in Closers : shutPc[c] = "nil" => stopperPc = "finished"

(* The processor implements the abstract pipeline of SpanPipeline: exactly *)
(* once, in order, in bounded batches, never after the exporter's Shutdown.*)
Pipeline == INSTANCE SpanPipeline WITH
  MaxBatch <- MaxExportBatchSize,
  delivered <- exported,
  closed <- stopperPc \in {"exporter", "finished"}

ImplementsPipeline == Pipeline!Spec

(* ForceFlush returns, which needs its context to end when Shutdown has    *)
(* stopped the processor while the call waited for room.  Every Shutdown   *)
(* call returns, the one that runs stopOnce and those that wait in it      *)
(* without regard to their context, and the stopper shuts the exporter     *)
(* down, whether or not the call that started it waits for that.           *)
FlushReturns ==
  \A f \in Flushers :
    flushPc[f] # "idle"
      ~> flushPc[f] \in FlushDone \/ (stopped /\ f \notin cancelled)

InShutdown == \E c \in Closers : shutPc[c] \in {"called", "wait"}

ShutdownReturns == InShutdown ~> ~InShutdown

ShutdownCompletes == stopped ~> stopperPc = "finished"

CallsReturn == FlushReturns /\ ShutdownReturns /\ ShutdownCompletes

(* Until Shutdown is called, which drains the queue, a blocked OnEnd gets  *)
(* room and every accepted span is exported, full batch or not.            *)
Unexported ==
  Len(accepted) > Len(exported) \/ \E s \in Spans : endPc[s] = "enqueue"

EndedIsExported == Unexported ~> ~Unexported \/ stopped
=============================================================================
