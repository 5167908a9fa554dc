-------------------------- MODULE LogBatchProcessor --------------------------
(***************************************************************************)
(* The batch processor of the log SDK (sdk/log/batch.go) with the chain of *)
(* exporters below it (sdk/log/exporter.go).                               *)
(*                                                                         *)
(* OnEmit puts records into a queue that overwrites the oldest one.  The   *)
(* poll goroutine moves batches from the queue to the input channel of the *)
(* bufferExporter, ForceFlush moves the whole queue, and the export        *)
(* goroutine hands what it receives to the exporter in chunks.  The queue  *)
(* has a mutex, which is held while a batch is offered to the channel, and *)
(* the sending side of the channel has another, which ForceFlush holds     *)
(* while it waits for room and Shutdown while it waits for the exports.    *)
(***************************************************************************)
EXTENDS Integers, SequencesExt, FiniteSetsExt, LogQueueOps

CONSTANTS
  Records,      (* the records emitted; each stands for its OnEmit call      *)
  Flushes,      (* the ForceFlush calls                                      *)
  Shutdowns,    (* the Shutdown calls                                        *)
  Cancellable,  (* the calls among these whose context may end               *)
  BatchSize,    (* WithExportMaxBatchSize                                    *)
  Poll,         (* the poll goroutine, as the owner of a mutex               *)
  Nobody        (* the owner of a free mutex, and of a batch nobody awaits   *)

Waiters == Flushes \cup Shutdowns
Calls == Records \cup Waiters

(* The configuration clamps a batch size that is given to the queue's      *)
(* capacity, but not the default one.                                      *)
ASSUME BatchSizeAssumption == BatchSize \in Nat \ {0}

ASSUME CallsAssumption ==
  /\ Cancellable \subseteq Waiters
  /\ Records \cap Waiters = {} /\ Flushes \cap Shutdowns = {}
  /\ Poll \notin Calls /\ Nobody \notin Calls /\ Poll # Nobody

VARIABLES
  queue, qmu,               (* b.q and its mutex                             *)
  stopped,                  (* b.stopped                                     *)
  trigger, killed,          (* pollTrigger holds a value, pollKill is closed *)
  pollPc,                   (* the poll goroutine                            *)
  pc,                       (* where each call is                            *)
  held,                     (* the records Shutdown has taken from the queue *)
  cancelled,                (* the calls whose context is done               *)
  timedOut,                 (* the calls that will return its error          *)
  input, inputMu, closed,   (* e.input, e.inputMu, and e.input is closed     *)
  eStopped,                 (* e.stopped                                     *)
  data,                     (* what the export goroutine has received: none  *)
                            (* or one element, its records not yet exported  *)
  exporting,                (* the chunk the exporter is busy with           *)
  replied,                  (* the calls whose response channel has a value  *)
  expDone,                  (* e.done is closed                              *)
  exporter,                 (* the user's exporter: up, stopping or down     *)
  emitted,                  (* history: the records put into the queue       *)
  late,                     (* history: those put there after stopped was set*)
  overwritten,              (* history: those overwritten in the queue       *)
  exported,                 (* history: those handed to the exporter         *)
  abandoned,                (* history: those left after a failed chunk      *)
  awaited                   (* history: what a ForceFlush call has to flush  *)

queueVars == <<queue, qmu, overwritten, emitted, late>>
pollVars == <<pollPc, trigger, killed>>
callVars == <<pc, stopped, held, cancelled, timedOut, awaited>>
bufferVars == <<input, inputMu, closed, eStopped>>
exportVars == <<data, exporting, replied, expDone, exported, abandoned>>
vars == <<queueVars, pollVars, callVars, bufferVars, exportVars, exporter>>

Init ==
  /\ queue = <<>> /\ qmu = Nobody
  /\ stopped = FALSE /\ trigger = FALSE /\ killed = FALSE
  /\ pollPc = "select" /\ pc = [c \in Calls |-> "idle"]
  /\ held = <<>> /\ cancelled = {} /\ timedOut = {}
  /\ input = <<>> /\ inputMu = Nobody /\ closed = FALSE /\ eStopped = FALSE
  /\ data = <<>> /\ exporting = <<>> /\ replied = {} /\ expDone = FALSE
  /\ exporter = "up"
  /\ emitted = <<>> /\ late = {} /\ overwritten = {} /\ exported = <<>>
  /\ abandoned = {} /\ awaited = [f \in Flushes |-> {}]

Goto(c, place) == pc' = [pc EXCEPT ![c] = place]

Cancel(c) ==
  /\ c \in Cancellable \ cancelled
  /\ cancelled' = cancelled \cup {c}
  /\ UNCHANGED <<pc, stopped, held, timedOut, awaited>>
  /\ UNCHANGED <<queueVars, pollVars, bufferVars, exportVars, exporter>>

-----------------------------------------------------------------------------
(* OnEmit. *)

EmitCheck(r) ==
  /\ pc[r] = "idle"
  /\ Goto(r, IF stopped THEN "ignored" ELSE "enqueue")
  /\ UNCHANGED <<stopped, held, cancelled, timedOut, awaited>>
  /\ UNCHANGED <<queueVars, pollVars, bufferVars, exportVars, exporter>>

HasBatch(n) == n >= BatchSize

Enqueue(r) ==
  /\ pc[r] = "enqueue" /\ qmu = Nobody
  /\ queue' = Enqueued(queue, r)
  /\ overwritten' = overwritten \cup Overwritten(queue)
  /\ emitted' = Append(emitted, r)
  /\ late' = IF stopped THEN late \cup {r} ELSE late
  /\ Goto(r, IF HasBatch(Len(queue')) THEN "trigger" ELSE "done")
  /\ UNCHANGED <<qmu, stopped, held, cancelled, timedOut, awaited>>
  /\ UNCHANGED <<pollVars, bufferVars, exportVars, exporter>>

EmitTrigger(r) ==
  /\ pc[r] = "trigger"
  /\ trigger' = TRUE
  /\ Goto(r, "done")
  /\ UNCHANGED <<pollPc, killed, stopped, held, cancelled, timedOut, awaited>>
  /\ UNCHANGED <<queueVars, bufferVars, exportVars, exporter>>

-----------------------------------------------------------------------------
(* TryDequeue offers the first n records to the channel: EnqueueExport     *)
(* takes inputMu, does not wait for room, and says yes to everything once  *)
(* the exporter is stopped.  The caller t holds the queue's mutex.         *)

BufferSize == 1

HasRoom == Len(input) < BufferSize

KeptOnSuccess(n) == queue                       \* mutant: len is not reduced

Remaining(n) == SubSeq(queue, n + 1, Len(queue))

AlwaysFree == TRUE                              \* mutant: inputMu is not taken

InputFree == inputMu = Nobody

DroppedInstead(n) == TRUE                       \* mutant: a full channel drops

Written(n) == n = 0 \/ eStopped \/ HasRoom

LeftLocked(n) == IF Written(n) THEN Nobody ELSE qmu  \* mutant: early return

OwnerAfter(n) == Nobody

TryDequeue(t, n) ==
  /\ qmu = t /\ qmu' = OwnerAfter(n)
  /\ n > 0 => InputFree
  /\ queue' = IF Written(n) THEN Remaining(n) ELSE queue
  /\ input' = IF n > 0 /\ ~eStopped /\ HasRoom
              THEN Append(input, [records |-> SubSeq(queue, 1, n),
                                  reply |-> Nobody])
              ELSE input
  /\ UNCHANGED <<overwritten, emitted, late, inputMu, closed, eStopped>>

TakesQueue(t) ==
  /\ qmu = Nobody /\ qmu' = t
  /\ UNCHANGED <<queue, overwritten, emitted, late>>

-----------------------------------------------------------------------------
(* The poll goroutine. *)

PollTick ==
  /\ pollPc = "select"
  /\ pollPc' = "poll"
  /\ UNCHANGED <<trigger, killed>>
  /\ UNCHANGED <<queueVars, callVars, bufferVars, exportVars, exporter>>

PollTriggered ==
  /\ pollPc = "select" /\ trigger
  /\ trigger' = FALSE
  /\ pollPc' = "poll"
  /\ UNCHANGED killed
  /\ UNCHANGED <<queueVars, callVars, bufferVars, exportVars, exporter>>

PollKilled ==
  /\ pollPc = "select" /\ killed
  /\ pollPc' = "done"
  /\ UNCHANGED <<trigger, killed>>
  /\ UNCHANGED <<queueVars, callVars, bufferVars, exportVars, exporter>>

PollLock ==
  /\ pollPc = "poll"
  /\ TakesQueue(Poll)
  /\ pollPc' = "dequeue"
  /\ UNCHANGED <<trigger, killed>>
  /\ UNCHANGED <<callVars, bufferVars, exportVars, exporter>>

NotResent(n) == FALSE                           \* mutant: no re-trigger

Resent(n) == HasBatch(n)

PollDequeue ==
  /\ pollPc = "dequeue"
  /\ TryDequeue(Poll, Min({BatchSize, Len(queue)}))
  /\ pollPc' = IF Resent(Len(queue')) THEN "resend" ELSE "select"
  /\ UNCHANGED <<trigger, killed>>
  /\ UNCHANGED <<callVars, exportVars, exporter>>

PollResend ==
  /\ pollPc = "resend"
  /\ trigger' = TRUE
  /\ pollPc' = "select"
  /\ UNCHANGED killed
  /\ UNCHANGED <<queueVars, callVars, bufferVars, exportVars, exporter>>

-----------------------------------------------------------------------------
(* The bufferExporter: ForceFlush sends an empty batch and Shutdown the    *)
(* records that were left in the queue; both wait for the response.        *)

Payload(c) == IF c \in Shutdowns THEN held ELSE <<>>

AfterBuffer(c) == IF c \in Shutdowns THEN "stopExporter" ELSE "done"

BufferLock(c) ==
  /\ pc[c] = "buffer" /\ InputFree
  /\ IF eStopped
     THEN Goto(c, AfterBuffer(c)) /\ UNCHANGED inputMu
     ELSE Goto(c, "send") /\ inputMu' = c
  /\ UNCHANGED <<stopped, held, cancelled, timedOut, awaited>>
  /\ UNCHANGED <<input, closed, eStopped>>
  /\ UNCHANGED <<queueVars, pollVars, exportVars, exporter>>

BufferSend(c) ==
  /\ pc[c] = "send" /\ HasRoom
  /\ input' = Append(input, [records |-> Payload(c), reply |-> c])
  /\ inputMu' = Nobody
  /\ Goto(c, "await")
  /\ UNCHANGED <<stopped, held, cancelled, timedOut, awaited>>
  /\ UNCHANGED <<closed, eStopped>>
  /\ UNCHANGED <<queueVars, pollVars, exportVars, exporter>>

BufferReply(c) ==
  /\ pc[c] = "await" /\ c \in replied
  /\ Goto(c, AfterBuffer(c))
  /\ UNCHANGED <<stopped, held, cancelled, timedOut, awaited>>
  /\ UNCHANGED <<queueVars, pollVars, bufferVars, exportVars, exporter>>

StillHeld(c) == inputMu                         \* mutant: kept on ctx.Done

Released(c) == IF inputMu = c THEN Nobody ELSE inputMu

BufferTimesOut(c) ==
  /\ pc[c] \in {"send", "await"} /\ c \in cancelled
  /\ inputMu' = Released(c)
  /\ timedOut' = timedOut \cup {c}
  /\ Goto(c, AfterBuffer(c))
  /\ UNCHANGED <<stopped, held, cancelled, awaited, input, closed, eStopped>>
  /\ UNCHANGED <<queueVars, pollVars, exportVars, exporter>>

-----------------------------------------------------------------------------
(* ForceFlush. *)

FlushCall(f) ==
  /\ pc[f] = "idle"
  /\ awaited' = [awaited EXCEPT ![f] = IF stopped THEN {} ELSE ToSet(emitted)]
  /\ Goto(f, IF stopped THEN "ignored" ELSE "flush")
  /\ UNCHANGED <<stopped, held, cancelled, timedOut>>
  /\ UNCHANGED <<queueVars, pollVars, bufferVars, exportVars, exporter>>

FlushLock(f) ==
  /\ pc[f] = "flush"
  /\ TakesQueue(f)
  /\ Goto(f, "dequeue")
  /\ UNCHANGED <<stopped, held, cancelled, timedOut, awaited>>
  /\ UNCHANGED <<pollVars, bufferVars, exportVars, exporter>>

FlushNotRetried(n) == "buffer"                  \* mutant: one attempt only

FlushNext(n) == IF Written(n) THEN "buffer" ELSE "retry"

FlushDequeue(f) ==
  /\ pc[f] = "dequeue"
  /\ TryDequeue(f, Len(queue))
  /\ Goto(f, FlushNext(Len(queue)))
  /\ UNCHANGED <<stopped, held, cancelled, timedOut, awaited>>
  /\ UNCHANGED <<pollVars, exportVars, exporter>>

FlushRetry(f) ==
  /\ pc[f] = "retry"
  /\ timedOut' = IF f \in cancelled THEN timedOut \cup {f} ELSE timedOut
  /\ Goto(f, IF f \in cancelled THEN "buffer" ELSE "flush")
  /\ UNCHANGED <<stopped, held, cancelled, awaited>>
  /\ UNCHANGED <<queueVars, pollVars, bufferVars, exportVars, exporter>>

-----------------------------------------------------------------------------
(* Shutdown.  The first call closes pollKill after it has set stopped.     *)

ShutdownCall(s) ==
  /\ pc[s] = "idle"
  /\ stopped' = TRUE /\ killed' = TRUE
  /\ Goto(s, IF stopped THEN "ignored" ELSE "pollDone")
  /\ UNCHANGED <<held, cancelled, timedOut, awaited, pollPc, trigger>>
  /\ UNCHANGED <<queueVars, bufferVars, exportVars, exporter>>

ShutdownPollDone(s) ==
  /\ pc[s] = "pollDone" /\ pollPc = "done"
  /\ Goto(s, "takeQueue")
  /\ UNCHANGED <<stopped, held, cancelled, timedOut, awaited>>
  /\ UNCHANGED <<queueVars, pollVars, bufferVars, exportVars, exporter>>

ShutdownTimesOut(s) ==
  /\ pc[s] = "pollDone" /\ s \in cancelled
  /\ timedOut' = timedOut \cup {s}
  /\ Goto(s, "stopExporter")
  /\ UNCHANGED <<stopped, held, cancelled, awaited>>
  /\ UNCHANGED <<queueVars, pollVars, bufferVars, exportVars, exporter>>

ShutdownTakesQueue(s) ==
  /\ pc[s] = "takeQueue" /\ qmu = Nobody
  /\ held' = queue
  /\ queue' = <<>>
  /\ Goto(s, IF queue = <<>> THEN "stopExporter" ELSE "buffer")
  /\ UNCHANGED <<qmu, overwritten, emitted, late>>
  /\ UNCHANGED <<stopped, cancelled, timedOut, awaited>>
  /\ UNCHANGED <<pollVars, bufferVars, exportVars, exporter>>

StopExporter(s) ==
  /\ pc[s] = "stopExporter"
  /\ eStopped' = TRUE
  /\ Goto(s, "close")
  /\ UNCHANGED <<stopped, held, cancelled, timedOut, awaited>>
  /\ UNCHANGED <<input, inputMu, closed>>
  /\ UNCHANGED <<queueVars, pollVars, exportVars, exporter>>

CloseInput(s) ==
  /\ pc[s] = "close" /\ InputFree
  /\ inputMu' = s /\ closed' = TRUE
  /\ Goto(s, "drain")
  /\ UNCHANGED <<stopped, held, cancelled, timedOut, awaited>>
  /\ UNCHANGED <<input, eStopped>>
  /\ UNCHANGED <<queueVars, pollVars, exportVars, exporter>>

NotDrained == TRUE                              \* mutant: e.done not awaited

InputDrained == expDone

ExporterStops(s) ==
  /\ pc[s] = "drain"
  /\ InputDrained \/ s \in cancelled
  /\ timedOut' = IF InputDrained THEN timedOut ELSE timedOut \cup {s}
  /\ exporter' = "stopping"
  /\ Goto(s, "exporter")
  /\ UNCHANGED <<stopped, held, cancelled, awaited>>
  /\ UNCHANGED <<queueVars, pollVars, bufferVars, exportVars>>

ExporterStopped(s) ==
  /\ pc[s] = "exporter"
  /\ exporter' = "down"
  /\ inputMu' = Nobody
  /\ Goto(s, "done")
  /\ UNCHANGED <<stopped, held, cancelled, timedOut, awaited>>
  /\ UNCHANGED <<input, closed, eStopped>>
  /\ UNCHANGED <<queueVars, pollVars, exportVars>>

-----------------------------------------------------------------------------
(* The export goroutine. *)

ExportReceive ==
  /\ data = <<>> /\ input # <<>>
  /\ data' = <<Head(input)>>
  /\ input' = Tail(input)
  /\ UNCHANGED <<exporting, replied, expDone, exported, abandoned>>
  /\ UNCHANGED <<inputMu, closed, eStopped>>
  /\ UNCHANGED <<queueVars, pollVars, callVars, exporter>>

Chunk(left) == SubSeq(left, 1, Min({BatchSize, Len(left)}))

ExportChunk ==
  /\ data # <<>> /\ exporting = <<>>
  /\ data[1].records # <<>>
  /\ LET left == data[1].records  chunk == Chunk(left)
     IN  /\ exporting' = chunk
         /\ exported' = exported \o chunk
         /\ data' = [data EXCEPT ![1].records =
                       SubSeq(left, Len(chunk) + 1, Len(left))]
  /\ UNCHANGED <<replied, expDone, abandoned>>
  /\ UNCHANGED <<queueVars, pollVars, callVars, bufferVars, exporter>>

ExportReturns ==
  /\ exporting # <<>>
  /\ exporting' = <<>>
  /\ \/ UNCHANGED <<data, abandoned>>
     \/ /\ abandoned' = abandoned \cup ToSet(data[1].records)
        /\ data' = [data EXCEPT ![1].records = <<>>]
  /\ UNCHANGED <<replied, expDone, exported>>
  /\ UNCHANGED <<queueVars, pollVars, callVars, bufferVars, exporter>>

ExportRespond ==
  /\ data # <<>> /\ exporting = <<>>
  /\ data[1].records = <<>>
  /\ replied' = replied \cup ({data[1].reply} \ {Nobody})
  /\ data' = <<>>
  /\ UNCHANGED <<exporting, expDone, exported, abandoned>>
  /\ UNCHANGED <<queueVars, pollVars, callVars, bufferVars, exporter>>

ExportEnds ==
  /\ closed /\ input = <<>> /\ data = <<>> /\ ~expDone
  /\ expDone' = TRUE
  /\ UNCHANGED <<data, exporting, replied, exported, abandoned>>
  /\ UNCHANGED <<queueVars, pollVars, callVars, bufferVars, exporter>>

-----------------------------------------------------------------------------
EmitNext(r) == EmitCheck(r) \/ Enqueue(r) \/ EmitTrigger(r)

PollNext == PollTriggered \/ PollKilled \/ PollLock \/ PollDequeue \/ PollResend

BufferNext(c) ==
  BufferLock(c) \/ BufferSend(c) \/ BufferReply(c) \/ BufferTimesOut(c)

FlushProceeds(f) == FlushLock(f) \/ FlushDequeue(f) \/ FlushRetry(f) \/ BufferNext(f)

ShutdownProceeds(s) ==
  \/ ShutdownPollDone(s) \/ ShutdownTimesOut(s) \/ ShutdownTakesQueue(s)
  \/ BufferNext(s) \/ StopExporter(s) \/ CloseInput(s)
  \/ ExporterStops(s) \/ ExporterStopped(s)

ExportNext == ExportReceive \/ ExportChunk \/ ExportRespond \/ ExportEnds

Next ==
  \/ \E c \in Cancellable : Cancel(c)
  \/ \E r \in Records : EmitNext(r)
  \/ PollTick \/ PollNext
  \/ \E f \in Flushes : FlushCall(f) \/ FlushProceeds(f)
  \/ \E s \in Shutdowns : ShutdownCall(s) \/ ShutdownProceeds(s)
  \/ ExportNext \/ ExportReturns

Spec == Init /\ [][Next]_vars

(* Goroutines are scheduled and the ticker ticks: weak fairness of each.   *)
(* A mutex does not starve the goroutines that wait for it while others    *)
(* take it in turns, and a select does not forever pass over a case that   *)
(* is ready: strong fairness of the steps that the endless polling         *)
(* competes with.  A caller whose context may end need not see it end, and *)
(* the exporter returns from Export, which has a deadline.                 *)
FairSpec ==
  /\ Spec
  /\ WF_vars(\E r \in Records : EmitTrigger(r))
  /\ SF_vars(\E r \in Records : Enqueue(r))
  /\ WF_vars(PollTick \/ PollLock \/ PollDequeue \/ PollResend)
  /\ SF_vars(PollKilled)
  /\ \A f \in Flushes : WF_vars(FlushProceeds(f)) /\ SF_vars(FlushLock(f))
  /\ \A s \in Shutdowns :
       WF_vars(ShutdownProceeds(s)) /\ SF_vars(ShutdownTakesQueue(s))
  /\ WF_vars(ExportNext)
  /\ WF_vars(ExportReturns)

-----------------------------------------------------------------------------
(* Properties. *)

(* The records on their way, the oldest first: handed to the exporter, in  *)
(* the hands of the export goroutine, in the channel, taken by Shutdown    *)
(* and not yet sent, in the queue.  The hands and the channel hold one     *)
(* element at most.                                                        *)
Recs(batches) == IF batches = <<>> THEN <<>> ELSE Head(batches).records

TakenByShutdown ==
  IF \E s \in Shutdowns : pc[s] \in {"buffer", "send"} THEN held ELSE <<>>

Pipeline == exported \o Recs(data) \o Recs(input) \o TakenByShutdown \o queue

ShutdownTimedOut == timedOut \cap Shutdowns # {}

(* No record is exported twice, and those that were queued before Shutdown *)
(* was called are exported in the order they were queued, whichever of the *)
(* poll goroutine, ForceFlush and Shutdown moves them.                     *)
Rank(r) == CHOOSE i \in DOMAIN emitted : emitted[i] = r

Precedes(r, next) ==
  r # next /\ (r \notin late /\ next \notin late => Rank(r) < Rank(next))

InOrder ==
  LET p == Pipeline
  IN \A i, j \in DOMAIN p : i < j => Precedes(p[i], p[j])

(* A record leaves the pipeline only because the queue was full or because *)
(* the exporter failed on the payload it was part of, as long as Shutdown  *)
(* has the time it needs.                                                  *)
NothingVanishes ==
  ShutdownTimedOut \/
  ToSet(emitted) \ late \subseteq ToSet(Pipeline) \cup overwritten \cup abandoned

(* "This is sent to when it is known that the queue contains at least one  *)
(* complete batch" (batch.go, pollTrigger): while there is a batch in the  *)
(* queue, the poll goroutine is awake or will be woken, without the ticker.*)
NoLostWakeup ==
  ~stopped /\ HasBatch(Len(queue)) =>
    pollPc # "select" \/ trigger \/ \E r \in Records : pc[r] = "trigger"

(* "prevents sends on a closed chan" (exporter.go, enqueue): nobody waits  *)
(* to send when Shutdown closes the channel.                               *)
NoSendOnClosed == closed => \A c \in Waiters : pc[c] # "send"

(* A ForceFlush that returns nil without a concurrent Shutdown has handed  *)
(* over everything that was queued when it was called.                     *)
FlushIsComplete ==
  \A f \in Flushes :
    pc[f] = "done" /\ f \notin timedOut /\ ~stopped =>
      awaited[f] \subseteq ToSet(exported) \cup overwritten \cup abandoned

(* A Shutdown that had time stops the exporter after the last export, with *)
(* everything handed over that was queued before it was called.            *)
ShutdownDrains ==
  exporter # "up" /\ ~ShutdownTimedOut =>
    /\ exporting = <<>> /\ data = <<>> /\ input = <<>>
    /\ ToSet(emitted) \ late \subseteq
         ToSet(exported) \cup overwritten \cup abandoned

(* OnEmit, ForceFlush and Shutdown return, though they meet the poll       *)
(* goroutine, the export goroutine and each other at the queue's mutex, at *)
(* inputMu and at the channel.                                             *)
Pending == {c \in Calls : pc[c] \notin {"idle", "done", "ignored"}}

CallsReturn == Pending # {} ~> Pending = {}

(* A record that was queued is exported, overwritten or given up, unless   *)
(* Shutdown comes first.                                                   *)
EmittedIsExported ==
  emitted # <<>> ~>
    stopped \/ ToSet(emitted) \subseteq
                 ToSet(exported) \cup overwritten \cup abandoned
=============================================================================
