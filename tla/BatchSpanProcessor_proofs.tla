---------------------- MODULE BatchSpanProcessor_proofs ----------------------
(***************************************************************************)
(* Theorems about BatchSpanProcessor, for any number of spans and calls    *)
(* and any sizes.                                                          *)
(***************************************************************************)
EXTENDS BatchSpanProcessor, SequenceTheorems, TLAPS

(* Type correctness.  One step per action, in the order of the module. *)
LEMMA InitTypeOK == Init => TypeOK
<1> SUFFICES ASSUME Init PROVE TypeOK
  OBVIOUS
<1>1. /\ queue \in Seq(Spans \cup Flushers) /\ batch \in Seq(Spans)
      /\ Len(queue) <= MaxQueueSize
      /\ hand \in Seq(Spans) /\ accepted \in Seq(Spans)
      /\ exported \in Seq(Spans)
  BY SizesAssumption DEF Init
<1>2. /\ exportPc \in [Threads -> {"idle", "reset", "lock", "export", "return"}]
      /\ exportErr \in [Threads -> BOOLEAN]
  BY DEF Init
<1>3. /\ mutex \in Threads \cup {NoThread} /\ cancelled \in SUBSET Calls
      /\ flushed \in SUBSET Flushers
  BY DEF Init
<1>4. /\ armed \in BOOLEAN /\ tick \in BOOLEAN /\ stopped \in BOOLEAN
      /\ stopCh \in BOOLEAN /\ draining \in BOOLEAN
  BY DEF Init
<1>5. /\ dropped \in Nat /\ atStop \in Nat /\ atFlush \in [Flushers -> Nat]
  BY DEF Init
<1> QED BY <1>1, <1>2, <1>3, <1>4, <1>5 DEF Init, TypeOK

LEMMA NextTypeOK == TypeOK /\ [Next]_vars => TypeOK'
<1> SUFFICES ASSUME TypeOK, [Next]_vars PROVE TypeOK'
  OBVIOUS
<1> USE SizesAssumption
    DEF TypeOK, Threads, Calls, EmptiedBatch, ResetTimer, dataVars, coreVars,
        timerVars, stopVars, procVars, callVars, exportVars, history
<1>1. ASSUME NEW x \in Cancellable, Cancel(x) PROVE TypeOK'
  BY <1>1, CallsAssumption DEF Cancel
<1>2. CASE TimerFires
  <2>1. armed' \in BOOLEAN /\ tick' \in BOOLEAN
    BY <1>2 DEF TimerFires
  <2> QED BY <1>2, <2>1 DEF TimerFires
<1>3. ASSUME NEW s \in Spans, OnEndNext(s) PROVE TypeOK'
  <2>1. CASE OnEnd(s)       BY <2>1 DEF OnEnd
  <2>2. CASE EnqueueSpan(s) BY <2>2 DEF EnqueueSpan, HasRoom
  <2>3. CASE EnqueueDrop(s) BY <2>3 DEF EnqueueDrop
  <2> QED BY <1>3, <2>1, <2>2, <2>3 DEF OnEndNext
<1>4. ASSUME NEW t \in Threads, ExportNext(t) PROVE TypeOK'
  <2>1. CASE ExportResetTimer(t) BY <2>1 DEF ExportResetTimer
  <2>2. CASE ExportLock(t)
    <3>1. exportPc' \in [Threads -> {"idle", "reset", "lock", "export", "return"}]
      BY <2>2 DEF ExportLock
    <3>2. exportErr' \in [Threads -> BOOLEAN] /\ mutex' \in Threads \cup {NoThread}
      BY <2>2 DEF ExportLock
    <3> HIDE DEF Threads
    <3> QED BY <2>2, <3>1, <3>2 DEF ExportLock
  <2>3. CASE ExportReturns(t)    BY <2>3 DEF ExportReturns
  <2> QED BY <1>4, <2>1, <2>2, <2>3 DEF ExportNext
<1>5. ASSUME NEW f \in Flushers, FlushNext(f) PROVE TypeOK'
  <2>1. CASE ForceFlush(f)       BY <2>1 DEF ForceFlush
  <2>2. CASE EnqueueMarker(f)    BY <2>2 DEF EnqueueMarker, HasRoom
  <2>3. CASE MarkerAbandoned(f)  BY <2>3 DEF MarkerAbandoned, StartExport
  <2>4. CASE FlushSeen(f)        BY <2>4 DEF FlushSeen, StartExport
  <2>5. CASE FlushInterrupted(f)
    <3>1. \E r \in {"stopped", "ctxErr"} :
            flushPc' = [flushPc EXCEPT ![f] = r]
      BY <2>5 DEF FlushInterrupted
    <3> QED BY <2>5, <3>1 DEF FlushInterrupted
  <2>6. CASE FlushExported(f)    BY <2>6 DEF FlushExported
  <2>7. CASE FlushAbandoned(f)   BY <2>7 DEF FlushAbandoned
  <2> QED BY <1>5, <2>1, <2>2, <2>3, <2>4, <2>5, <2>6, <2>7 DEF FlushNext, FlushProceeds
<1>6. CASE ProcessorNext
  <2>1. CASE ProcessStop       BY <2>1 DEF ProcessStop
  <2>2. CASE ProcessTick       BY <2>2 DEF ProcessTick, StartExport
  <2>3. CASE ReceiveMarker     BY <2>3 DEF ReceiveMarker
  <2>4. CASE ReceiveSpan       BY <2>4 DEF ReceiveSpan
  <2>5. CASE AppendSpan        BY <2>5 DEF AppendSpan, StartExport
  <2>6. CASE StopTimer
    <3>1. armed' \in BOOLEAN /\ procPc' \in {"export", "drainTick"}
      BY <2>6 DEF StopTimer
    <3>2. exportPc' \in [Threads -> {"idle", "reset", "lock", "export", "return"}]
      BY <2>6 DEF StopTimer, StartExport
    <3> HIDE DEF Threads
    <3> QED BY <2>6, <3>1, <3>2 DEF StopTimer
  <2>7. CASE DrainTick         BY <2>7 DEF DrainTick, StartExport
  <2>8. CASE DrainFinal        BY <2>8 DEF DrainFinal, StartExport
  <2>9. CASE ProcessorExported BY <2>9 DEF ProcessorExported
  <2> QED
    BY <1>6, <2>1, <2>2, <2>3, <2>4, <2>5, <2>6, <2>7, <2>8, <2>9
    DEF ProcessorNext
<1>7. ASSUME NEW c \in Closers, ShutdownNext(c) PROVE TypeOK'
  <2>1. CASE ShutdownCall(c)   BY <2>1 DEF ShutdownCall
  <2>2. CASE ShutdownBegin(c)  BY <2>2 DEF ShutdownBegin
  <2>3. CASE ShutdownReturn(c)
    <3>1. \E r \in {"nil", "ctxErr"} : shutPc' = [shutPc EXCEPT ![c] = r]
      BY <2>3 DEF ShutdownReturn
    <3> QED BY <2>3, <3>1 DEF ShutdownReturn
  <2>4. CASE ShutdownAgain(c)  BY <2>4 DEF ShutdownAgain
  <2> QED BY <1>7, <2>1, <2>2, <2>3, <2>4 DEF ShutdownNext
<1>8. CASE StopperNext
  <2>1. CASE StopperClose
    BY <2>1 DEF StopperClose, StopperStep
  <2>2. CASE ExporterShutdown
    BY <2>2 DEF ExporterShutdown, StopperStep
  <2>3. CASE ExporterShutdownReturns
    BY <2>3 DEF ExporterShutdownReturns, StopperStep
  <2> QED BY <1>8, <2>1, <2>2, <2>3 DEF StopperNext
<1>9. CASE UNCHANGED vars
  BY <1>9 DEF vars
<1> QED
  BY <1>1, <1>2, <1>3, <1>4, <1>5, <1>6, <1>7, <1>8, <1>9 DEF Next

(* Every reachable state has the types TypeOK gives the variables of the   *)
(* batch span processor.                                                   *)
THEOREM TypeCorrect == Spec => []TypeOK
BY InitTypeOK, NextTypeOK, PTL DEF Spec

-----------------------------------------------------------------------------
(* What makes the safety properties inductive. *)

(* The batch is locked exactly while its owner is in ExportSpans, and is   *)
(* then not empty.                                                         *)
MutexInv ==
  \A t \in Threads :
    /\ exportPc[t] = "export" <=> mutex = t
    /\ exportPc[t] = "export" => batch # <<>>

(* The processor goroutine's place in exportSpans and in its loop agree;   *)
(* once its final export is over the batch is empty and stays so, for      *)
(* nobody appends any more.                                                *)
ProcessorInv ==
  /\ exportPc[Processor] # "idle" <=> procPc \in {"export", "final"}
  /\ procPc = "final" /\ exportPc[Processor] = "return" => batch = <<>>
  /\ procPc = "exited" => batch = <<>>

(* The stopper exists once Shutdown has run, and stops the exporter after  *)
(* the processor goroutine.                                                *)
StopInv ==
  /\ once = "fresh" => stopperPc = "none"
  /\ stopperPc \in {"exporter", "finished"} => procPc = "exited"

(* The batch is full only between the append that fills it and the export  *)
(* that append asks for.                                                   *)
BatchInv ==
  /\ BatchBounded
  /\ Len(batch) = MaxExportBatchSize =>
       \/ procPc \in {"stopTimer", "drainTick"}
       \/ procPc = "export" /\ exportPc[Processor] \in {"reset", "lock", "export"}
  /\ procPc = "append" => Len(hand) = 1

(* Until it is drained the timer runs, or has fired, or is about to be set.*)
TimerInv ==
  /\ TimerHasTicked
  /\ procPc \in {"stopTimer", "drainTick"} => ~draining
  /\ ~draining /\ exportPc[Processor] # "reset" => armed \/ tick

(* A ForceFlush has no goroutine before it reaches its export. *)
FlushInv ==
  \A f \in Flushers :
    flushPc[f] \in {"idle", "enqueue", "await"} => exportPc[f] = "idle"

SafetyInv == MutexInv /\ FlushInv /\ StopInv /\ ProcessorInv /\ BatchInv /\ TimerInv

LEMMA InitSafetyInv == Init => SafetyInv
BY NamesAssumption, SizesAssumption
   DEF Init, SafetyInv, MutexInv, FlushInv, StopInv, ProcessorInv, BatchInv, BatchBounded,
       TimerInv, TimerHasTicked, Threads

LEMMA NextSafetyInv == TypeOK /\ SafetyInv /\ [Next]_vars => SafetyInv'
<1> SUFFICES ASSUME TypeOK, SafetyInv, [Next]_vars PROVE SafetyInv'
  OBVIOUS
<1> USE NamesAssumption, SizesAssumption
    DEF TypeOK, SafetyInv, MutexInv, FlushInv, StopInv, ProcessorInv, BatchInv,
        BatchBounded, TimerInv, TimerHasTicked, Threads, EmptiedBatch,
        Unlocked, ResetTimer, dataVars, coreVars, timerVars, stopVars,
        procVars, callVars, exportVars, history
<1>1. ASSUME NEW x \in Cancellable, Cancel(x) PROVE SafetyInv'
  BY <1>1 DEF Cancel
<1>2. CASE TimerFires
  BY <1>2 DEF TimerFires
<1>3. ASSUME NEW s \in Spans, OnEndNext(s) PROVE SafetyInv'
  <2>1. CASE OnEnd(s)       BY <2>1 DEF OnEnd
  <2>2. CASE EnqueueSpan(s) BY <2>2 DEF EnqueueSpan
  <2>3. CASE EnqueueDrop(s) BY <2>3 DEF EnqueueDrop
  <2> QED BY <1>3, <2>1, <2>2, <2>3 DEF OnEndNext
<1>4. ASSUME NEW t \in Threads, ExportNext(t) PROVE SafetyInv'
  <2>1. CASE ExportResetTimer(t) BY <2>1 DEF ExportResetTimer
  <2>2. CASE ExportLock(t)       BY <2>2 DEF ExportLock
  <2>3. CASE ExportReturns(t)    BY <2>3 DEF ExportReturns
  <2> QED BY <1>4, <2>1, <2>2, <2>3 DEF ExportNext
<1>5. ASSUME NEW f \in Flushers, FlushNext(f) PROVE SafetyInv'
  <2>1. CASE ForceFlush(f)       BY <2>1 DEF ForceFlush
  <2>2. CASE EnqueueMarker(f)    BY <2>2 DEF EnqueueMarker
  <2>3. CASE MarkerAbandoned(f)  BY <2>3 DEF MarkerAbandoned, StartExport
  <2>4. CASE FlushSeen(f)        BY <2>4 DEF FlushSeen, StartExport
  <2>5. CASE FlushInterrupted(f) BY <2>5 DEF FlushInterrupted
  <2>6. CASE FlushExported(f)    BY <2>6 DEF FlushExported
  <2>7. CASE FlushAbandoned(f)   BY <2>7 DEF FlushAbandoned
  <2> QED BY <1>5, <2>1, <2>2, <2>3, <2>4, <2>5, <2>6, <2>7 DEF FlushNext, FlushProceeds
<1>6. CASE ProcessorNext
  <2>1. CASE ProcessStop       BY <2>1 DEF ProcessStop
  <2>2. CASE ProcessTick       BY <2>2 DEF ProcessTick, StartExport
  <2>3. CASE ReceiveMarker     BY <2>3 DEF ReceiveMarker
  <2>4. CASE ReceiveSpan       BY <2>4 DEF ReceiveSpan
  <2>5. CASE AppendSpan
    <3>1. Len(batch) < MaxExportBatchSize /\ Len(batch) \in Nat
      BY <2>5 DEF AppendSpan
    <3>2. Len(batch') = Len(batch) + 1
      <4>1. batch' = batch \o hand /\ Len(hand) = 1
        BY <2>5 DEF AppendSpan
      <4>2. batch \in Seq(Spans) /\ hand \in Seq(Spans)
        OBVIOUS
      <4>3. Len(batch \o hand) = Len(batch) + Len(hand)
        BY ONLY <4>2, ConcatProperties
      <4> QED BY <4>1, <4>3
    <3>3. mutex' = NoThread /\ mutex = NoThread /\ batch' # <<>>
      BY <2>5, <3>1, <3>2 DEF AppendSpan
    <3>4. CASE Len(batch') < MaxExportBatchSize
      <4>1. procPc' = "receive" /\ exportPc' = exportPc
        BY <2>5, <3>1, <3>2, <3>4 DEF AppendSpan, ShouldExport
      <4> QED BY <2>5, <3>1, <3>2, <3>3, <3>4, <4>1 DEF AppendSpan
    <3>5. CASE Len(batch') = MaxExportBatchSize
      <4>1. IF draining THEN procPc' = "export" /\ StartExport(Processor)
                        ELSE procPc' = "stopTimer" /\ exportPc' = exportPc
        BY <2>5, <3>1, <3>2, <3>5 DEF AppendSpan, ShouldExport
      <4>2. CASE draining
        BY <2>5, <3>1, <3>2, <3>3, <3>5, <4>1, <4>2 DEF AppendSpan, StartExport
      <4>3. CASE ~draining
        BY <2>5, <3>1, <3>2, <3>3, <3>5, <4>1, <4>3 DEF AppendSpan
      <4> QED BY <4>2, <4>3
    <3> QED BY <3>1, <3>2, <3>4, <3>5
  <2>6. CASE StopTimer         BY <2>6 DEF StopTimer, StartExport
  <2>7. CASE DrainTick         BY <2>7 DEF DrainTick, StartExport
  <2>8. CASE DrainFinal        BY <2>8 DEF DrainFinal, StartExport
  <2>9. CASE ProcessorExported BY <2>9 DEF ProcessorExported
  <2> QED
    BY <1>6, <2>1, <2>2, <2>3, <2>4, <2>5, <2>6, <2>7, <2>8, <2>9
    DEF ProcessorNext
<1>7. ASSUME NEW c \in Closers, ShutdownNext(c) PROVE SafetyInv'
  <2>1. CASE ShutdownCall(c)   BY <2>1 DEF ShutdownCall
  <2>2. CASE ShutdownBegin(c)  BY <2>2 DEF ShutdownBegin
  <2>3. CASE ShutdownReturn(c) BY <2>3 DEF ShutdownReturn
  <2>4. CASE ShutdownAgain(c)  BY <2>4 DEF ShutdownAgain
  <2> QED BY <1>7, <2>1, <2>2, <2>3, <2>4 DEF ShutdownNext
<1>8. CASE StopperNext
  <2>1. CASE StopperClose
    BY <2>1 DEF StopperClose, StopperStep
  <2>2. CASE ExporterShutdown
    BY <2>2 DEF ExporterShutdown, StopperStep
  <2>3. CASE ExporterShutdownReturns
    BY <2>3 DEF ExporterShutdownReturns, StopperStep
  <2> QED BY <1>8, <2>1, <2>2, <2>3 DEF StopperNext
<1>9. CASE UNCHANGED vars
  BY <1>9 DEF vars
<1> QED
  BY <1>1, <1>2, <1>3, <1>4, <1>5, <1>6, <1>7, <1>8, <1>9 DEF Next

LEMMA SafetyInvariant == Spec => []SafetyInv
<1>1. TypeOK /\ SafetyInv /\ [Next]_vars => SafetyInv'
  BY NextSafetyInv
<1> QED BY InitSafetyInv, TypeCorrect, <1>1, PTL DEF Spec

(* No two ExportSpans calls overlap and none overlaps or follows the       *)
(* exporter's Shutdown, however many ForceFlush goroutines there are: an   *)
(* exporter needs no locking of its own, as its interface promises.        *)
THEOREM ExporterContractHolds == Spec => []ExporterContract
<1>1. TypeOK /\ SafetyInv => ExporterContract
  BY NamesAssumption
  DEF TypeOK, SafetyInv, MutexInv, ProcessorInv, StopInv, ExporterContract, Threads
<1> QED BY <1>1, TypeCorrect, SafetyInvariant, PTL

(* The exporter is never passed more than MaxExportBatchSize spans.        *)
THEOREM BatchIsBounded == Spec => []BatchBounded
<1>1. SafetyInv => BatchBounded
  BY DEF SafetyInv, BatchInv
<1> QED BY <1>1, SafetyInvariant, PTL

(* The processor goroutine never waits in vain for the value of a timer.   *)
THEOREM TimerNeverBlocks == Spec => []TimerHasTicked
<1>1. SafetyInv => TimerHasTicked
  BY DEF SafetyInv, TimerInv
<1> QED BY <1>1, SafetyInvariant, PTL

-----------------------------------------------------------------------------
(* Order.  Accepting, marking and taking keep it.                          *)

LEMMA InOrderAccept ==
  ASSUME NEW T, NEW n, NEW q \in Seq(T), NEW acc \in Seq(Spans),
         InOrder(n, q, acc), NEW s \in Spans, s \in T,
         \A i \in 1..Len(acc) : acc[i] # s
  PROVE  InOrder(n, Append(q, s), Append(acc, s))
<1> DEFINE r == Append(q, s)
           a == Append(acc, s)
<1>1. /\ Len(r) = Len(q) + 1 /\ Len(a) = Len(acc) + 1
      /\ Len(q) \in Nat /\ Len(acc) \in Nat /\ n \in Nat
      /\ \A i \in 1..Len(q) : r[i] = q[i]
      /\ \A k \in 1..Len(acc) : a[k] = acc[k]
      /\ r[Len(q) + 1] = s /\ a[Len(acc) + 1] = s
  BY DEF InOrder
<1> HIDE DEF r, a
<1>0. n \in 0..Len(acc)
  BY DEF InOrder
<1>2. ASSUME NEW k \in n + 1..Len(a) PROVE \E i \in 1..Len(r) : r[i] = a[k]
  <2>1. CASE k <= Len(acc)
    <3>1. PICK i \in 1..Len(q) : q[i] = acc[k]
      BY <1>0, <1>1, <2>1 DEF InOrder
    <3> QED BY <1>1, <2>1, <3>1
  <2>2. CASE k = Len(acc) + 1
    BY <1>1, <2>2
  <2> QED BY <1>1, <2>1, <2>2
<1>3. ASSUME NEW i \in 1..Len(r), r[i] \in Spans
      PROVE  \E k \in n + 1..Len(a) : r[i] = a[k]
  <2>1. CASE i <= Len(q)
    <3>1. PICK k \in n + 1..Len(acc) : q[i] = acc[k]
      BY <1>1, <1>3, <2>1 DEF InOrder
    <3> QED BY <1>1, <2>1, <3>1
  <2>2. CASE i = Len(q) + 1
    BY <1>0, <1>1, <2>2
  <2> QED BY <1>1, <2>1, <2>2
<1>4. ASSUME NEW i \in 1..Len(r), NEW j \in 1..Len(r),
             NEW k \in 1..Len(a), NEW l \in 1..Len(a),
             i < j, r[i] = a[k], r[j] = a[l]
      PROVE  k < l
  <2>0. i \in 1..Len(q) /\ r[i] = q[i]
    BY <1>1, <1>4
  <2>1. k \in 1..Len(acc)
    <3> SUFFICES ASSUME k = Len(acc) + 1 PROVE FALSE
      BY <1>1
    <3>1. q[i] = s /\ q[i] \in Spans
      BY <1>1, <1>4, <2>0
    <3>2. PICK m \in n + 1..Len(acc) : q[i] = acc[m]
      BY <2>0, <3>1 DEF InOrder
    <3>3. m \in 1..Len(acc)
      BY <1>0, <1>1
    <3> QED BY <3>1, <3>2, <3>3
  <2>2. CASE l = Len(acc) + 1
    BY <1>1, <2>1, <2>2
  <2>3. CASE l \in 1..Len(acc)
    <3>1. a[l] = acc[l] /\ a[k] = acc[k]
      BY <1>1, <2>1, <2>3
    <3>2. j # Len(q) + 1
      BY <1>1, <1>4, <2>3, <3>1
    <3>3. j \in 1..Len(q) /\ r[j] = q[j]
      BY <1>1, <3>2
    <3>4. Increasing(q, acc)
      BY DEF InOrder
    <3>5. q[i] = acc[k] /\ q[j] = acc[l]
      BY <1>4, <2>0, <3>1, <3>3
    <3> QED BY <1>4, <2>0, <2>1, <2>3, <3>3, <3>4, <3>5 DEF Increasing
  <2> QED BY <1>1, <2>2, <2>3
<1>5. n \in 0..Len(a)
  BY <1>0, <1>1
<1>6. InOrder(n, r, a)
  <2>1. Increasing(r, a)
    BY <1>4 DEF Increasing
  <2> QED BY <1>2, <1>3, <1>5, <2>1 DEF InOrder
<1> QED BY <1>6 DEF r, a

LEMMA InOrderMark ==
  ASSUME NEW T, NEW n, NEW q \in Seq(T), NEW acc \in Seq(Spans),
         InOrder(n, q, acc), NEW m \in T, m \notin Spans
  PROVE  InOrder(n, Append(q, m), acc)
<1> DEFINE r == Append(q, m)
<1>1. /\ Len(r) = Len(q) + 1 /\ Len(q) \in Nat /\ Len(acc) \in Nat
      /\ \A i \in 1..Len(q) : r[i] = q[i]
      /\ r[Len(q) + 1] = m
      /\ \A k \in 1..Len(acc) : acc[k] \in Spans
  OBVIOUS
<1> HIDE DEF r
<1> QED BY <1>1 DEF InOrder, Increasing, r

LEMMA InOrderUnmark ==
  ASSUME NEW T, NEW n, NEW q \in Seq(T), NEW acc \in Seq(Spans),
         InOrder(n, q, acc), q # <<>>, Head(q) \notin Spans
  PROVE  InOrder(n, Tail(q), acc)
<1> DEFINE r == Tail(q)
<1>1. /\ Len(r) = Len(q) - 1 /\ Len(q) \in Nat /\ Len(acc) \in Nat
      /\ Len(q) >= 1
      /\ \A i \in 1..Len(r) : r[i] = q[i + 1]
      /\ q[1] \notin Spans
      /\ \A k \in 1..Len(acc) : acc[k] \in Spans
      /\ n \in 0..Len(acc)
  BY DEF InOrder
<1> HIDE DEF r
<1>2. ASSUME NEW k \in n + 1..Len(acc) PROVE \E i \in 1..Len(r) : r[i] = acc[k]
  <2>1. PICK i \in 1..Len(q) : q[i] = acc[k]
    BY DEF InOrder
  <2>2. i - 1 \in 1..Len(r) /\ r[i - 1] = q[i]
    BY <1>1, <2>1
  <2> QED BY <2>1, <2>2
<1>3. ASSUME NEW i \in 1..Len(r), r[i] \in Spans
      PROVE  \E k \in n + 1..Len(acc) : r[i] = acc[k]
  <2>1. i + 1 \in 1..Len(q) /\ r[i] = q[i + 1]
    BY <1>1
  <2> QED BY <1>3, <2>1 DEF InOrder
<1>4. ASSUME NEW i \in 1..Len(r), NEW j \in 1..Len(r),
             NEW k \in 1..Len(acc), NEW l \in 1..Len(acc),
             i < j, r[i] = acc[k], r[j] = acc[l]
      PROVE  k < l
  <2>1. i + 1 \in 1..Len(q) /\ r[i] = q[i + 1]
    BY <1>1
  <2>2. j + 1 \in 1..Len(q) /\ r[j] = q[j + 1]
    BY <1>1
  <2>3. i + 1 < j + 1
    BY <1>4
  <2>4. ASSUME NEW x \in 1..Len(q), NEW y \in 1..Len(q), x < y,
               q[x] = acc[k], q[y] = acc[l]
        PROVE  k < l
    BY <2>4 DEF InOrder, Increasing
  <2> QED BY <1>4, <2>1, <2>2, <2>3, <2>4
<1>5. Increasing(r, acc)
  BY <1>4 DEF Increasing
<1>6. InOrder(n, r, acc)
  BY <1>1, <1>2, <1>3, <1>5 DEF InOrder
<1> QED BY <1>6 DEF r

LEMMA InOrderTake ==
  ASSUME NEW T, NEW n, NEW q \in Seq(T), NEW acc \in Seq(Spans),
         InOrder(n, q, acc), Distinct(acc), q # <<>>, Head(q) \in Spans
  PROVE  /\ n < Len(acc)
         /\ Head(q) = acc[n + 1]
         /\ InOrder(n + 1, Tail(q), acc)
<1> DEFINE r == Tail(q)
<1>1. /\ Len(r) = Len(q) - 1 /\ Len(q) \in Nat /\ Len(acc) \in Nat
      /\ Len(q) >= 1
      /\ \A i \in 1..Len(r) : r[i] = q[i + 1]
      /\ Head(q) = q[1]
      /\ n \in 0..Len(acc)
  BY DEF InOrder
<1> HIDE DEF r
<1>2. PICK k \in n + 1..Len(acc) : q[1] = acc[k]
  BY <1>1 DEF InOrder
<1>3. k = n + 1
  <2> SUFFICES ASSUME k > n + 1 PROVE FALSE
    BY <1>1, <1>2
  <2>1. PICK i \in 1..Len(q) : q[i] = acc[n + 1]
    BY <1>1, <1>2 DEF InOrder
  <2>2. i # 1
    BY <1>1, <1>2, <2>1 DEF Distinct
  <2>3. 1 < i /\ 1 \in 1..Len(q) /\ k \in 1..Len(acc) /\ n + 1 \in 1..Len(acc)
    BY <1>1, <1>2, <2>1, <2>2
  <2>4. k < n + 1
    BY <1>2, <2>1, <2>3 DEF InOrder, Increasing
  <2> QED BY <1>1, <1>2, <2>4
<1>4. ASSUME NEW l \in n + 2..Len(acc) PROVE \E i \in 1..Len(r) : r[i] = acc[l]
  <2>1. PICK i \in 1..Len(q) : q[i] = acc[l]
    BY <1>1 DEF InOrder
  <2>2. i # 1
    BY <1>1, <1>2, <1>3, <2>1 DEF Distinct
  <2>3. i - 1 \in 1..Len(r) /\ r[i - 1] = q[i]
    BY <1>1, <2>1, <2>2
  <2> QED BY <2>1, <2>3
<1>5. ASSUME NEW i \in 1..Len(r), r[i] \in Spans
      PROVE  \E l \in n + 2..Len(acc) : r[i] = acc[l]
  <2>1. i + 1 \in 1..Len(q) /\ r[i] = q[i + 1] /\ 1 \in 1..Len(q) /\ 1 < i + 1
    BY <1>1
  <2>2. PICK l \in n + 1..Len(acc) : q[i + 1] = acc[l]
    BY <1>5, <2>1 DEF InOrder
  <2>3. l \in 1..Len(acc) /\ k \in 1..Len(acc)
    BY <1>1, <1>2
  <2>4. k < l
    <3>1. ASSUME NEW x \in 1..Len(q), NEW y \in 1..Len(q), x < y,
                 q[x] = acc[k], q[y] = acc[l]
          PROVE  k < l
      BY <2>3, <3>1 DEF InOrder, Increasing
    <3> QED BY <1>2, <2>1, <2>2, <3>1
  <2> QED BY <1>1, <1>3, <2>1, <2>2, <2>3, <2>4
<1>6. ASSUME NEW i \in 1..Len(r), NEW j \in 1..Len(r),
             NEW c \in 1..Len(acc), NEW l \in 1..Len(acc),
             i < j, r[i] = acc[c], r[j] = acc[l]
      PROVE  c < l
  <2>1. i + 1 \in 1..Len(q) /\ r[i] = q[i + 1]
    BY <1>1
  <2>2. j + 1 \in 1..Len(q) /\ r[j] = q[j + 1]
    BY <1>1
  <2>3. i + 1 < j + 1
    BY <1>6
  <2>4. ASSUME NEW x \in 1..Len(q), NEW y \in 1..Len(q), x < y,
               q[x] = acc[c], q[y] = acc[l]
        PROVE  c < l
    BY <2>4 DEF InOrder, Increasing
  <2> QED BY <1>6, <2>1, <2>2, <2>3, <2>4
<1>7. n < Len(acc) /\ n + 1 \in 0..Len(acc) /\ (n + 1) + 1 = n + 2
  BY <1>1, <1>2
<1>8. InOrder(n + 1, r, acc)
  <2>1. Increasing(r, acc)
    BY <1>6 DEF Increasing
  <2> QED BY <1>4, <1>5, <1>7, <2>1 DEF InOrder
<1> QED BY <1>1, <1>2, <1>3, <1>7, <1>8 DEF r

OrderInv ==
  /\ InOrder(Len(Taken), queue, accepted)
  /\ \A i \in 1..Len(Taken) : Taken[i] = accepted[i]
  /\ Distinct(accepted)
  /\ \A i \in 1..Len(accepted) : endPc[accepted[i]] = "queued"
  /\ procPc # "append" => hand = <<>>

LEMMA TakenType == TypeOK => Taken \in Seq(Spans)
BY ConcatProperties DEF TypeOK, Taken

LEMMA InitOrderInv == Init => OrderInv
<1> SUFFICES ASSUME Init PROVE OrderInv
  OBVIOUS
<1>1. Taken = <<>> /\ queue = <<>> /\ accepted = <<>> /\ hand = <<>>
  BY DEF Init, Taken
<1> QED BY <1>1 DEF OrderInv, InOrder, Increasing, Distinct

(* Steps that leave the queue alone and only move taken spans, if any. *)
LEMMA OrderInvKept ==
  ASSUME OrderInv, TypeOK, UNCHANGED <<queue, accepted>>, Taken' = Taken,
         \A s \in Spans : endPc[s] = "queued" => endPc'[s] = "queued",
         procPc' # "append" => hand' = <<>>
  PROVE  OrderInv'
<1>1. \A i \in 1..Len(accepted) : accepted[i] \in Spans
  BY DEF TypeOK
<1>2. InOrder(Len(Taken'), queue', accepted')
  BY DEF OrderInv
<1>3. Distinct(accepted') /\ \A i \in 1..Len(Taken') : Taken'[i] = accepted'[i]
  BY DEF OrderInv
<1>4. \A i \in 1..Len(accepted') : endPc'[accepted'[i]] = "queued"
  BY <1>1 DEF OrderInv
<1> QED BY <1>2, <1>3, <1>4 DEF OrderInv

(* Steps that touch neither the queue nor the spans. *)
LEMMA OrderInvStutter ==
  ASSUME OrderInv, UNCHANGED <<queue, accepted, exported, batch, hand>>,
         \A s \in Spans : endPc[s] = "queued" => endPc'[s] = "queued",
         TypeOK, procPc = "append" => procPc' = "append"
  PROVE  OrderInv'
<1>1. Taken' = Taken
  BY DEF Taken
<1>2. procPc' # "append" => hand' = <<>>
  BY DEF OrderInv
<1> QED BY <1>1, <1>2, OrderInvKept

(* Exporting the batch and batching the span in hand move taken spans. *)
LEMMA ExportKeepsTaken ==
  ASSUME TypeOK, NEW t \in Threads, ExportReturns(t)
  PROVE  Taken' = Taken
<1>1. exported' = exported \o batch /\ batch' = <<>> /\ hand' = hand
  BY DEF ExportReturns, EmptiedBatch, coreVars, procVars
<1>2. exported \o batch \in Seq(Spans)
  BY ConcatProperties DEF TypeOK
<1> QED BY <1>1, <1>2, ConcatEmptySeq DEF Taken

LEMMA AppendKeepsTaken ==
  ASSUME TypeOK, AppendSpan
  PROVE  Taken' = Taken
<1>1. batch' = batch \o hand /\ hand' = <<>> /\ exported' = exported
  BY DEF AppendSpan, history
<1>2. /\ exported \in Seq(Spans) /\ batch \in Seq(Spans)
      /\ hand \in Seq(Spans) /\ batch \o hand \in Seq(Spans)
  BY ConcatProperties DEF TypeOK
<1>3. Taken' = exported \o (batch \o hand)
  <2>1. exported \o (batch \o hand) \in Seq(Spans)
    BY <1>2, ConcatProperties
  <2> QED BY <1>1, <2>1, ConcatEmptySeq DEF Taken
<1>4. (exported \o batch) \o hand = exported \o (batch \o hand)
  BY <1>2, ConcatAssociative
<1> QED BY ONLY <1>3, <1>4 DEF Taken

LEMMA NextOrderInv == TypeOK /\ SafetyInv /\ OrderInv /\ [Next]_vars => OrderInv'
<1> SUFFICES ASSUME TypeOK, SafetyInv, OrderInv, [Next]_vars PROVE OrderInv'
  OBVIOUS
<1> USE DEF dataVars, coreVars, timerVars, stopVars, procVars, callVars,
            exportVars, history
<1>t. Taken \in Seq(Spans)
  BY TakenType
<1>1. ASSUME NEW x \in Cancellable, Cancel(x) PROVE OrderInv'
  BY <1>1, OrderInvStutter DEF Cancel
<1>2. CASE TimerFires
  BY <1>2, OrderInvStutter DEF TimerFires
<1>3. ASSUME NEW s \in Spans, OnEndNext(s) PROVE OrderInv'
  <2>1. CASE OnEnd(s)
    BY <2>1, OrderInvStutter DEF OnEnd, TypeOK
  <2>2. CASE EnqueueSpan(s)
    <3>1. /\ queue' = Append(queue, s) /\ accepted' = Append(accepted, s)
          /\ Taken' = Taken /\ endPc' = [endPc EXCEPT ![s] = "queued"]
          /\ endPc[s] = "enqueue" /\ hand' = hand /\ procPc' = procPc
      BY <2>2 DEF EnqueueSpan, Taken
    <3>2. /\ queue \in Seq(Spans \cup Flushers) /\ accepted \in Seq(Spans)
          /\ endPc \in [Spans -> {"idle", "enqueue", "queued", "dropped", "ignored"}]
      BY DEF TypeOK
    <3>3. \A i \in 1..Len(accepted) : accepted[i] # s
      BY <3>1 DEF OrderInv
    <3>4. InOrder(Len(Taken), Append(queue, s), Append(accepted, s))
      <4>1. s \in Spans \cup Flushers /\ InOrder(Len(Taken), queue, accepted)
        BY DEF OrderInv
      <4> QED BY ONLY <3>2, <3>3, <4>1, InOrderAccept
    <3>5. /\ Len(accepted') = Len(accepted) + 1 /\ Len(accepted) \in Nat
          /\ \A i \in 1..Len(accepted) : accepted'[i] = accepted[i]
          /\ accepted'[Len(accepted) + 1] = s
          /\ \A i \in 1..Len(accepted) : accepted[i] \in Spans
      BY <3>1, <3>2
    <3>6. Distinct(accepted')
      BY <3>3, <3>5 DEF OrderInv, Distinct
    <3>7. \A i \in 1..Len(accepted') : endPc'[accepted'[i]] = "queued"
      BY <3>1, <3>2, <3>5 DEF OrderInv
    <3>8. \A i \in 1..Len(Taken') : Taken'[i] = accepted'[i]
      <4>1. Len(Taken) \in 0..Len(accepted)
        BY DEF OrderInv, InOrder
      <4> QED BY <3>1, <3>5, <4>1 DEF OrderInv
    <3> QED BY <3>1, <3>4, <3>6, <3>7, <3>8 DEF OrderInv
  <2>3. CASE EnqueueDrop(s)
    BY <2>3, OrderInvStutter DEF EnqueueDrop, TypeOK
  <2> QED BY <1>3, <2>1, <2>2, <2>3 DEF OnEndNext
<1>4. ASSUME NEW t \in Threads, ExportNext(t) PROVE OrderInv'
  <2>1. CASE ExportResetTimer(t)
    BY <2>1, OrderInvStutter DEF ExportResetTimer
  <2>2. CASE ExportLock(t)
    BY <2>2, OrderInvStutter DEF ExportLock
  <2>3. CASE ExportReturns(t)
    <3>1. hand' = hand /\ UNCHANGED <<queue, accepted, endPc, procPc>>
      BY <2>3 DEF ExportReturns
    <3>2. procPc' # "append" => hand' = <<>>
      BY <3>1 DEF OrderInv
    <3> QED BY <2>3, <3>1, <3>2, ExportKeepsTaken, OrderInvKept
  <2> QED BY <1>4, <2>1, <2>2, <2>3 DEF ExportNext
<1>5. ASSUME NEW f \in Flushers, FlushNext(f) PROVE OrderInv'
  <2>1. CASE EnqueueMarker(f)
    <3>1. /\ queue' = Append(queue, f) /\ Taken' = Taken
          /\ UNCHANGED <<accepted, endPc, hand, procPc>>
      BY <2>1 DEF EnqueueMarker, Taken
    <3>2. /\ queue \in Seq(Spans \cup Flushers) /\ accepted \in Seq(Spans)
          /\ f \in Spans \cup Flushers /\ f \notin Spans
      BY NamesAssumption DEF TypeOK
    <3>3. InOrder(Len(Taken), Append(queue, f), accepted)
      BY <3>2, InOrderMark DEF OrderInv
    <3> QED BY <3>1, <3>3 DEF OrderInv, Distinct
  <2>2. CASE ~EnqueueMarker(f)
    BY <1>5, <2>2, OrderInvStutter
    DEF FlushNext, FlushProceeds, ForceFlush, MarkerAbandoned, FlushSeen, FlushInterrupted,
        FlushExported, FlushAbandoned
  <2> QED BY <2>1, <2>2
<1>6. CASE ProcessorNext
  <2>1. CASE ReceiveMarker
    <3>1. /\ queue' = Tail(queue) /\ Taken' = Taken
          /\ queue # <<>> /\ Head(queue) \in Flushers
          /\ UNCHANGED <<accepted, endPc, hand, procPc>>
      BY <2>1 DEF ReceiveMarker, Taken
    <3>2. /\ queue \in Seq(Spans \cup Flushers) /\ accepted \in Seq(Spans)
          /\ Head(queue) \notin Spans
      BY <3>1, NamesAssumption DEF TypeOK
    <3>3. InOrder(Len(Taken), Tail(queue), accepted)
      BY <3>1, <3>2, InOrderUnmark DEF OrderInv
    <3> QED BY <3>1, <3>3 DEF OrderInv, Distinct
  <2>2. CASE ReceiveSpan
    <3>1. /\ queue' = Tail(queue) /\ hand' = <<Head(queue)>> /\ hand = <<>>
          /\ queue # <<>> /\ Head(queue) \in Spans /\ procPc' = "append"
          /\ UNCHANGED <<accepted, endPc, exported, batch>>
      BY <2>2 DEF ReceiveSpan, OrderInv
    <3>2. /\ queue \in Seq(Spans \cup Flushers) /\ accepted \in Seq(Spans)
          /\ exported \o batch \in Seq(Spans)
      BY ConcatProperties DEF TypeOK
    <3>3. /\ Len(Taken) < Len(accepted)
          /\ Head(queue) = accepted[Len(Taken) + 1]
          /\ InOrder(Len(Taken) + 1, Tail(queue), accepted)
      BY <3>1, <3>2, InOrderTake DEF OrderInv
    <3>4. Taken = exported \o batch
      BY <3>1, <3>2, ConcatEmptySeq DEF Taken
    <3>5. Taken' = Append(Taken, Head(queue))
      BY <1>t, <3>1, <3>2, <3>4 DEF Taken
    <3>6. Len(Taken') = Len(Taken) + 1
      BY <1>t, <3>5
    <3>7. \A i \in 1..Len(Taken') : Taken'[i] = accepted'[i]
      BY <1>t, <3>1, <3>3, <3>5, <3>6 DEF OrderInv
    <3> QED BY <3>1, <3>3, <3>6, <3>7 DEF OrderInv, Distinct
  <2>3. CASE AppendSpan
    <3>1. hand' = <<>> /\ UNCHANGED <<queue, accepted, endPc>>
      BY <2>3 DEF AppendSpan
    <3> QED BY <2>3, <3>1, AppendKeepsTaken, OrderInvKept
  <2>4. CASE ~(ReceiveMarker \/ ReceiveSpan \/ AppendSpan)
    BY <1>6, <2>4, OrderInvStutter
    DEF ProcessorNext, ProcessStop, ProcessTick, StopTimer, DrainTick,
        DrainFinal, ProcessorExported
  <2> QED BY <2>1, <2>2, <2>3, <2>4
<1>7. ASSUME NEW c \in Closers, ShutdownNext(c) PROVE OrderInv'
  BY <1>7, OrderInvStutter DEF ShutdownNext, ShutdownCall, ShutdownBegin,
     ShutdownReturn, ShutdownAgain
<1>8. CASE StopperNext
  BY <1>8, OrderInvStutter DEF StopperNext, StopperClose, ExporterShutdown,
     ExporterShutdownReturns, StopperStep
<1>9. CASE UNCHANGED vars
  BY <1>9, OrderInvStutter DEF vars
<1> QED
  BY <1>1, <1>2, <1>3, <1>4, <1>5, <1>6, <1>7, <1>8, <1>9 DEF Next

LEMMA OrderInvariant == Spec => []OrderInv
<1>1. TypeOK /\ SafetyInv /\ OrderInv /\ [Next]_vars => OrderInv'
  BY NextOrderInv
<1> QED BY InitOrderInv, TypeCorrect, SafetyInvariant, <1>1, PTL DEF Spec

(* Every accepted span is exported, in the batch, in the hand of the       *)
(* processor goroutine or in the queue, once and in order, whichever       *)
(* goroutine exports (batch_span_processor.go, processQueue, exportSpans). *)
THEOREM NothingLostOrReordered == Spec => []FIFO
<1>1. OrderInv => FIFO
  BY DEF OrderInv, FIFO
<1> QED BY OrderInvariant, <1>1, PTL

-----------------------------------------------------------------------------
(* Shutdown.  atStop was set before the processor goroutine began to drain *)
(* the queue, and when that goroutine found the queue empty everything     *)
(* accepted until then was in the batch or exported.                       *)

StopOrderInv ==
  /\ stopperPc \in {"none", "close"} => ~stopCh
  /\ ~stopCh => ~draining
  /\ ~draining => procPc \notin {"final", "exited"}
  /\ \A c \in Closers : shutPc[c] = "nil" => stopperPc = "finished"

DrainInv ==
  /\ StopOrderInv
  /\ atStop <= Len(accepted)
  /\ procPc \in {"final", "exited"} => atStop <= Len(exported) + Len(batch)

LEMMA InitDrainInv == Init => DrainInv
BY DEF Init, DrainInv, StopOrderInv

LEMMA NextStopOrderInv ==
  TypeOK /\ SafetyInv /\ StopOrderInv /\ [Next]_vars => StopOrderInv'
<1> SUFFICES ASSUME TypeOK, SafetyInv, StopOrderInv, [Next]_vars PROVE StopOrderInv'
  OBVIOUS
<1> USE DEF TypeOK, StopOrderInv, SafetyInv, StopInv, dataVars, coreVars, timerVars,
            stopVars, procVars, callVars, exportVars, history
<1>1. CASE UNCHANGED vars
  BY <1>1 DEF vars
<1>2. ASSUME NEW x \in Cancellable, Cancel(x) PROVE StopOrderInv'
  BY <1>2 DEF Cancel
<1>3. CASE TimerFires
  BY <1>3 DEF TimerFires
<1>4. ASSUME NEW s \in Spans, OnEndNext(s) PROVE StopOrderInv'
  BY <1>4 DEF OnEndNext, OnEnd, EnqueueSpan, EnqueueDrop
<1>5. ASSUME NEW t \in Threads, ExportNext(t) PROVE StopOrderInv'
  BY <1>5 DEF ExportNext, ExportResetTimer, ExportLock, ExportReturns
<1>6. ASSUME NEW f \in Flushers, FlushNext(f) PROVE StopOrderInv'
  BY <1>6 DEF FlushNext, FlushProceeds, ForceFlush, EnqueueMarker, MarkerAbandoned,
              FlushSeen, FlushInterrupted, FlushExported, FlushAbandoned
<1>7. CASE ProcessorNext
  BY <1>7 DEF ProcessorNext, ProcessStop, ProcessTick, ReceiveMarker, ReceiveSpan,
              AppendSpan, StopTimer, DrainTick, DrainFinal, ProcessorExported
<1>8. ASSUME NEW c \in Closers, ShutdownNext(c) PROVE StopOrderInv'
  BY <1>8 DEF ShutdownNext, ShutdownCall, ShutdownBegin, ShutdownReturn, ShutdownAgain
<1>9. CASE StopperNext
  BY <1>9 DEF StopperNext, StopperClose, ExporterShutdown, ExporterShutdownReturns,
              StopperStep
<1> QED
  BY <1>1, <1>2, <1>3, <1>4, <1>5, <1>6, <1>7, <1>8, <1>9 DEF Next

(* Taken spans only move towards the exporter, and the accepted ones only  *)
(* grow in number.                                                         *)
LEMMA DrainInvKept ==
  ASSUME TypeOK, DrainInv, StopOrderInv', UNCHANGED atStop,
         Len(accepted) <= Len(accepted'), accepted' \in Seq(Spans),
         exported' \in Seq(Spans), batch' \in Seq(Spans),
         Len(exported) + Len(batch) <= Len(exported') + Len(batch'),
         procPc' \in {"final", "exited"} => procPc \in {"final", "exited"}
  PROVE  DrainInv'
BY DEF DrainInv, TypeOK

LEMMA NextDrainInv ==
  TypeOK /\ TypeOK' /\ SafetyInv /\ OrderInv /\ DrainInv /\ [Next]_vars => DrainInv'
<1> SUFFICES ASSUME TypeOK, TypeOK', SafetyInv, OrderInv, DrainInv, [Next]_vars
             PROVE  DrainInv'
  OBVIOUS
<1> USE DEF dataVars, coreVars, timerVars, stopVars, procVars, callVars,
            exportVars, history
<1>t. /\ accepted \in Seq(Spans) /\ exported \in Seq(Spans)
      /\ batch \in Seq(Spans) /\ hand \in Seq(Spans)
      /\ accepted' \in Seq(Spans) /\ exported' \in Seq(Spans)
      /\ batch' \in Seq(Spans) /\ atStop \in Nat
  BY DEF TypeOK
<1>s. StopOrderInv'
  BY NextStopOrderInv DEF DrainInv
<1>1. CASE UNCHANGED <<accepted, exported, batch, atStop, procPc>>
  BY <1>1, <1>s, <1>t DEF DrainInv
<1>2. ASSUME NEW s \in Spans, EnqueueSpan(s) PROVE DrainInv'
  BY <1>2, <1>s, <1>t, DrainInvKept DEF EnqueueSpan
<1>3. ASSUME NEW t \in Threads, ExportReturns(t) PROVE DrainInv'
  BY <1>3, <1>s, <1>t, DrainInvKept DEF ExportReturns, EmptiedBatch
<1>4. CASE DrainFinal
  <2>1. /\ queue = <<>> /\ procPc = "receive"
        /\ UNCHANGED <<accepted, exported, batch, atStop>>
    BY <1>4 DEF DrainFinal, QueueDrained
  <2>2. hand = <<>> /\ Len(Taken) = Len(exported) + Len(batch)
    BY <2>1, <1>t, ConcatProperties DEF OrderInv, Taken
  <2>3. Len(Taken) = Len(accepted)
    BY <2>1, <2>2, <1>t DEF OrderInv, InOrder
  <2> QED BY <2>1, <2>2, <2>3, <1>s, <1>t DEF DrainInv
<1>5. CASE ProcessorNext /\ ~DrainFinal
  <2>1. CASE AppendSpan
    BY <2>1, <1>s, <1>t, DrainInvKept, ConcatProperties DEF AppendSpan
  <2>2. CASE ~AppendSpan
    BY <1>5, <2>2, <1>s, <1>t, DrainInvKept
    DEF ProcessorNext, ProcessStop, ProcessTick, ReceiveMarker, ReceiveSpan,
        StopTimer, DrainTick, ProcessorExported
  <2> QED BY <2>1, <2>2
<1>6. ASSUME NEW c \in Closers, ShutdownBegin(c) PROVE DrainInv'
  BY <1>6, <1>s, <1>t
  DEF ShutdownBegin, DrainInv, StopOrderInv, SafetyInv, StopInv
<1>7. CASE \/ TimerFires \/ StopperNext
           \/ \E x \in Cancellable : Cancel(x)
           \/ \E s \in Spans : OnEnd(s) \/ EnqueueDrop(s)
           \/ \E t \in Threads : ExportResetTimer(t) \/ ExportLock(t)
           \/ \E f \in Flushers : FlushNext(f)
           \/ \E c \in Closers : ShutdownNext(c) /\ ~ShutdownBegin(c)
  BY <1>7, <1>1
  DEF TimerFires, StopperNext, StopperClose, ExporterShutdown, ExporterShutdownReturns,
      StopperStep, Cancel, OnEnd, EnqueueDrop, ExportResetTimer, ExportLock, FlushNext,
      FlushProceeds, ForceFlush, EnqueueMarker, MarkerAbandoned, FlushSeen,
      FlushInterrupted, FlushExported, FlushAbandoned, ShutdownNext, ShutdownCall,
      ShutdownReturn, ShutdownAgain
<1>8. CASE UNCHANGED vars
  BY <1>8, <1>1 DEF vars
<1> QED
  BY <1>2, <1>3, <1>4, <1>5, <1>6, <1>7, <1>8 DEF Next, OnEndNext, ExportNext

(* The exporter is shut down only after everything accepted before the     *)
(* call of Shutdown was handed to it, and only then does that call return  *)
(* nil (batch_span_processor.go, Shutdown and drainQueue).                 *)
THEOREM ShutdownDrainsTheQueue == Spec => []ShutdownDrains
<1>1. TypeOK /\ TypeOK' /\ SafetyInv /\ OrderInv /\ DrainInv /\ [Next]_vars
        => DrainInv'
  BY NextDrainInv
<1>2. TypeOK /\ SafetyInv /\ DrainInv => ShutdownDrains
  BY DEF TypeOK, SafetyInv, StopInv, ProcessorInv, DrainInv, StopOrderInv,
         ShutdownDrains
<1> QED
  BY InitDrainInv, TypeCorrect, SafetyInvariant, OrderInvariant, <1>1, <1>2, PTL
  DEF Spec

-----------------------------------------------------------------------------
(* ForceFlush.  Everything accepted before the call is ahead of its marker *)
(* in the queue or already taken; when the marker has come through it is   *)
(* all exported or in the batch, which the call then exports.              *)

(* The elements of acc after the first n up to the m-th precede f in q.    *)
Ahead(n, q, acc, m, f) ==
  \A i \in 1..Len(q) : q[i] = f =>
    \A k \in n + 1..m : \E j \in 1..i - 1 : q[j] = acc[k]

MarkerInv ==
  \A f \in Flushers :
    /\ atFlush[f] <= Len(accepted)
    /\ flushPc[f] \in {"idle", "enqueue"} => \A i \in 1..Len(queue) : queue[i] # f
    /\ Ahead(Len(Taken), queue, accepted, atFlush[f], f)

(* A goroutine that has returned from exportSpans found the batch empty,   *)
(* or emptied it.                                                          *)
FlushedInv ==
  \A f \in Flushers :
    /\ flushPc[f] \in {"idle", "enqueue"} => f \notin flushed
    /\ f \in flushed => Len(exported) + Len(batch) >= atFlush[f]
    /\ flushPc[f] = "export" /\ f \notin cancelled =>
         /\ f \in flushed
         /\ exportPc[f] = "return" => Len(exported) >= atFlush[f]
    /\ flushPc[f] = "nil" /\ f \notin cancelled => Len(exported) >= atFlush[f]

LEMMA InitMarkerInv == Init => MarkerInv /\ FlushedInv
BY DEF Init, MarkerInv, FlushedInv, Ahead, Taken

(* A span or a marker at the end of the queue is behind all markers.       *)
LEMMA AheadAppend ==
  ASSUME NEW T, NEW n \in Nat, NEW q \in Seq(T), NEW acc, NEW m \in Nat,
         NEW f, Ahead(n, q, acc, m, f), NEW e \in T, e # f
  PROVE  Ahead(n, Append(q, e), acc, m, f)
<1> DEFINE r == Append(q, e)
<1>1. /\ Len(r) = Len(q) + 1 /\ Len(q) \in Nat
      /\ \A i \in 1..Len(q) : r[i] = q[i]
      /\ r[Len(q) + 1] = e
  OBVIOUS
<1> HIDE DEF r
<1>2. ASSUME NEW i \in 1..Len(r), r[i] = f, NEW k \in n + 1..m
      PROVE  \E j \in 1..i - 1 : r[j] = acc[k]
  <2>1. i \in 1..Len(q) /\ q[i] = f
    BY <1>1, <1>2
  <2>2. PICK j \in 1..i - 1 : q[j] = acc[k]
    BY <2>1 DEF Ahead
  <2> QED BY <1>1, <2>1, <2>2
<1>3. Ahead(n, r, acc, m, f)
  BY <1>2 DEF Ahead
<1> QED BY <1>3 DEF r

(* Accepting one more span does not change the ones before.                *)
LEMMA AheadAccept ==
  ASSUME NEW n \in Nat, NEW q, NEW acc \in Seq(Spans), NEW m \in Nat, NEW f,
         Ahead(n, q, acc, m, f), m <= Len(acc), NEW s \in Spans
  PROVE  Ahead(n, q, Append(acc, s), m, f)
<1>1. \A k \in n + 1..m : Append(acc, s)[k] = acc[k]
  OBVIOUS
<1> QED BY <1>1 DEF Ahead

(* The marker appended last has every accepted span ahead of it.           *)
LEMMA AheadMark ==
  ASSUME NEW T, NEW n \in Nat, NEW q \in Seq(T), NEW acc \in Seq(Spans),
         InOrder(n, q, acc), NEW m \in 0..Len(acc), NEW f \in T,
         \A i \in 1..Len(q) : q[i] # f
  PROVE  Ahead(n, Append(q, f), acc, m, f)
<1> DEFINE r == Append(q, f)
<1>1. /\ Len(r) = Len(q) + 1 /\ Len(q) \in Nat /\ Len(acc) \in Nat
      /\ \A i \in 1..Len(q) : r[i] = q[i]
  OBVIOUS
<1> HIDE DEF r
<1>2. ASSUME NEW i \in 1..Len(r), r[i] = f, NEW k \in n + 1..m
      PROVE  \E j \in 1..i - 1 : r[j] = acc[k]
  <2>1. i = Len(q) + 1
    BY <1>1, <1>2
  <2>2. PICK j \in 1..Len(q) : q[j] = acc[k]
    BY <1>1 DEF InOrder
  <2> QED BY <1>1, <2>1, <2>2
<1>3. Ahead(n, r, acc, m, f)
  BY <1>2 DEF Ahead
<1> QED BY <1>3 DEF r

(* Taking the head of the queue: it is not among the spans still ahead.    *)
LEMMA AheadTake ==
  ASSUME NEW T, NEW n \in Nat, NEW p \in Nat, p >= n, NEW q \in Seq(T),
         q # <<>>, NEW acc, NEW m \in Nat, NEW f, Ahead(n, q, acc, m, f),
         \A k \in p + 1..m : acc[k] # Head(q)
  PROVE  Ahead(p, Tail(q), acc, m, f)
<1> DEFINE r == Tail(q)
<1>1. /\ Len(r) = Len(q) - 1 /\ Len(q) \in Nat /\ Len(q) >= 1
      /\ \A i \in 1..Len(r) : r[i] = q[i + 1]
      /\ Head(q) = q[1]
  OBVIOUS
<1> HIDE DEF r
<1>2. ASSUME NEW i \in 1..Len(r), r[i] = f, NEW k \in p + 1..m
      PROVE  \E j \in 1..i - 1 : r[j] = acc[k]
  <2>1. i + 1 \in 1..Len(q) /\ q[i + 1] = f /\ k \in n + 1..m
    BY <1>1, <1>2
  <2>2. PICK j \in 1..(i + 1) - 1 : q[j] = acc[k]
    BY <2>1 DEF Ahead
  <2>3. j # 1
    BY <1>1, <2>2
  <2>4. j - 1 \in 1..i - 1 /\ j - 1 \in 1..Len(r) /\ (j - 1) + 1 = j
    BY <1>1, <2>2, <2>3
  <2> QED BY <1>1, <2>2, <2>4
<1>3. Ahead(p, r, acc, m, f)
  BY <1>2 DEF Ahead
<1> QED BY <1>3 DEF r

(* Steps that leave the queue alone and start no ForceFlush. *)
LEMMA MarkerInvKept ==
  ASSUME MarkerInv, UNCHANGED <<queue, accepted, atFlush>>, Taken' = Taken,
         \A f \in Flushers : flushPc'[f] \in {"idle", "enqueue"} =>
                               flushPc[f] \in {"idle", "enqueue"}
  PROVE  MarkerInv'
BY DEF MarkerInv

LEMMA MarkerInvStutter ==
  ASSUME MarkerInv,
         UNCHANGED <<queue, accepted, atFlush, exported, batch, hand>>,
         \A f \in Flushers : flushPc'[f] \in {"idle", "enqueue"} =>
                               flushPc[f] \in {"idle", "enqueue"}
  PROVE  MarkerInv'
<1>1. Taken' = Taken
  BY DEF Taken
<1> QED BY <1>1, MarkerInvKept

LEMMA NextMarkerInv ==
  TypeOK /\ SafetyInv /\ OrderInv /\ MarkerInv /\ [Next]_vars => MarkerInv'
<1> SUFFICES ASSUME TypeOK, SafetyInv, OrderInv, MarkerInv, [Next]_vars
             PROVE  MarkerInv'
  OBVIOUS
<1> USE DEF dataVars, coreVars, timerVars, stopVars, procVars, callVars,
            exportVars, history
<1>t. /\ queue \in Seq(Spans \cup Flushers) /\ accepted \in Seq(Spans)
      /\ atFlush \in [Flushers -> Nat] /\ Len(accepted) \in Nat
      /\ Len(Taken) \in Nat /\ Spans \cap Flushers = {}
  BY TakenType, NamesAssumption DEF TypeOK
<1>f. flushPc \in [Flushers -> {"idle", "enqueue", "await", "export", "nil",
                                "stopped", "ctxErr", "exportErr"}]
  BY DEF TypeOK
<1>1. ASSUME NEW s \in Spans, EnqueueSpan(s) PROVE MarkerInv'
  <2>1. /\ queue' = Append(queue, s) /\ accepted' = Append(accepted, s)
        /\ Taken' = Taken /\ atFlush' = atFlush /\ flushPc' = flushPc
    BY <1>1 DEF EnqueueSpan, Taken
  <2>2. /\ Len(accepted') = Len(accepted) + 1
        /\ Len(queue') = Len(queue) + 1 /\ queue'[Len(queue) + 1] = s
        /\ \A i \in 1..Len(queue) : queue'[i] = queue[i]
    BY <1>t, <2>1
  <2>3. ASSUME NEW f \in Flushers
        PROVE  Ahead(Len(Taken), queue', accepted', atFlush[f], f)
    <3>1. /\ atFlush[f] \in Nat /\ atFlush[f] <= Len(accepted)
          /\ Ahead(Len(Taken), queue, accepted, atFlush[f], f)
      BY <1>t DEF MarkerInv
    <3>2. s # f /\ s \in Spans \cup Flushers
      BY <1>t
    <3>3. Ahead(Len(Taken), Append(queue, s), accepted, atFlush[f], f)
      BY <1>t, <3>1, <3>2, AheadAppend
    <3>4. Ahead(Len(Taken), Append(queue, s), Append(accepted, s), atFlush[f], f)
      BY <1>t, <3>1, <3>3, AheadAccept
    <3> QED BY <2>1, <3>4
  <2>4. ASSUME NEW f \in Flushers, flushPc'[f] \in {"idle", "enqueue"},
               NEW i \in 1..Len(queue')
        PROVE  queue'[i] # f
    <3>1. \A j \in 1..Len(queue) : queue[j] # f
      BY <2>1, <2>4 DEF MarkerInv
    <3>2. Len(queue) \in Nat /\ s # f
      BY <1>t
    <3> QED BY <2>2, <3>1, <3>2
  <2>5. \A f \in Flushers : atFlush'[f] <= Len(accepted')
    BY <1>t, <2>1, <2>2 DEF MarkerInv
  <2> QED BY <2>1, <2>3, <2>4, <2>5 DEF MarkerInv
<1>2. ASSUME NEW f \in Flushers, ForceFlush(f) PROVE MarkerInv'
  <2>1. /\ queue' = queue /\ accepted' = accepted /\ Taken' = Taken
        /\ flushPc[f] = "idle"
        /\ atFlush' = [atFlush EXCEPT ![f] = Len(accepted)]
    BY <1>2 DEF ForceFlush, Taken
  <2>2. \A g \in Flushers \ {f} : flushPc'[g] = flushPc[g]
    BY <1>2, <1>f DEF ForceFlush
  <2>3. \A i \in 1..Len(queue) : queue[i] # f
    BY <2>1 DEF MarkerInv
  <2>4. \A m : Ahead(Len(Taken), queue, accepted, m, f)
    BY <2>3 DEF Ahead
  <2>5. atFlush'[f] = Len(accepted)
        /\ \A g \in Flushers \ {f} : atFlush'[g] = atFlush[g]
    BY <1>t, <2>1
  <2>6. atFlush'[f] <= Len(accepted)
    BY <1>t, <2>5
  <2>7. ASSUME NEW g \in Flushers
        PROVE  /\ atFlush'[g] <= Len(accepted)
               /\ flushPc'[g] \in {"idle", "enqueue"} =>
                    \A i \in 1..Len(queue) : queue[i] # g
               /\ Ahead(Len(Taken), queue, accepted, atFlush'[g], g)
    BY <2>2, <2>3, <2>4, <2>5, <2>6 DEF MarkerInv
  <2> QED BY <2>1, <2>7 DEF MarkerInv
<1>3. ASSUME NEW f \in Flushers, EnqueueMarker(f) PROVE MarkerInv'
  <2>1. /\ queue' = Append(queue, f) /\ accepted' = accepted /\ Taken' = Taken
        /\ atFlush' = atFlush /\ flushPc[f] = "enqueue"
        /\ flushPc' = [flushPc EXCEPT ![f] = "await"]
    BY <1>3 DEF EnqueueMarker, Taken
  <2>2. /\ Len(queue') = Len(queue) + 1 /\ queue'[Len(queue) + 1] = f
        /\ \A i \in 1..Len(queue) : queue'[i] = queue[i]
        /\ Len(queue) \in Nat
    BY <1>t, <2>1
  <2>3. ASSUME NEW g \in Flushers
        PROVE  Ahead(Len(Taken), queue', accepted, atFlush[g], g)
    <3>1. /\ atFlush[g] \in Nat /\ atFlush[g] <= Len(accepted)
          /\ Ahead(Len(Taken), queue, accepted, atFlush[g], g)
          /\ f \in Spans \cup Flushers
      BY <1>t DEF MarkerInv
    <3>2. CASE g = f
      <4>1. \A i \in 1..Len(queue) : queue[i] # f
        BY <2>1 DEF MarkerInv
      <4>2. InOrder(Len(Taken), queue, accepted) /\ atFlush[f] \in 0..Len(accepted)
        BY <1>t, <3>1, <3>2 DEF OrderInv
      <4> QED BY <1>t, <2>1, <3>1, <3>2, <4>1, <4>2, AheadMark
    <3>3. CASE g # f
      BY <1>t, <2>1, <3>1, <3>3, AheadAppend
    <3> QED BY <3>2, <3>3
  <2>4. ASSUME NEW g \in Flushers, flushPc'[g] \in {"idle", "enqueue"},
               NEW i \in 1..Len(queue')
        PROVE  queue'[i] # g
    <3>1. g # f /\ flushPc[g] \in {"idle", "enqueue"}
      BY <1>f, <2>1, <2>4
    <3>2. \A j \in 1..Len(queue) : queue[j] # g
      BY <3>1 DEF MarkerInv
    <3> QED BY <2>2, <3>1, <3>2
  <2> QED BY <2>1, <2>3, <2>4 DEF MarkerInv
<1>4. CASE ReceiveMarker
  <2>1. /\ queue' = Tail(queue) /\ accepted' = accepted /\ Taken' = Taken
        /\ atFlush' = atFlush /\ flushPc' = flushPc
        /\ queue # <<>> /\ Head(queue) \in Flushers
    BY <1>4 DEF ReceiveMarker, Taken
  <2>2. ASSUME NEW f \in Flushers
        PROVE  Ahead(Len(Taken), Tail(queue), accepted, atFlush[f], f)
    <3>1. /\ atFlush[f] \in Nat /\ atFlush[f] <= Len(accepted)
          /\ Ahead(Len(Taken), queue, accepted, atFlush[f], f)
      BY <1>t DEF MarkerInv
    <3>2. \A k \in Len(Taken) + 1..atFlush[f] : accepted[k] # Head(queue)
      <4>1. \A k \in 1..Len(accepted) : accepted[k] \in Spans
        BY <1>t
      <4> QED BY <1>t, <2>1, <3>1, <4>1
    <3> QED BY <1>t, <2>1, <3>1, <3>2, AheadTake
  <2>3. \A i \in 1..Len(queue') : \E j \in 1..Len(queue) : queue'[i] = queue[j]
    <3>1. /\ Len(queue') = Len(queue) - 1 /\ Len(queue) \in Nat
          /\ \A i \in 1..Len(queue') : queue'[i] = queue[i + 1]
      BY <1>t, <2>1
    <3>2. \A i \in 1..Len(queue') : i + 1 \in 1..Len(queue)
      BY <3>1
    <3> QED BY <3>1, <3>2
  <2> QED BY <2>1, <2>2, <2>3 DEF MarkerInv
<1>5. CASE ReceiveSpan
  <2>1. /\ queue' = Tail(queue) /\ accepted' = accepted
        /\ atFlush' = atFlush /\ flushPc' = flushPc
        /\ queue # <<>> /\ Head(queue) \in Spans
        /\ hand = <<>> /\ hand' = <<Head(queue)>>
        /\ exported' = exported /\ batch' = batch
    BY <1>5 DEF ReceiveSpan, OrderInv
  <2>2. /\ Len(Taken) < Len(accepted)
        /\ Head(queue) = accepted[Len(Taken) + 1]
    BY <1>t, <2>1, InOrderTake DEF OrderInv
  <2>3. Len(Taken') = Len(Taken) + 1
    <3>1. exported \o batch \in Seq(Spans)
      BY ConcatProperties DEF TypeOK
    <3>2. Taken = exported \o batch
      BY <2>1, <3>1, ConcatEmptySeq DEF Taken
    <3>3. Taken' = Append(Taken, Head(queue))
      BY <2>1, <3>1, <3>2 DEF Taken
    <3> QED BY <3>1, <3>2, <3>3
  <2>4. ASSUME NEW f \in Flushers
        PROVE  Ahead(Len(Taken) + 1, Tail(queue), accepted, atFlush[f], f)
    <3>1. /\ atFlush[f] \in Nat /\ atFlush[f] <= Len(accepted)
          /\ Ahead(Len(Taken), queue, accepted, atFlush[f], f)
      BY <1>t DEF MarkerInv
    <3>2. \A k \in (Len(Taken) + 1) + 1..atFlush[f] : accepted[k] # Head(queue)
      BY <1>t, <2>2, <3>1 DEF OrderInv, Distinct
    <3>3. Len(Taken) + 1 \in Nat /\ Len(Taken) + 1 >= Len(Taken)
      BY <1>t
    <3> QED BY <1>t, <2>1, <3>1, <3>2, <3>3, AheadTake
  <2>5. \A i \in 1..Len(queue') : \E j \in 1..Len(queue) : queue'[i] = queue[j]
    <3>1. /\ Len(queue') = Len(queue) - 1 /\ Len(queue) \in Nat
          /\ \A i \in 1..Len(queue') : queue'[i] = queue[i + 1]
      BY <1>t, <2>1
    <3>2. \A i \in 1..Len(queue') : i + 1 \in 1..Len(queue)
      BY <3>1
    <3> QED BY <3>1, <3>2
  <2> QED BY <2>1, <2>3, <2>4, <2>5 DEF MarkerInv
<1>6. CASE AppendSpan
  <2>1. UNCHANGED <<queue, accepted, atFlush, flushPc>>
    BY <1>6 DEF AppendSpan
  <2> QED BY <1>6, <2>1, AppendKeepsTaken, MarkerInvKept
<1>7. ASSUME NEW t \in Threads, ExportReturns(t) PROVE MarkerInv'
  <2>1. UNCHANGED <<queue, accepted, atFlush, flushPc>>
    BY <1>7 DEF ExportReturns
  <2> QED BY <1>7, <2>1, ExportKeepsTaken, MarkerInvKept
<1>8. ASSUME NEW f \in Flushers,
             MarkerAbandoned(f) \/ FlushSeen(f) \/ FlushInterrupted(f)
               \/ FlushExported(f) \/ FlushAbandoned(f)
      PROVE  MarkerInv'
  <2>1. /\ UNCHANGED <<queue, accepted, atFlush, exported, batch, hand>>
        /\ \E r \in FlushDone \cup {"export"} :
             flushPc' = [flushPc EXCEPT ![f] = r]
    BY <1>8 DEF MarkerAbandoned, FlushSeen, FlushInterrupted, FlushExported,
                FlushAbandoned, FlushDone
  <2>2. \A g \in Flushers : flushPc'[g] \in {"idle", "enqueue"} =>
                              flushPc[g] \in {"idle", "enqueue"}
    BY <1>f, <2>1 DEF FlushDone
  <2> QED BY <2>1, <2>2, MarkerInvStutter
<1>9. CASE UNCHANGED <<queue, accepted, atFlush, exported, batch, hand, flushPc>>
  BY <1>9, MarkerInvStutter
<1>10. CASE \/ TimerFires \/ StopperNext
            \/ \E x \in Cancellable : Cancel(x)
            \/ \E s \in Spans : OnEnd(s) \/ EnqueueDrop(s)
            \/ \E t \in Threads : ExportResetTimer(t) \/ ExportLock(t)
            \/ \E c \in Closers : ShutdownNext(c)
            \/ UNCHANGED vars
  BY <1>9, <1>10
  DEF TimerFires, StopperNext, StopperClose, ExporterShutdown, ExporterShutdownReturns,
      StopperStep, Cancel, OnEnd, EnqueueDrop, ExportResetTimer, ExportLock,
      ShutdownNext, ShutdownCall, ShutdownBegin, ShutdownReturn, ShutdownAgain, vars
<1>11. CASE ProcessorNext /\ ~(ReceiveMarker \/ ReceiveSpan \/ AppendSpan)
  BY <1>9, <1>11
  DEF ProcessorNext, ProcessStop, ProcessTick, StopTimer, DrainTick, DrainFinal,
      ProcessorExported
<1> QED
  BY <1>1, <1>2, <1>3, <1>4, <1>5, <1>6, <1>7, <1>8, <1>10, <1>11
  DEF Next, OnEndNext, ExportNext, FlushNext, FlushProceeds

LEMMA NextFlushedInv ==
  TypeOK /\ TypeOK' /\ SafetyInv /\ OrderInv /\ MarkerInv /\ FlushedInv
    /\ [Next]_vars => FlushedInv'
<1> SUFFICES ASSUME TypeOK, TypeOK', SafetyInv, OrderInv, MarkerInv, FlushedInv,
                    [Next]_vars
             PROVE  FlushedInv'
  OBVIOUS
<1> USE DEF dataVars, coreVars, timerVars, stopVars, procVars, callVars,
            exportVars, history
<1>t. /\ exported \in Seq(Spans) /\ batch \in Seq(Spans) /\ hand \in Seq(Spans)
      /\ exported' \in Seq(Spans) /\ batch' \in Seq(Spans)
      /\ Len(exported) \in Nat /\ Len(batch) \in Nat
      /\ Len(exported') \in Nat /\ Len(batch') \in Nat
      /\ \A f \in Flushers : atFlush[f] \in Nat
  BY DEF TypeOK
<1>p. /\ exportPc \in [Threads -> {"idle", "reset", "lock", "export", "return"}]
      /\ flushPc \in [Flushers -> {"idle", "enqueue", "await", "export", "nil",
                                   "stopped", "ctxErr", "exportErr"}]
      /\ Processor \notin Flushers
  BY NamesAssumption DEF TypeOK
<1>1. CASE /\ UNCHANGED <<flushed, flushPc, atFlush, exported, batch>>
           /\ cancelled \subseteq cancelled'
           /\ \A f \in Flushers : exportPc'[f] = exportPc[f]
  BY <1>1 DEF FlushedInv
<1>2. ASSUME NEW x \in Cancellable, Cancel(x) PROVE FlushedInv'
  BY <1>1, <1>2 DEF Cancel
<1>3. ASSUME NEW t \in Threads, ExportResetTimer(t) PROVE FlushedInv'
  <2>1. /\ UNCHANGED <<flushed, flushPc, atFlush, exported, batch, cancelled>>
        /\ exportPc' = [exportPc EXCEPT ![t] = "lock"]
    BY <1>3 DEF ExportResetTimer
  <2>2. \A f \in Flushers : exportPc'[f] = "return" => exportPc[f] = "return"
    BY <1>p, <2>1 DEF Threads
  <2> QED BY <2>1, <2>2 DEF FlushedInv
<1>4. ASSUME NEW t \in Threads, ExportLock(t) PROVE FlushedInv'
  <2>1. UNCHANGED <<flushed, flushPc, atFlush, exported, batch, cancelled>>
    BY <1>4 DEF ExportLock
  <2>2. \A f \in Flushers : exportPc'[f] = "return" =>
          exportPc[f] = "return" \/ batch = <<>>
    BY <1>4, <1>p DEF ExportLock, Threads
  <2>3. batch = <<>> => Len(batch) = 0
    OBVIOUS
  <2>4. ASSUME NEW f \in Flushers, flushPc[f] = "export", f \notin cancelled,
               exportPc'[f] = "return"
        PROVE  Len(exported) >= atFlush[f]
    <3>1. CASE exportPc[f] = "return"
      BY <2>4, <3>1 DEF FlushedInv
    <3>2. CASE batch = <<>>
      BY <1>t, <2>3, <2>4, <3>2 DEF FlushedInv
    <3> QED BY <2>2, <2>4, <3>1, <3>2
  <2> QED BY <2>1, <2>4 DEF FlushedInv
<1>5. ASSUME NEW t \in Threads, ExportReturns(t) PROVE FlushedInv'
  <2>1. /\ UNCHANGED <<flushed, flushPc, atFlush, cancelled>>
        /\ exported' = exported \o batch /\ batch' = <<>>
    BY <1>5 DEF ExportReturns, EmptiedBatch
  <2>2. Len(exported') = Len(exported) + Len(batch) /\ Len(batch') = 0
    BY <1>t, <2>1, ConcatProperties
  <2>3. \A f \in Flushers : f \in flushed => Len(exported') >= atFlush[f]
    BY <1>t, <2>2 DEF FlushedInv
  <2>4. ASSUME NEW f \in Flushers, Len(exported) >= atFlush[f]
        PROVE  Len(exported') >= atFlush[f]
    BY <1>t, <2>2, <2>4
  <2>5. \A f \in Flushers : f \in flushed => Len(exported') + Len(batch') >= atFlush[f]
    BY <1>t, <2>2, <2>3
  <2> QED BY <2>1, <2>3, <2>4, <2>5 DEF FlushedInv
<1>6. ASSUME NEW f \in Flushers, ForceFlush(f) PROVE FlushedInv'
  <2>1. /\ UNCHANGED <<flushed, exported, batch, cancelled, exportPc>>
        /\ flushPc[f] = "idle"
        /\ \E r \in {"ctxErr", "stopped", "enqueue"} :
             flushPc' = [flushPc EXCEPT ![f] = r]
        /\ atFlush' = [atFlush EXCEPT ![f] = Len(accepted)]
    BY <1>6 DEF ForceFlush
  <2>2. f \notin flushed
    BY <2>1 DEF FlushedInv
  <2>3. /\ \A g \in Flushers : g # f =>
             flushPc'[g] = flushPc[g] /\ atFlush'[g] = atFlush[g]
        /\ flushPc'[f] \in {"ctxErr", "stopped", "enqueue"}
    BY <1>p, <2>1 DEF TypeOK
  <2> QED BY <2>1, <2>2, <2>3 DEF FlushedInv
<1>7. ASSUME NEW f \in Flushers, EnqueueMarker(f) \/ FlushInterrupted(f)
      PROVE  FlushedInv'
  <2>1. /\ UNCHANGED <<flushed, exported, batch, cancelled, exportPc, atFlush>>
        /\ \E r \in {"ctxErr", "stopped", "await"} :
             flushPc' = [flushPc EXCEPT ![f] = r]
    BY <1>7 DEF EnqueueMarker, FlushInterrupted
  <2>2. \A g \in Flushers : \/ flushPc'[g] = flushPc[g]
                            \/ flushPc'[g] \in {"ctxErr", "stopped", "await"}
    BY <1>p, <2>1
  <2> QED BY <2>1, <2>2 DEF FlushedInv
<1>8. ASSUME NEW f \in Flushers, MarkerAbandoned(f) \/ FlushSeen(f)
      PROVE  FlushedInv'
  <2>1. /\ UNCHANGED <<flushed, exported, batch, cancelled, atFlush>>
        /\ flushPc' = [flushPc EXCEPT ![f] = "export"]
        /\ exportPc' = [exportPc EXCEPT ![f] = "reset"]
        /\ f \in cancelled \/ f \in flushed
    BY <1>8 DEF MarkerAbandoned, FlushSeen, MarkerSeen, StartExport
  <2>2. /\ \A g \in Flushers : g # f =>
             flushPc'[g] = flushPc[g] /\ exportPc'[g] = exportPc[g]
        /\ flushPc'[f] = "export" /\ exportPc'[f] = "reset"
    BY <1>p, <2>1 DEF Threads
  <2> QED BY <2>1, <2>2 DEF FlushedInv
<1>9. ASSUME NEW f \in Flushers, FlushExported(f) PROVE FlushedInv'
  <2>1. /\ UNCHANGED <<flushed, exported, batch, cancelled, atFlush>>
        /\ \E r \in {"nil", "exportErr"} : flushPc' = [flushPc EXCEPT ![f] = r]
        /\ exportPc' = [exportPc EXCEPT ![f] = "idle"]
        /\ flushPc[f] = "export" /\ exportPc[f] = "return"
    BY <1>9 DEF FlushExported
  <2>2. /\ \A g \in Flushers : g # f =>
             flushPc'[g] = flushPc[g] /\ exportPc'[g] = exportPc[g]
        /\ flushPc'[f] \in {"nil", "exportErr"}
    BY <1>p, <2>1 DEF Threads
  <2> QED BY <2>1, <2>2 DEF FlushedInv
<1>10. ASSUME NEW f \in Flushers, FlushAbandoned(f) PROVE FlushedInv'
  <2>1. /\ UNCHANGED <<flushed, exported, batch, cancelled, exportPc, atFlush>>
        /\ flushPc' = [flushPc EXCEPT ![f] = "ctxErr"]
    BY <1>10 DEF FlushAbandoned
  <2>2. \A g \in Flushers : flushPc'[g] = flushPc[g] \/ flushPc'[g] = "ctxErr"
    BY <1>p, <2>1
  <2> QED BY <2>1, <2>2 DEF FlushedInv
<1>11. CASE ReceiveMarker
  <2> DEFINE f == Head(queue)
  <2>1. /\ UNCHANGED <<exported, batch, cancelled, exportPc, flushPc, atFlush>>
        /\ queue # <<>> /\ f \in Flushers /\ procPc = "receive"
        /\ flushed' \in {flushed, flushed \cup {f}}
    BY <1>11 DEF ReceiveMarker
  <2>2. 1 \in 1..Len(queue) /\ queue[1] = f /\ Len(queue) \in Nat
    <3>1. queue \in Seq(Spans \cup Flushers)
      BY DEF TypeOK
    <3> QED BY <2>1, <3>1
  <2> HIDE DEF f
  <2>3. flushPc[f] \notin {"idle", "enqueue"}
    BY <2>1, <2>2 DEF MarkerInv
  <2>4. Len(Taken) >= atFlush[f]
    <3>1. Len(Taken) \in Nat /\ atFlush[f] \in Nat
      BY <1>t, <2>1, TakenType
    <3>2. Ahead(Len(Taken), queue, accepted, atFlush[f], f)
      BY <2>1 DEF MarkerInv
    <3>3. \A k \in Len(Taken) + 1..atFlush[f] : FALSE
      BY <2>2, <3>2 DEF Ahead
    <3>4. CASE Len(Taken) < atFlush[f]
      <4>1. atFlush[f] \in Len(Taken) + 1..atFlush[f]
        BY <3>1, <3>4
      <4> QED BY <3>3, <4>1
    <3> QED BY <3>1, <3>4
  <2>5. Len(Taken) = Len(exported) + Len(batch)
    <3>1. exported \o batch \in Seq(Spans)
          /\ Len(exported \o batch) = Len(exported) + Len(batch)
      BY <1>t, ConcatProperties
    <3>2. hand = <<>>
      BY <2>1 DEF OrderInv
    <3> QED BY <3>1, <3>2, ConcatEmptySeq DEF Taken
  <2> QED BY <2>1, <2>3, <2>4, <2>5 DEF FlushedInv
<1>12. CASE AppendSpan
  <2>1. /\ UNCHANGED <<flushed, flushPc, atFlush, exported, cancelled>>
        /\ batch' = batch \o hand
        /\ exportPc' \in {exportPc, [exportPc EXCEPT ![Processor] = "reset"]}
    BY <1>12 DEF AppendSpan, StartExport
  <2>2. Len(batch') = Len(batch) + Len(hand) /\ Len(hand) \in Nat
    BY <1>t, <2>1, ConcatProperties
  <2>3. \A f \in Flushers : exportPc'[f] = exportPc[f]
    BY <1>p, <2>1 DEF Threads
  <2>4. \A f \in Flushers : f \in flushed =>
          Len(exported) + Len(batch') >= atFlush[f]
    BY <1>t, <2>2 DEF FlushedInv
  <2> QED BY <2>1, <2>3, <2>4 DEF FlushedInv
<1>13. CASE ProcessorNext /\ ~(ReceiveMarker \/ AppendSpan)
  <2>1. UNCHANGED <<flushed, flushPc, atFlush, exported, batch, cancelled>>
    BY <1>13
    DEF ProcessorNext, ProcessStop, ProcessTick, ReceiveSpan, StopTimer,
        DrainTick, DrainFinal, ProcessorExported
  <2>2. \/ exportPc' = exportPc
        \/ \E r \in {"reset", "idle"} :
             exportPc' = [exportPc EXCEPT ![Processor] = r]
    BY <1>13
    DEF ProcessorNext, ProcessStop, ProcessTick, ReceiveSpan, StopTimer,
        DrainTick, DrainFinal, ProcessorExported, StartExport
  <2>3. \A f \in Flushers : exportPc'[f] = exportPc[f]
    BY <1>p, <2>2 DEF Threads
  <2> QED BY <1>1, <2>1, <2>3
<1>14. CASE \/ TimerFires \/ StopperNext
            \/ \E s \in Spans : OnEndNext(s)
            \/ \E c \in Closers : ShutdownNext(c)
            \/ UNCHANGED vars
  BY <1>1, <1>14
  DEF TimerFires, StopperNext, StopperClose, ExporterShutdown, ExporterShutdownReturns,
      StopperStep, OnEndNext, OnEnd, EnqueueSpan, EnqueueDrop,
      ShutdownNext, ShutdownCall, ShutdownBegin, ShutdownReturn, ShutdownAgain, vars
<1> QED
  BY <1>2, <1>3, <1>4, <1>5, <1>6, <1>7, <1>8, <1>9, <1>10, <1>11, <1>12, <1>13,
     <1>14
  DEF Next, ExportNext, FlushNext, FlushProceeds

(* A ForceFlush that returned nil with its context alive found every span  *)
(* accepted before the call exported, whoever exported it and however many *)
(* other flushes and batches were under way (batch_span_processor.go,      *)
(* ForceFlush).                                                            *)
THEOREM FlushCompletes == Spec => []FlushIsComplete
<1>1. TypeOK /\ TypeOK' /\ SafetyInv /\ OrderInv /\ MarkerInv /\ FlushedInv
        /\ [Next]_vars => MarkerInv' /\ FlushedInv'
  BY NextMarkerInv, NextFlushedInv
<1>2. FlushedInv => FlushIsComplete
  BY DEF FlushedInv, FlushIsComplete
<1> QED
  BY InitMarkerInv, TypeCorrect, SafetyInvariant, OrderInvariant, <1>1, <1>2, PTL
  DEF Spec

-----------------------------------------------------------------------------
(* The processor implements the abstract pipeline. *)

LEMMA PipelineInit == Init => Pipeline!Init
BY DEF Init, Pipeline!Init

LEMMA PipelineStutter ==
  ASSUME UNCHANGED <<accepted, exported, stopperPc>>
  PROVE  [Pipeline!Next]_Pipeline!vars
BY DEF Pipeline!vars

LEMMA PipelineNext ==
  TypeOK /\ SafetyInv /\ OrderInv /\ [Next]_vars => [Pipeline!Next]_Pipeline!vars
<1> SUFFICES ASSUME TypeOK, SafetyInv, OrderInv, [Next]_vars
             PROVE  [Pipeline!Next]_Pipeline!vars
  OBVIOUS
<1> USE DEF dataVars, coreVars, stopVars, history
<1>1. ASSUME NEW s \in Spans, EnqueueSpan(s) PROVE [Pipeline!Next]_Pipeline!vars
  <2>1. \A i \in 1..Len(accepted) : accepted[i] # s
    BY <1>1 DEF OrderInv, EnqueueSpan
  <2>2. Pipeline!Accept(s)
    BY <1>1, <2>1 DEF EnqueueSpan, Pipeline!Accept
  <2> QED BY <2>2 DEF Pipeline!Next
<1>2. ASSUME NEW t \in Threads, ExportReturns(t)
      PROVE  [Pipeline!Next]_Pipeline!vars
  <2>1. /\ batch # <<>> /\ stopperPc \notin {"exporter", "finished"}
        /\ Len(batch) <= MaxExportBatchSize
    BY <1>2 DEF ExportReturns, SafetyInv, MutexInv, ProcessorInv, StopInv, BatchInv,
                BatchBounded
  <2>2. Len(batch) \in 1..MaxExportBatchSize
    BY <2>1, SizesAssumption DEF TypeOK
  <2>3. /\ exported \in Seq(Spans) /\ batch \in Seq(Spans)
        /\ hand \in Seq(Spans) /\ accepted \in Seq(Spans)
        /\ exported \o batch \in Seq(Spans)
    BY ConcatProperties DEF TypeOK
  <2> DEFINE n == Len(exported) + Len(batch)
  <2>4. /\ Len(exported \o batch) = n /\ n \in Nat
        /\ Len(Taken) = n + Len(hand)
        /\ \A i \in 1..n : Taken[i] = (exported \o batch)[i]
    <3>1. Len(exported \o batch) = n /\ n \in Nat
      BY ONLY <2>3, ConcatProperties
    <3>2. /\ Len((exported \o batch) \o hand) = Len(exported \o batch) + Len(hand)
          /\ \A i \in 1..Len(exported \o batch) + Len(hand) :
               ((exported \o batch) \o hand)[i] =
                 IF i <= Len(exported \o batch) THEN (exported \o batch)[i]
                 ELSE hand[i - Len(exported \o batch)]
      BY ONLY <2>3, ConcatProperties
    <3>3. Len(hand) \in Nat
      BY <2>3
    <3> QED BY <3>1, <3>2, <3>3 DEF Taken
  <2>5. n <= Len(accepted)
    BY <2>3, <2>4 DEF OrderInv, InOrder
  <2>6. exported \o batch = SubSeq(accepted, 1, n)
    <3>1. /\ SubSeq(accepted, 1, n) \in Seq(Spans)
          /\ Len(SubSeq(accepted, 1, n)) = n
          /\ \A i \in 1..n : SubSeq(accepted, 1, n)[i] = accepted[i]
      BY <2>3, <2>4, <2>5
    <3>2. \A i \in 1..n : (exported \o batch)[i] = accepted[i]
      BY <2>3, <2>4 DEF OrderInv
    <3> QED BY ONLY <2>3, <2>4, <3>1, <3>2, SeqEqual
  <2>7. Pipeline!Deliver(Len(batch))
    BY <1>2, <2>1, <2>5, <2>6 DEF ExportReturns, Pipeline!Deliver
  <2> QED BY <2>2, <2>7 DEF Pipeline!Next
<1>3. CASE ExporterShutdown
  <2>1. Pipeline!Close
    BY <1>3 DEF ExporterShutdown, StopperStep, Pipeline!Close
  <2> QED BY <2>1 DEF Pipeline!Next
<1>4. CASE StopperNext /\ ~ExporterShutdown
  BY <1>4 DEF StopperNext, StopperClose, ExporterShutdownReturns, StopperStep,
              Pipeline!vars
<1>5. CASE ProcessorNext
  BY <1>5, PipelineStutter
  DEF ProcessorNext, ProcessStop, ProcessTick, ReceiveMarker, ReceiveSpan,
      AppendSpan, StopTimer, DrainTick, DrainFinal, ProcessorExported
<1>6. ASSUME NEW f \in Flushers, FlushNext(f) PROVE [Pipeline!Next]_Pipeline!vars
  BY <1>6, PipelineStutter
  DEF FlushNext, FlushProceeds, ForceFlush, EnqueueMarker, MarkerAbandoned, FlushSeen,
      FlushInterrupted, FlushExported, FlushAbandoned
<1>7. ASSUME NEW c \in Closers, ShutdownNext(c)
      PROVE  [Pipeline!Next]_Pipeline!vars
  <2>1. CASE ShutdownBegin(c)
    BY <2>1 DEF ShutdownBegin, Pipeline!vars, SafetyInv, StopInv
  <2>2. CASE ~ShutdownBegin(c)
    BY <1>7, <2>2, PipelineStutter
    DEF ShutdownNext, ShutdownCall, ShutdownReturn, ShutdownAgain
  <2> QED BY <2>1, <2>2
<1>8. CASE TimerFires \/ UNCHANGED vars \/ \E x \in Cancellable : Cancel(x)
  BY <1>8, PipelineStutter DEF TimerFires, vars, Cancel
<1>9. ASSUME NEW s \in Spans, OnEnd(s) \/ EnqueueDrop(s)
      PROVE  [Pipeline!Next]_Pipeline!vars
  BY <1>9, PipelineStutter DEF OnEnd, EnqueueDrop
<1>10. ASSUME NEW t \in Threads, ExportResetTimer(t) \/ ExportLock(t)
       PROVE  [Pipeline!Next]_Pipeline!vars
  BY <1>10, PipelineStutter DEF ExportResetTimer, ExportLock
<1> QED
  BY <1>1, <1>2, <1>3, <1>4, <1>5, <1>6, <1>7, <1>8, <1>9, <1>10
  DEF Next, OnEndNext, ExportNext

(* Every accepted span reaches the exporter at most once, in the order of  *)
(* acceptance, in batches of at most MaxExportBatchSize, and none after    *)
(* the exporter was shut down: the processor implements SpanPipeline.      *)
THEOREM PipelineRefinement == Spec => ImplementsPipeline
<1>1. TypeOK /\ SafetyInv /\ OrderInv /\ [Next]_vars
        => [Pipeline!Next]_Pipeline!vars
  BY PipelineNext
<1> QED
  BY PipelineInit, TypeCorrect, SafetyInvariant, OrderInvariant, <1>1, PTL
  DEF Spec, ImplementsPipeline, Pipeline!Spec
=============================================================================
