----------------------- MODULE LogBatchProcessor_proofs -----------------------
(***************************************************************************)
(* Proofs about the batch processor of the log SDK (sdk/log/batch.go and   *)
(* exporter.go): the safety properties of module LogBatchProcessor for any *)
(* number of records and calls, any batch size and any queue size.         *)
(***************************************************************************)
EXTENDS LogBatchProcessor, SequenceTheorems, SequenceLemmas, TLAPS

-----------------------------------------------------------------------------
(* Type correctness. *)

EmitPlaces == {"idle", "ignored", "enqueue", "trigger", "done"}
FlushPlaces == {"idle", "ignored", "flush", "dequeue", "retry", "buffer", "send", "await", "done"}
ShutdownPlaces ==
  {"idle", "ignored", "pollDone", "takeQueue", "buffer", "send", "await",
   "stopExporter", "close", "drain", "exporter", "done"}

Payloads == [records : Seq(Records), reply : Waiters \cup {Nobody}]

DataTypes ==
  /\ queue \in Seq(Records) /\ qmu \in Flushes \cup {Poll, Nobody}
  /\ stopped \in BOOLEAN /\ trigger \in BOOLEAN /\ killed \in BOOLEAN
  /\ pollPc \in {"select", "poll", "dequeue", "resend", "done"}
  /\ held \in Seq(Records)
  /\ cancelled \in SUBSET Cancellable /\ timedOut \in SUBSET Waiters
  /\ input \in Seq(Payloads) /\ Len(input) <= BufferSize
  /\ inputMu \in Waiters \cup {Nobody}
  /\ closed \in BOOLEAN /\ eStopped \in BOOLEAN /\ expDone \in BOOLEAN
  /\ data \in Seq(Payloads) /\ Len(data) <= 1
  /\ exporting \in Seq(Records) /\ replied \in SUBSET Waiters
  /\ exporter \in {"up", "stopping", "down"}
  /\ emitted \in Seq(Records) /\ exported \in Seq(Records)
  /\ late \in SUBSET Records /\ overwritten \in SUBSET Records /\ abandoned \in SUBSET Records
  /\ awaited \in [Flushes -> SUBSET Records]

(* Every call is where a call of its kind may be.                          *)
PlacesOK ==
  /\ pc \in [Calls -> EmitPlaces \cup FlushPlaces \cup ShutdownPlaces]
  /\ \A r \in Records : pc[r] \in EmitPlaces
  /\ \A f \in Flushes : pc[f] \in FlushPlaces
  /\ \A s \in Shutdowns : pc[s] \in ShutdownPlaces

TypeOK == DataTypes /\ PlacesOK

-----------------------------------------------------------------------------
(* The inductive invariants. *)

Closing == {"close", "drain", "exporter", "done"}

(* One call of Shutdown only goes past its first step.                     *)
ShutInv ==
  /\ \A s, t \in Shutdowns :
       pc[s] \notin {"idle", "ignored"} /\ pc[t] \notin {"idle", "ignored"} => s = t
  /\ \A s \in Shutdowns : pc[s] \notin {"idle", "ignored"} => stopped
  /\ eStopped => \E s \in Shutdowns : pc[s] \in Closing
  /\ \A s \in Shutdowns : pc[s] \in Closing => eStopped
  /\ closed => \E s \in Shutdowns : pc[s] \in {"drain", "exporter", "done"}
  /\ exporter # "up" => \E s \in Shutdowns : pc[s] \in {"exporter", "done"}
  /\ \A s \in Shutdowns : pc[s] \in {"exporter", "done"} => exporter # "up"
  /\ \A s \in Shutdowns : s \in timedOut => pc[s] \notin {"idle", "ignored"}

(* Who waits to send holds inputMu, so does Shutdown once it has closed    *)
(* the channel, and a stopped bufferExporter lets nobody in any more.      *)
InputInv ==
  /\ \A c \in Waiters : pc[c] = "send" => inputMu = c
  /\ \A s \in Shutdowns : pc[s] \in {"drain", "exporter"} => inputMu = s
  /\ closed => \A c \in Waiters : pc[c] # "send"

(* The chunk is of what the export goroutine received, and it is done only *)
(* when nothing is left and nothing can come.                              *)
ExportInv ==
  /\ exporting # <<>> => data # <<>>
  /\ expDone => closed /\ input = <<>> /\ data = <<>>
  /\ exporter # "up" /\ ~ShutdownTimedOut => expDone

(* After Shutdown has taken the queue, the queue holds late records only.  *)
TookQueue(s) ==
  \/ pc[s] \in {"buffer", "send", "await"}
  \/ pc[s] \in {"stopExporter"} \cup Closing /\ s \notin timedOut

LateInv ==
  /\ \A s \in Shutdowns : TookQueue(s) => ToSet(queue) \subseteq late
  /\ ~stopped => late = {}
  /\ late \subseteq ToSet(emitted)
  /\ IsInjective(emitted)
  /\ \A r \in Records : pc[r] \in {"idle", "enqueue"} => r \notin ToSet(emitted)

(* Every part of the pipeline is ordered, and before the later parts.      *)
Precedence == {p \in Records \X Records : Precedes(p[1], p[2])}

PartsOrdered(e, d, i, h, q, R) ==
  /\ OrderedBy(e, R) /\ OrderedBy(d, R) /\ OrderedBy(i, R) /\ OrderedBy(h, R) /\ OrderedBy(q, R)
  /\ AllBefore(ToSet(e), ToSet(d) \cup ToSet(i) \cup ToSet(h) \cup ToSet(q), R)
  /\ AllBefore(ToSet(d), ToSet(i) \cup ToSet(h) \cup ToSet(q), R)
  /\ AllBefore(ToSet(i), ToSet(h) \cup ToSet(q), R)
  /\ AllBefore(ToSet(h), ToSet(q), R)

InPipeline ==
  ToSet(exported) \cup ToSet(Recs(data)) \cup ToSet(Recs(input)) \cup
  ToSet(TakenByShutdown) \cup ToSet(queue)

OrderInv ==
  /\ PartsOrdered(exported, Recs(data), Recs(input), TakenByShutdown, queue, Precedence)
  /\ InPipeline \subseteq ToSet(emitted)

(* Where the records are that were queued before Shutdown.                 *)
Settled == ToSet(exported) \cup overwritten \cup abandoned

ConserveInv ==
  ~ShutdownTimedOut => ToSet(emitted) \ late \subseteq InPipeline \cup overwritten \cup abandoned

(* What a ForceFlush awaits has left the queue when it turns to the        *)
(* exporter, has left the channel when it waits for the answer, and is     *)
(* settled when the answer comes.                                          *)
InHands == Settled \cup ToSet(Recs(data))
InChannel == InHands \cup ToSet(Recs(input))

NotAsked(f) ==
  /\ f \notin replied
  /\ \A i \in DOMAIN data : data[i].reply # f
  /\ \A i \in DOMAIN input : input[i].reply # f

Progress(f) ==
  /\ pc[f] \in {"buffer", "send"} => awaited[f] \subseteq InChannel
  /\ pc[f] = "await" => awaited[f] \subseteq InHands
  /\ pc[f] = "await" /\ f \in replied => awaited[f] \subseteq Settled
  /\ pc[f] = "done" => awaited[f] \subseteq Settled

FlushInv ==
  \A f \in Flushes :
    /\ pc[f] \in FlushPlaces \ {"await", "done", "ignored"} => NotAsked(f)
    /\ awaited[f] \subseteq ToSet(emitted)
    /\ ~stopped /\ f \notin timedOut => Progress(f)


-----------------------------------------------------------------------------
(* The calls are of three kinds. *)
LEMMA Kinds ==
  /\ \A r \in Records : r \in Calls /\ r \notin Waiters /\ r \notin Flushes /\ r \notin Shutdowns
  /\ \A f \in Flushes : f \in Calls /\ f \in Waiters /\ f \notin Records /\ f \notin Shutdowns
  /\ \A s \in Shutdowns : s \in Calls /\ s \in Waiters /\ s \notin Records /\ s \notin Flushes
  /\ \A c \in Waiters : c \in Calls /\ c \notin Records /\ c # Nobody /\ c # Poll
                        /\ (c \in Flushes \/ c \in Shutdowns)
  /\ Poll # Nobody /\ Poll \notin Calls /\ Nobody \notin Calls
  BY CallsAssumption DEF Calls, Waiters

(* Goto moves one call.                                                    *)
LEMMA Gone ==
  ASSUME pc \in [Calls -> EmitPlaces \cup FlushPlaces \cup ShutdownPlaces],
         NEW c \in Calls, NEW place \in EmitPlaces \cup FlushPlaces \cup ShutdownPlaces,
         Goto(c, place)
  PROVE  /\ pc' \in [Calls -> EmitPlaces \cup FlushPlaces \cup ShutdownPlaces]
         /\ pc'[c] = place
         /\ \A d \in Calls : d # c => pc'[d] = pc[d]
  BY DEF Goto

(* The fields of what is in the channel or in the hands of the export      *)
(* goroutine.                                                              *)
LEMMA RecsTyped ==
  ASSUME NEW b \in Seq(Payloads)
  PROVE  /\ Recs(b) \in Seq(Records)
         /\ b # <<>> => Recs(b) = b[1].records
<1>1. CASE b = <<>>
  BY <1>1 DEF Recs
<1>2. CASE b # <<>>
  <2>1. Head(b) \in Payloads /\ Head(b) = b[1]
    BY <1>2, TailEntries
  <2> QED
    BY <1>2, <2>1 DEF Recs, Payloads
<1> QED
  BY <1>1, <1>2

LEMMA ChunkSize ==
  ASSUME NEW n \in Nat
  PROVE  Min({BatchSize, n}) \in 0 .. n /\ (n > 0 => Min({BatchSize, n}) > 0)
<1>1. BatchSize \in Nat \ {0}
  BY BatchSizeAssumption
<1>2. CASE BatchSize <= n
  BY <1>1, <1>2 DEF Min
<1>3. CASE ~(BatchSize <= n)
  BY <1>1, <1>3 DEF Min
<1> QED
  BY <1>2, <1>3

(* Every action that moves a call keeps the places of its kind. *)
LEMMA MoveEmit ==
  ASSUME PlacesOK, NEW r \in Records, NEW place \in EmitPlaces, Goto(r, place)
  PROVE  PlacesOK' /\ pc'[r] = place /\ \A d \in Calls : d # r => pc'[d] = pc[d]
  BY Kinds, Gone DEF PlacesOK

LEMMA MoveFlush ==
  ASSUME PlacesOK, NEW f \in Flushes, NEW place \in FlushPlaces, Goto(f, place)
  PROVE  PlacesOK' /\ pc'[f] = place /\ \A d \in Calls : d # f => pc'[d] = pc[d]
  BY Kinds, Gone DEF PlacesOK

LEMMA MoveShutdown ==
  ASSUME PlacesOK, NEW s \in Shutdowns, NEW place \in ShutdownPlaces, Goto(s, place)
  PROVE  PlacesOK' /\ pc'[s] = place /\ \A d \in Calls : d # s => pc'[d] = pc[d]
  BY Kinds, Gone DEF PlacesOK

LEMMA MoveWaiter ==
  ASSUME PlacesOK, NEW c \in Waiters, NEW place \in {"send", "await", AfterBuffer(c)},
         Goto(c, place)
  PROVE  PlacesOK' /\ pc'[c] = place /\ \A d \in Calls : d # c => pc'[d] = pc[d]
<1>1. CASE c \in Flushes
  <2>1. place \in FlushPlaces
    BY <1>1, Kinds DEF AfterBuffer, FlushPlaces
  <2> QED
    BY <1>1, <2>1, MoveFlush
<1>2. CASE c \in Shutdowns
  <2>1. place \in ShutdownPlaces
    BY <1>2, Kinds DEF AfterBuffer, ShutdownPlaces
  <2> QED
    BY <1>2, <2>1, MoveShutdown
<1> QED
  BY <1>1, <1>2, Kinds

(* The calls stay where calls of their kind are. *)
LEMMA PlacesNext ==
  PlacesOK /\ [Next]_vars => PlacesOK'
<1> SUFFICES ASSUME PlacesOK, [Next]_vars
             PROVE  PlacesOK'
  OBVIOUS
<1>1. ASSUME NEW c \in Cancellable, Cancel(c) PROVE PlacesOK'
  BY <1>1 DEF Cancel, PlacesOK, callVars
<1>2. ASSUME NEW r \in Records, EmitCheck(r) PROVE PlacesOK'
  BY <1>2, MoveEmit DEF EmitCheck, EmitPlaces
<1>3. ASSUME NEW r \in Records, Enqueue(r) PROVE PlacesOK'
  BY <1>3, MoveEmit DEF Enqueue, EmitPlaces
<1>4. ASSUME NEW r \in Records, EmitTrigger(r) PROVE PlacesOK'
  BY <1>4, MoveEmit DEF EmitTrigger, EmitPlaces
<1>5. ASSUME PollTick PROVE PlacesOK'
  BY <1>5 DEF PollTick, PlacesOK, callVars
<1>6. ASSUME PollTriggered PROVE PlacesOK'
  BY <1>6 DEF PollTriggered, PlacesOK, callVars
<1>7. ASSUME PollKilled PROVE PlacesOK'
  BY <1>7 DEF PollKilled, PlacesOK, callVars
<1>8. ASSUME PollLock PROVE PlacesOK'
  BY <1>8 DEF PollLock, PlacesOK, callVars
<1>9. ASSUME PollDequeue PROVE PlacesOK'
  BY <1>9 DEF PollDequeue, PlacesOK, callVars
<1>10. ASSUME PollResend PROVE PlacesOK'
  BY <1>10 DEF PollResend, PlacesOK, callVars
<1>11. ASSUME NEW f \in Flushes, FlushCall(f) PROVE PlacesOK'
  BY <1>11, MoveFlush DEF FlushCall, FlushPlaces
<1>12. ASSUME NEW f \in Flushes, FlushLock(f) PROVE PlacesOK'
  BY <1>12, MoveFlush DEF FlushLock, FlushPlaces
<1>13. ASSUME NEW f \in Flushes, FlushDequeue(f) PROVE PlacesOK'
  BY <1>13, MoveFlush DEF FlushDequeue, FlushNext, FlushPlaces
<1>14. ASSUME NEW f \in Flushes, FlushRetry(f) PROVE PlacesOK'
  BY <1>14, MoveFlush DEF FlushRetry, FlushPlaces
<1>15. ASSUME NEW c \in Waiters, BufferLock(c) PROVE PlacesOK'
  BY <1>15, MoveWaiter DEF BufferLock
<1>16. ASSUME NEW c \in Waiters, BufferSend(c) PROVE PlacesOK'
  BY <1>16, MoveWaiter DEF BufferSend
<1>17. ASSUME NEW c \in Waiters, BufferReply(c) PROVE PlacesOK'
  BY <1>17, MoveWaiter DEF BufferReply
<1>18. ASSUME NEW c \in Waiters, BufferTimesOut(c) PROVE PlacesOK'
  BY <1>18, MoveWaiter DEF BufferTimesOut
<1>19. ASSUME NEW s \in Shutdowns, ShutdownCall(s) PROVE PlacesOK'
  BY <1>19, MoveShutdown DEF ShutdownCall, ShutdownPlaces
<1>20. ASSUME NEW s \in Shutdowns, ShutdownPollDone(s) PROVE PlacesOK'
  BY <1>20, MoveShutdown DEF ShutdownPollDone, ShutdownPlaces
<1>21. ASSUME NEW s \in Shutdowns, ShutdownTimesOut(s) PROVE PlacesOK'
  BY <1>21, MoveShutdown DEF ShutdownTimesOut, ShutdownPlaces
<1>22. ASSUME NEW s \in Shutdowns, ShutdownTakesQueue(s) PROVE PlacesOK'
  BY <1>22, MoveShutdown DEF ShutdownTakesQueue, ShutdownPlaces
<1>23. ASSUME NEW s \in Shutdowns, StopExporter(s) PROVE PlacesOK'
  BY <1>23, MoveShutdown DEF StopExporter, ShutdownPlaces
<1>24. ASSUME NEW s \in Shutdowns, CloseInput(s) PROVE PlacesOK'
  BY <1>24, MoveShutdown DEF CloseInput, ShutdownPlaces
<1>25. ASSUME NEW s \in Shutdowns, ExporterStops(s) PROVE PlacesOK'
  BY <1>25, MoveShutdown DEF ExporterStops, ShutdownPlaces
<1>26. ASSUME NEW s \in Shutdowns, ExporterStopped(s) PROVE PlacesOK'
  BY <1>26, MoveShutdown DEF ExporterStopped, ShutdownPlaces
<1>27. ASSUME ExportReceive PROVE PlacesOK'
  BY <1>27 DEF ExportReceive, PlacesOK, callVars
<1>28. ASSUME ExportChunk PROVE PlacesOK'
  BY <1>28 DEF ExportChunk, PlacesOK, callVars
<1>29. ASSUME ExportRespond PROVE PlacesOK'
  BY <1>29 DEF ExportRespond, PlacesOK, callVars
<1>30. ASSUME ExportEnds PROVE PlacesOK'
  BY <1>30 DEF ExportEnds, PlacesOK, callVars
<1>31. ASSUME ExportReturns PROVE PlacesOK'
  BY <1>31 DEF ExportReturns, PlacesOK, callVars
<1>32. ASSUME UNCHANGED vars PROVE PlacesOK'
  BY <1>32 DEF vars, callVars, PlacesOK
<1> QED
  BY <1>1, <1>2, <1>3, <1>4, <1>5, <1>6, <1>7, <1>8, <1>9, <1>10, <1>11,
     <1>12, <1>13, <1>14, <1>15, <1>16, <1>17, <1>18, <1>19, <1>20, <1>21,
     <1>22, <1>23, <1>24, <1>25, <1>26, <1>27, <1>28, <1>29, <1>30, <1>31,
     <1>32
     DEF Next, EmitNext, PollNext, FlushProceeds, ShutdownProceeds, BufferNext, ExportNext, Waiters

-----------------------------------------------------------------------------
(* What the steps do to the queue, the channel and the hands of the export *)
(* goroutine.                                                              *)

(* The only element of a sequence that holds one at most.                  *)
LEMMA OnlyOne ==
  ASSUME NEW S, NEW x \in S
  PROVE  /\ <<x>> \in Seq(S) /\ Len(<<x>>) = 1 /\ <<x>> # <<>>
         /\ DOMAIN <<x>> = {1} /\ <<x>>[1] = x /\ Append(<<>>, x) = <<x>>
  OBVIOUS

LEMMA AtMostOne ==
  ASSUME NEW S, NEW b \in Seq(S), Len(b) <= 1, b # <<>>
  PROVE  b = <<b[1]>> /\ b[1] \in S /\ DOMAIN b = {1} /\ Tail(b) = <<>> /\ Head(b) = b[1]
<1>1. /\ Len(b) \in Nat \ {0} /\ DOMAIN b = 1 .. Len(b) /\ Head(b) = b[1] /\ b[1] \in S
      /\ Tail(b) \in Seq(S) /\ Len(Tail(b)) = Len(b) - 1
  BY TailEntries
<1>2. Len(b) = 1 /\ DOMAIN b = {1}
  BY <1>1
<1>3. Tail(b) = <<>>
  <2> DEFINE t == Tail(b)
  <2>1. t \in Seq(S) /\ Len(t) = 0
    BY <1>1, <1>2
  <2> HIDE DEF t
  <2>2. t = <<>>
    BY <2>1, EmptySeq
  <2> QED
    BY <2>2 DEF t
<1>4. b = <<b[1]>>
  BY <1>1, <1>2
<1> QED
  BY <1>1, <1>2, <1>3, <1>4

LEMMA PayloadTyped ==
  ASSUME NEW rs \in Seq(Records), NEW c \in Waiters \cup {Nobody}
  PROVE  [records |-> rs, reply |-> c] \in Payloads
  BY DEF Payloads

(* One payload in the channel or in the hands. *)
LEMMA OnePayload ==
  ASSUME NEW rs \in Seq(Records), NEW c \in Waiters \cup {Nobody}, NEW b,
         b = <<[records |-> rs, reply |-> c]>>
  PROVE  /\ b \in Seq(Payloads) /\ Len(b) = 1 /\ b # <<>> /\ DOMAIN b = {1}
         /\ b[1].records = rs /\ b[1].reply = c /\ Recs(b) = rs
<1> DEFINE x == [records |-> rs, reply |-> c]
<1>1. x \in Payloads /\ x.records = rs /\ x.reply = c
  BY PayloadTyped
<1>2. b \in Seq(Payloads) /\ Len(b) = 1 /\ b # <<>> /\ DOMAIN b = {1} /\ b[1] = x
  BY <1>1, OnlyOne
<1>3. Recs(b) = b[1].records
  BY <1>2, RecsTyped
<1> QED
  BY <1>1, <1>2, <1>3

LEMMA NoPayload == Recs(<<>>) = <<>> /\ <<>> \in Seq(Payloads) /\ Len(<<>>) = 0
  BY DEF Recs

LEMMA RoomIsEmpty ==
  ASSUME DataTypes, HasRoom
  PROVE  input = <<>>
  BY EmptySeq, LenProperties DEF DataTypes, HasRoom, BufferSize

(* TryDequeue leaves the queue alone, or takes its first n records away:   *)
(* into the channel, or to nowhere when the bufferExporter is stopped.     *)
LEMMA DequeueStep ==
  ASSUME DataTypes, NEW t, NEW n \in 0 .. Len(queue), TryDequeue(t, n)
  PROVE  /\ qmu' = Nobody
         /\ UNCHANGED <<overwritten, emitted, late, inputMu, closed, eStopped>>
         /\ queue' \in Seq(Records) /\ Len(queue') <= Len(queue)
         /\ input' \in Seq(Payloads) /\ Len(input') <= 1
         /\ \/ queue' = queue /\ input' = input /\ ~Written(n)
            \/ /\ n = 0 /\ ToSet(queue') = ToSet(queue) /\ input' = input
               /\ queue' = SubSeq(queue, n + 1, Len(queue))
            \/ eStopped /\ queue' = SubSeq(queue, n + 1, Len(queue)) /\ input' = input
            \/ /\ n > 0 /\ ~eStopped /\ input = <<>>
               /\ input' = <<[records |-> SubSeq(queue, 1, n), reply |-> Nobody]>>
               /\ queue' = SubSeq(queue, n + 1, Len(queue))
<1>1. queue \in Seq(Records) /\ input \in Seq(Payloads) /\ Len(input) <= 1
  BY DEF DataTypes, BufferSize
<1>2. /\ SubSeq(queue, 1, n) \in Seq(Records)
      /\ SubSeq(queue, n + 1, Len(queue)) \in Seq(Records)
      /\ Len(SubSeq(queue, n + 1, Len(queue))) = Len(queue) - n
      /\ Len(queue) \in Nat /\ Len(queue) - n <= Len(queue)
  BY <1>1, CutEntries, LenProperties
<1>3. /\ qmu' = Nobody
      /\ UNCHANGED <<overwritten, emitted, late, inputMu, closed, eStopped>>
  BY DEF TryDequeue, OwnerAfter
<1>4. CASE ~Written(n)
  <2>1. queue' = queue /\ input' = input
    BY <1>4 DEF TryDequeue, Written
  <2> QED
    BY <1>1, <1>2, <1>3, <1>4, <2>1
<1>5. CASE n = 0
  <2>1. queue' = SubSeq(queue, n + 1, Len(queue)) /\ input' = input
    BY <1>5 DEF TryDequeue, Written, Remaining
  <2>2. ToSet(queue) = ToSet(SubSeq(queue, 1, n)) \cup ToSet(SubSeq(queue, n + 1, Len(queue)))
    BY <1>1, CutToSet
  <2>3. ToSet(SubSeq(queue, 1, n)) = {}
    <3> DEFINE p == SubSeq(queue, 1, n)
    <3>1. p \in Seq(Records) /\ Len(p) = 0
      BY <1>1, <1>5, CutEntries
    <3> HIDE DEF p
    <3>2. p = <<>>
      BY <3>1, EmptySeq
    <3>3. ToSet(p) = {}
      BY <3>1, <3>2, EntryInToSet
    <3> QED
      BY <3>3 DEF p
  <2> QED
    BY <1>1, <1>2, <1>3, <1>5, <2>1, <2>2, <2>3
<1>6. CASE n # 0 /\ eStopped
  <2>1. queue' = SubSeq(queue, n + 1, Len(queue)) /\ input' = input
    BY <1>6 DEF TryDequeue, Written, Remaining
  <2> QED
    BY <1>1, <1>2, <1>3, <1>6, <2>1
<1>7. CASE n # 0 /\ ~eStopped /\ HasRoom
  <2>1. n > 0 /\ input = <<>>
    BY <1>7, RoomIsEmpty
  <2> DEFINE x == [records |-> SubSeq(queue, 1, n), reply |-> Nobody]
  <2>2. queue' = SubSeq(queue, n + 1, Len(queue)) /\ input' = Append(input, x)
    BY <1>7, <2>1 DEF TryDequeue, Written, Remaining
  <2>3. x \in Payloads
    BY <1>2, PayloadTyped
  <2>4. input' = <<x>> /\ <<x>> \in Seq(Payloads) /\ Len(<<x>>) = 1
    BY <2>1, <2>2, <2>3, OnlyOne
  <2> QED
    BY <1>2, <1>3, <1>7, <2>1, <2>2, <2>4
<1>8. CASE n # 0 /\ ~eStopped /\ ~HasRoom
  BY <1>4, <1>8 DEF Written
<1> QED
  BY <1>4, <1>5, <1>6, <1>7, <1>8

LEMMA SendStep ==
  ASSUME DataTypes, NEW c \in Waiters, BufferSend(c)
  PROVE  /\ input = <<>> /\ input' = <<[records |-> Payload(c), reply |-> c]>>
         /\ input' \in Seq(Payloads) /\ Len(input') = 1 /\ Recs(input') = Payload(c)
         /\ DOMAIN input' = {1} /\ input'[1].reply = c
<1>1. input = <<>>
  BY RoomIsEmpty DEF BufferSend
<1>2. Payload(c) \in Seq(Records)
  BY DEF Payload, DataTypes
<1>3. [records |-> Payload(c), reply |-> c] \in Payloads
  BY <1>2, PayloadTyped
<1>4. input' = <<[records |-> Payload(c), reply |-> c]>>
  BY <1>1, <1>3, OnlyOne DEF BufferSend
<1> QED
  BY <1>1, <1>2, <1>4, OnePayload

LEMMA ReceiveStep ==
  ASSUME DataTypes, ExportReceive
  PROVE  /\ data = <<>> /\ input # <<>> /\ input' = <<>>
         /\ data' \in Seq(Payloads) /\ Len(data') = 1 /\ data' # <<>>
         /\ DOMAIN data' = {1} /\ DOMAIN input = {1} /\ data'[1] = input[1]
         /\ Recs(data') = Recs(input)
<1>1. input \in Seq(Payloads) /\ Len(input) <= 1 /\ input # <<>> /\ data = <<>>
  BY DEF DataTypes, BufferSize, ExportReceive
<1>2. input[1] \in Payloads /\ DOMAIN input = {1} /\ Tail(input) = <<>> /\ Head(input) = input[1]
  BY <1>1, AtMostOne
<1>3. data' = <<input[1]>> /\ input' = <<>>
  BY <1>2 DEF ExportReceive
<1>4. data' \in Seq(Payloads) /\ Len(data') = 1 /\ data' # <<>> /\ DOMAIN data' = {1}
      /\ data'[1] = input[1]
  BY <1>2, <1>3, OnlyOne
<1>5. Recs(data') = data'[1].records /\ Recs(input) = input[1].records
  BY <1>1, <1>4, RecsTyped
<1> QED
  BY <1>1, <1>2, <1>3, <1>4, <1>5

(* What becomes of the element in hand when its records are replaced.      *)
LEMMA RecordsReplaced ==
  ASSUME DataTypes, data # <<>>, NEW rs \in Seq(Records),
         data' = [data EXCEPT ![1].records = rs]
  PROVE  /\ data' \in Seq(Payloads) /\ Len(data') = 1 /\ data' # <<>>
         /\ DOMAIN data = {1} /\ DOMAIN data' = {1}
         /\ data'[1].reply = data[1].reply /\ Recs(data') = rs /\ Recs(data) = data[1].records
<1>1. data \in Seq(Payloads) /\ Len(data) <= 1
  BY DEF DataTypes
<1>2. data = <<data[1]>> /\ data[1] \in Payloads /\ DOMAIN data = {1}
  BY <1>1, AtMostOne
<1> DEFINE x == [records |-> rs, reply |-> data[1].reply]
<1>3. [data[1] EXCEPT !.records = rs] = x
  BY <1>2 DEF Payloads
<1>4. data[1].reply \in Waiters \cup {Nobody}
  BY <1>2 DEF Payloads
<1>5. data' = [data EXCEPT ![1] = x]
  BY <1>3
<1>6. data' = <<x>>
  <2> HIDE DEF x
  <2> QED
    BY <1>2, <1>5
<1>7. /\ data' \in Seq(Payloads) /\ Len(data') = 1 /\ data' # <<>> /\ DOMAIN data' = {1}
      /\ data'[1].reply = data[1].reply /\ Recs(data') = rs
  <2> DEFINE c == data[1].reply
             b == data'
  <2>1. b = <<[records |-> rs, reply |-> c]>> /\ c \in Waiters \cup {Nobody}
    BY <1>4, <1>6
  <2> HIDE DEF b, c
  <2>2. /\ b \in Seq(Payloads) /\ Len(b) = 1 /\ b # <<>> /\ DOMAIN b = {1}
        /\ b[1].reply = c /\ Recs(b) = rs
    BY <2>1, OnePayload
  <2> QED
    BY <2>2 DEF b, c
<1> QED
  BY <1>1, <1>2, <1>7, RecsTyped

(* A chunk is a beginning of what is left. *)
LEMMA ChunkStep ==
  ASSUME DataTypes, ExportChunk
  PROVE  /\ data # <<>> /\ exporting = <<>>
         /\ data' \in Seq(Payloads) /\ Len(data') = 1 /\ data' # <<>>
         /\ DOMAIN data = {1} /\ DOMAIN data' = {1} /\ data'[1].reply = data[1].reply
         /\ Recs(data) \in Seq(Records)
         /\ exporting' \in Seq(Records) /\ exported' \in Seq(Records)
         /\ \E n \in 0 .. Len(Recs(data)) :
              /\ exported' = exported \o SubSeq(Recs(data), 1, n)
              /\ Recs(data') = SubSeq(Recs(data), n + 1, Len(Recs(data)))
<1> DEFINE left == data[1].records
           n == Min({BatchSize, Len(left)})
           chunk == SubSeq(left, 1, n)
           rest == SubSeq(left, n + 1, Len(left))
<1>1. data \in Seq(Payloads) /\ Len(data) <= 1 /\ data # <<>> /\ exporting = <<>>
  BY DEF DataTypes, ExportChunk
<1>2. left = Recs(data) /\ left \in Seq(Records)
  BY <1>1, RecsTyped
<1>3. n \in 0 .. Len(left)
  BY <1>2, ChunkSize, LenProperties
<1>4. chunk \in Seq(Records) /\ Len(chunk) = n /\ rest \in Seq(Records)
  <2> HIDE DEF left, n
  <2> QED
    BY <1>2, <1>3, CutEntries
<1>5. /\ exporting' = chunk /\ exported' = exported \o chunk
      /\ data' = [data EXCEPT ![1].records = SubSeq(left, Len(chunk) + 1, Len(left))]
  BY DEF ExportChunk, Chunk
<1>6. data' = [data EXCEPT ![1].records = rest]
  BY <1>4, <1>5
<1>7. exported' \in Seq(Records)
  BY <1>4, <1>5, JoinEntries DEF DataTypes
<1> HIDE DEF left, n, chunk, rest
<1>8. /\ data' \in Seq(Payloads) /\ Len(data') = 1 /\ data' # <<>>
      /\ DOMAIN data = {1} /\ DOMAIN data' = {1} /\ data'[1].reply = data[1].reply
      /\ Recs(data') = rest
  BY <1>1, <1>4, <1>6, RecordsReplaced
<1>9. /\ exported' = exported \o SubSeq(Recs(data), 1, n)
      /\ Recs(data') = SubSeq(Recs(data), n + 1, Len(Recs(data)))
  BY <1>2, <1>5, <1>8 DEF chunk, rest
<1> QED
  BY <1>1, <1>2, <1>3, <1>4, <1>5, <1>7, <1>8, <1>9

LEMMA ReturnStep ==
  ASSUME DataTypes, ExportInv, ExportReturns
  PROVE  /\ data # <<>> /\ exporting' = <<>> /\ exported' = exported
         /\ data' \in Seq(Payloads) /\ Len(data') = 1 /\ data' # <<>>
         /\ DOMAIN data = {1} /\ DOMAIN data' = {1} /\ data'[1].reply = data[1].reply
         /\ \/ UNCHANGED <<data, abandoned>>
            \/ abandoned' = abandoned \cup ToSet(Recs(data)) /\ Recs(data') = <<>>
         /\ abandoned' \in SUBSET Records
<1>1. data # <<>> /\ exporting' = <<>> /\ exported' = exported
  BY DEF ExportReturns, ExportInv
<1>2. data \in Seq(Payloads) /\ Len(data) <= 1
  BY DEF DataTypes
<1>3. data[1] \in Payloads /\ DOMAIN data = {1} /\ data = <<data[1]>> /\ Recs(data) = data[1].records
  BY <1>1, <1>2, AtMostOne, RecsTyped
<1>4. ToSet(Recs(data)) \subseteq Records
  BY <1>2, RecsTyped, EntryInToSet
<1>5. CASE UNCHANGED <<data, abandoned>>
  <2>1. Len(data) = 1
    BY <1>3, OnlyOne
  <2> QED
    BY <1>1, <1>2, <1>3, <1>5, <2>1 DEF DataTypes
<1>6. CASE /\ abandoned' = abandoned \cup ToSet(data[1].records)
           /\ data' = [data EXCEPT ![1].records = <<>>]
  <2>1. /\ data' \in Seq(Payloads) /\ Len(data') = 1 /\ data' # <<>> /\ DOMAIN data' = {1}
        /\ data'[1].reply = data[1].reply /\ Recs(data') = <<>>
    <3>1. <<>> \in Seq(Records)
      OBVIOUS
    <3> QED
      BY <1>1, <1>6, <3>1, RecordsReplaced
  <2> QED
    BY <1>1, <1>3, <1>4, <1>6, <2>1 DEF DataTypes
<1> QED
  BY <1>5, <1>6 DEF ExportReturns

LEMMA RespondStep ==
  ASSUME DataTypes, ExportRespond
  PROVE  /\ data # <<>> /\ Recs(data) = <<>> /\ data' = <<>> /\ DOMAIN data = {1}
         /\ exporting = <<>> /\ data[1].reply \in Waiters \cup {Nobody}
         /\ replied' = replied \cup ({data[1].reply} \ {Nobody}) /\ replied' \in SUBSET Waiters
<1>1. data \in Seq(Payloads) /\ Len(data) <= 1 /\ data # <<>>
  BY DEF DataTypes, ExportRespond
<1>2. data[1] \in Payloads /\ DOMAIN data = {1} /\ Recs(data) = data[1].records
  BY <1>1, AtMostOne, RecsTyped
<1>3. data[1].reply \in Waiters \cup {Nobody}
  BY <1>2 DEF Payloads
<1> QED
  BY <1>1, <1>2, <1>3 DEF ExportRespond, DataTypes

(* Enqueue puts the record at the end; the oldest gives way.               *)
LEMMA EnqueueStep ==
  ASSUME DataTypes, NEW r \in Records
  PROVE  /\ Enqueued(queue, r) \in Seq(Records)
         /\ Overwritten(queue) \subseteq ToSet(queue)
         /\ ToSet(Enqueued(queue, r)) \subseteq ToSet(queue) \cup {r}
         /\ ToSet(queue) \cup {r} = ToSet(Enqueued(queue, r)) \cup Overwritten(queue)
         /\ \E q \in Seq(Records) :
              /\ Enqueued(queue, r) = Append(q, r)
              /\ q = queue \/ (queue # <<>> /\ q = Tail(queue))
<1>1. queue \in Seq(Records) /\ Len(queue) \in Nat /\ QueueSize \in Nat \ {0}
  BY QueueSizeAssumption DEF DataTypes
<1>2. CASE Len(queue) < QueueSize
  <2>1. Enqueued(queue, r) = Append(queue, r) /\ Overwritten(queue) = {}
    BY <1>2 DEF Enqueued, Overwritten
  <2>2. Append(queue, r) \in Seq(Records) /\ ToSet(Append(queue, r)) = ToSet(queue) \cup {r}
    BY <1>1, AppendToSet
  <2> QED
    BY <1>1, <2>1, <2>2
<1>3. CASE ~(Len(queue) < QueueSize)
  <2>1. Enqueued(queue, r) = Append(Tail(queue), r) /\ Overwritten(queue) = {Head(queue)}
    BY <1>3 DEF Enqueued, Overwritten
  <2>2. queue # <<>>
    BY <1>1, <1>3
  <2>3. Tail(queue) \in Seq(Records)
    BY <1>1, <2>2, TailEntries
  <2>4. ToSet(queue) = ToSet(Tail(queue)) \cup {Head(queue)}
    BY <1>1, <2>2, TailToSet
  <2>5. /\ Append(Tail(queue), r) \in Seq(Records)
        /\ ToSet(Append(Tail(queue), r)) = ToSet(Tail(queue)) \cup {r}
    <3> DEFINE tl == Tail(queue)
    <3> HIDE DEF tl
    <3>1. tl \in Seq(Records)
      BY <2>3 DEF tl
    <3>2. Append(tl, r) \in Seq(Records) /\ ToSet(Append(tl, r)) = ToSet(tl) \cup {r}
      BY <3>1, AppendToSet
    <3> QED
      BY <3>2 DEF tl
  <2> QED
    BY <2>1, <2>2, <2>3, <2>4, <2>5
<1> QED
  BY <1>2, <1>3

-----------------------------------------------------------------------------
(* Types. *)

LEMMA TypeInit == Init => TypeOK
<1> SUFFICES ASSUME Init PROVE TypeOK
  OBVIOUS
<1>1. /\ <<>> \in Seq(Records) /\ <<>> \in Seq(Payloads) /\ Len(<<>>) = 0
  OBVIOUS
<1>2. awaited \in [Flushes -> SUBSET Records]
  BY DEF Init
<1>3. input \in Seq(Payloads) /\ Len(input) <= BufferSize /\ data \in Seq(Payloads) /\ Len(data) <= 1
  BY <1>1 DEF Init, BufferSize
<1>4. DataTypes
  BY <1>1, <1>2, <1>3 DEF Init, DataTypes
<1>5. PlacesOK
  BY DEF Init, PlacesOK, EmitPlaces, FlushPlaces, ShutdownPlaces, Calls,
     Waiters
<1> QED
  BY <1>4, <1>5 DEF TypeOK

LEMMA DataTypesNext ==
  DataTypes /\ ExportInv /\ [Next]_vars => DataTypes'
<1> SUFFICES ASSUME DataTypes, ExportInv, [Next]_vars
             PROVE  DataTypes'
  OBVIOUS
<1>1. ASSUME NEW c \in Cancellable, Cancel(c) PROVE DataTypes'
  BY <1>1 DEF Cancel, DataTypes, queueVars, pollVars, callVars, bufferVars,
     exportVars
<1>2. ASSUME NEW r \in Records, EmitCheck(r) PROVE DataTypes'
  BY <1>2 DEF EmitCheck, DataTypes, queueVars, pollVars, callVars, bufferVars,
     exportVars
<1>3. ASSUME NEW r \in Records, Enqueue(r) PROVE DataTypes'
  <2>1. Enqueued(queue, r) \in Seq(Records) /\ Overwritten(queue) \subseteq Records
    BY EnqueueStep, EntryInToSet DEF DataTypes
  <2>2. Append(emitted, r) \in Seq(Records)
    BY AppendProperties DEF DataTypes
  <2> QED
    BY <1>3, <2>1, <2>2 DEF Enqueue, DataTypes, pollVars, bufferVars,
       exportVars
<1>4. ASSUME NEW r \in Records, EmitTrigger(r) PROVE DataTypes'
  BY <1>4 DEF EmitTrigger, DataTypes, queueVars, pollVars, callVars,
     bufferVars, exportVars
<1>5. ASSUME PollTick PROVE DataTypes'
  BY <1>5 DEF PollTick, DataTypes, queueVars, pollVars, callVars, bufferVars,
     exportVars
<1>6. ASSUME PollTriggered PROVE DataTypes'
  BY <1>6 DEF PollTriggered, DataTypes, queueVars, pollVars, callVars,
     bufferVars, exportVars
<1>7. ASSUME PollKilled PROVE DataTypes'
  BY <1>7 DEF PollKilled, DataTypes, queueVars, pollVars, callVars,
     bufferVars, exportVars
<1>8. ASSUME PollLock PROVE DataTypes'
  BY <1>8 DEF PollLock, TakesQueue, DataTypes, queueVars, pollVars, callVars,
     bufferVars, exportVars
<1>9. ASSUME PollDequeue PROVE DataTypes'
  <2>1. PICK n \in 0 .. Len(queue) : TryDequeue(Poll, n)
    <3>1. Len(queue) \in Nat
      BY LenProperties DEF DataTypes
    <3> QED
      BY <1>9, <3>1, ChunkSize DEF PollDequeue
  <2>2. /\ queue' \in Seq(Records) /\ input' \in Seq(Payloads) /\ Len(input') <= 1
        /\ qmu' = Nobody /\ UNCHANGED <<overwritten, emitted, late, inputMu, closed, eStopped>>
    BY <2>1, DequeueStep
  <2> QED
    BY <1>9, <2>2 DEF PollDequeue, DataTypes, BufferSize, callVars, exportVars
<1>10. ASSUME PollResend PROVE DataTypes'
  BY <1>10 DEF PollResend, DataTypes, queueVars, pollVars, callVars,
     bufferVars, exportVars
<1>11. ASSUME NEW f \in Flushes, FlushCall(f) PROVE DataTypes'
  <2>1. ToSet(emitted) \subseteq Records
    BY EntryInToSet DEF DataTypes
  <2> QED
    BY <1>11, <2>1 DEF FlushCall, DataTypes, queueVars, pollVars, callVars,
       bufferVars, exportVars
<1>12. ASSUME NEW f \in Flushes, FlushLock(f) PROVE DataTypes'
  BY <1>12 DEF FlushLock, TakesQueue, DataTypes, queueVars, pollVars,
     callVars, bufferVars, exportVars
<1>13. ASSUME NEW f \in Flushes, FlushDequeue(f) PROVE DataTypes'
  <2>1. Len(queue) \in 0 .. Len(queue) /\ TryDequeue(f, Len(queue))
    BY <1>13, LenProperties DEF FlushDequeue, DataTypes
  <2>2. /\ queue' \in Seq(Records) /\ input' \in Seq(Payloads) /\ Len(input') <= 1
        /\ qmu' = Nobody /\ UNCHANGED <<overwritten, emitted, late, inputMu, closed, eStopped>>
    BY <2>1, DequeueStep
  <2> QED
    BY <1>13, <2>2 DEF FlushDequeue, DataTypes, BufferSize, pollVars,
       exportVars
<1>14. ASSUME NEW f \in Flushes, FlushRetry(f) PROVE DataTypes'
  BY <1>14, Kinds DEF FlushRetry, DataTypes, queueVars, pollVars, callVars,
     bufferVars, exportVars
<1>15. ASSUME NEW c \in Waiters, BufferLock(c) PROVE DataTypes'
  BY <1>15 DEF BufferLock, DataTypes, queueVars, pollVars, callVars,
     bufferVars, exportVars
<1>16. ASSUME NEW c \in Waiters, BufferSend(c) PROVE DataTypes'
  <2>1. input' \in Seq(Payloads) /\ Len(input') = 1
    BY <1>16, SendStep
  <2> QED
    BY <1>16, <2>1 DEF BufferSend, DataTypes, BufferSize, queueVars, pollVars,
       callVars, bufferVars, exportVars
<1>17. ASSUME NEW c \in Waiters, BufferReply(c) PROVE DataTypes'
  BY <1>17 DEF BufferReply, DataTypes, queueVars, pollVars, callVars,
     bufferVars, exportVars
<1>18. ASSUME NEW c \in Waiters, BufferTimesOut(c) PROVE DataTypes'
  BY <1>18 DEF BufferTimesOut, Released, DataTypes, queueVars, pollVars,
     callVars, bufferVars, exportVars
<1>19. ASSUME NEW s \in Shutdowns, ShutdownCall(s) PROVE DataTypes'
  BY <1>19 DEF ShutdownCall, DataTypes, queueVars, pollVars, callVars,
     bufferVars, exportVars
<1>20. ASSUME NEW s \in Shutdowns, ShutdownPollDone(s) PROVE DataTypes'
  BY <1>20 DEF ShutdownPollDone, DataTypes, queueVars, pollVars, callVars,
     bufferVars, exportVars
<1>21. ASSUME NEW s \in Shutdowns, ShutdownTimesOut(s) PROVE DataTypes'
  BY <1>21, Kinds DEF ShutdownTimesOut, DataTypes, queueVars, pollVars,
     callVars, bufferVars, exportVars
<1>22. ASSUME NEW s \in Shutdowns, ShutdownTakesQueue(s) PROVE DataTypes'
  BY <1>22 DEF ShutdownTakesQueue, DataTypes, queueVars, pollVars, callVars,
     bufferVars, exportVars
<1>23. ASSUME NEW s \in Shutdowns, StopExporter(s) PROVE DataTypes'
  BY <1>23 DEF StopExporter, DataTypes, queueVars, pollVars, callVars,
     bufferVars, exportVars
<1>24. ASSUME NEW s \in Shutdowns, CloseInput(s) PROVE DataTypes'
  BY <1>24, Kinds DEF CloseInput, DataTypes, queueVars, pollVars, callVars,
     bufferVars, exportVars
<1>25. ASSUME NEW s \in Shutdowns, ExporterStops(s) PROVE DataTypes'
  BY <1>25, Kinds DEF ExporterStops, DataTypes, queueVars, pollVars, callVars,
     bufferVars, exportVars
<1>26. ASSUME NEW s \in Shutdowns, ExporterStopped(s) PROVE DataTypes'
  BY <1>26 DEF ExporterStopped, DataTypes, queueVars, pollVars, callVars,
     bufferVars, exportVars
<1>27. ASSUME ExportReceive PROVE DataTypes'
  <2>1. data' \in Seq(Payloads) /\ Len(data') = 1 /\ input' = <<>>
    BY <1>27, ReceiveStep
  <2>2. <<>> \in Seq(Payloads) /\ Len(<<>>) = 0
    OBVIOUS
  <2> QED
    BY <1>27, <2>1, <2>2 DEF ExportReceive, DataTypes, BufferSize, queueVars,
       pollVars, callVars, bufferVars, exportVars
<1>28. ASSUME ExportChunk PROVE DataTypes'
  <2>1. /\ data' \in Seq(Payloads) /\ Len(data') = 1
        /\ exporting' \in Seq(Records) /\ exported' \in Seq(Records)
    BY <1>28, ChunkStep
  <2> QED
    BY <1>28, <2>1 DEF ExportChunk, DataTypes, queueVars, pollVars, callVars,
       bufferVars, exportVars
<1>29. ASSUME ExportRespond PROVE DataTypes'
  <2>1. data' = <<>> /\ replied' \in SUBSET Waiters
    BY <1>29, RespondStep
  <2>2. <<>> \in Seq(Payloads) /\ Len(<<>>) = 0
    OBVIOUS
  <2> QED
    BY <1>29, <2>1, <2>2 DEF ExportRespond, DataTypes, queueVars, pollVars,
       callVars, bufferVars, exportVars
<1>30. ASSUME ExportEnds PROVE DataTypes'
  BY <1>30 DEF ExportEnds, DataTypes, queueVars, pollVars, callVars,
     bufferVars, exportVars
<1>31. ASSUME ExportReturns PROVE DataTypes'
  <2>1. /\ data' \in Seq(Payloads) /\ Len(data') = 1 /\ exporting' = <<>>
        /\ exported' = exported /\ abandoned' \in SUBSET Records
    BY <1>31, ReturnStep
  <2>2. <<>> \in Seq(Records)
    OBVIOUS
  <2> QED
    BY <1>31, <2>1, <2>2 DEF ExportReturns, DataTypes, queueVars, pollVars,
       callVars, bufferVars, exportVars
<1>32. ASSUME UNCHANGED vars PROVE DataTypes'
  BY <1>32 DEF vars, DataTypes, queueVars, pollVars, callVars, bufferVars,
     exportVars
<1> QED
  BY <1>1, <1>2, <1>3, <1>4, <1>5, <1>6, <1>7, <1>8, <1>9, <1>10, <1>11,
     <1>12, <1>13, <1>14, <1>15, <1>16, <1>17, <1>18, <1>19, <1>20, <1>21,
     <1>22, <1>23, <1>24, <1>25, <1>26, <1>27, <1>28, <1>29, <1>30, <1>31,
     <1>32
     DEF Next, EmitNext, PollNext, FlushProceeds, ShutdownProceeds, BufferNext, ExportNext, Waiters

-----------------------------------------------------------------------------
(* Where the calls that use the bufferExporter go.                         *)
LEMMA BufferMove ==
  ASSUME PlacesOK, NEW c \in Waiters, BufferNext(c)
  PROVE  /\ pc[c] \in {"buffer", "send", "await"}
         /\ pc'[c] \in {"send", "await", AfterBuffer(c)}
         /\ c \in Flushes => AfterBuffer(c) = "done"
         /\ c \in Shutdowns => AfterBuffer(c) = "stopExporter"
         /\ \A d \in Calls : d # c => pc'[d] = pc[d]
<1>1. /\ c \in Flushes => AfterBuffer(c) = "done"
      /\ c \in Shutdowns => AfterBuffer(c) = "stopExporter"
  BY Kinds DEF AfterBuffer
<1>2. CASE BufferLock(c)
  BY <1>1, <1>2, MoveWaiter DEF BufferLock
<1>3. CASE BufferSend(c)
  BY <1>1, <1>3, MoveWaiter DEF BufferSend
<1>4. CASE BufferReply(c)
  BY <1>1, <1>4, MoveWaiter DEF BufferReply
<1>5. CASE BufferTimesOut(c)
  BY <1>1, <1>5, MoveWaiter DEF BufferTimesOut
<1> QED
  BY <1>2, <1>3, <1>4, <1>5 DEF BufferNext

-----------------------------------------------------------------------------
(* One Shutdown at a time. *)

LEMMA ShutMove ==
  ASSUME ShutInv, NEW s \in Shutdowns, pc[s] \notin {"idle", "ignored"},
         pc'[s] \notin {"idle", "ignored"},
         \A t \in Shutdowns : t # s => pc'[t] = pc[t], stopped' = stopped,
         timedOut' \in {timedOut, timedOut \cup {s}},
         pc'[s] \in Closing <=> eStopped', pc[s] \in Closing => pc'[s] \in Closing,
         closed' => pc'[s] \in {"drain", "exporter", "done"},
         pc'[s] \in {"exporter", "done"} <=> exporter' # "up"
  PROVE  ShutInv'
  BY DEF ShutInv, Closing

LEMMA ShutSame ==
  ASSUME ShutInv, \A s \in Shutdowns : pc'[s] = pc[s] /\ (s \in timedOut' => s \in timedOut),
         UNCHANGED <<stopped, eStopped, closed, exporter>>
  PROVE  ShutInv'
  BY DEF ShutInv

(* Every step keeps it.                                                   *)
LEMMA ShutNext ==
  PlacesOK /\ ShutInv /\ [Next]_vars => ShutInv'
<1> SUFFICES ASSUME PlacesOK, ShutInv, [Next]_vars
             PROVE  ShutInv'
  OBVIOUS
<1>1. ASSUME NEW c \in Cancellable, Cancel(c) PROVE ShutInv'
  BY <1>1, ShutSame DEF Cancel, queueVars, pollVars, callVars, bufferVars,
     exportVars
<1>2. ASSUME NEW r \in Records, EmitCheck(r) PROVE ShutInv'
  BY <1>2, MoveEmit, Kinds, ShutSame DEF EmitCheck, EmitPlaces, queueVars,
     pollVars, callVars, bufferVars, exportVars
<1>3. ASSUME NEW r \in Records, Enqueue(r) PROVE ShutInv'
  BY <1>3, MoveEmit, Kinds, ShutSame DEF Enqueue, EmitPlaces, queueVars,
     pollVars, callVars, bufferVars, exportVars
<1>4. ASSUME NEW r \in Records, EmitTrigger(r) PROVE ShutInv'
  BY <1>4, MoveEmit, Kinds, ShutSame DEF EmitTrigger, EmitPlaces, queueVars,
     pollVars, callVars, bufferVars, exportVars
<1>5. ASSUME PollTick PROVE ShutInv'
  BY <1>5, ShutSame DEF PollTick, queueVars, pollVars, callVars, bufferVars,
     exportVars
<1>6. ASSUME PollTriggered PROVE ShutInv'
  BY <1>6, ShutSame DEF PollTriggered, queueVars, pollVars, callVars,
     bufferVars, exportVars
<1>7. ASSUME PollKilled PROVE ShutInv'
  BY <1>7, ShutSame DEF PollKilled, queueVars, pollVars, callVars, bufferVars,
     exportVars
<1>8. ASSUME PollLock PROVE ShutInv'
  BY <1>8, ShutSame DEF PollLock, queueVars, pollVars, callVars, bufferVars,
     exportVars
<1>9. ASSUME PollDequeue PROVE ShutInv'
  BY <1>9, ShutSame DEF PollDequeue, TryDequeue, queueVars, pollVars,
     callVars, bufferVars, exportVars
<1>10. ASSUME PollResend PROVE ShutInv'
  BY <1>10, ShutSame DEF PollResend, queueVars, pollVars, callVars,
     bufferVars, exportVars
<1>11. ASSUME NEW f \in Flushes, FlushCall(f) PROVE ShutInv'
  BY <1>11, MoveFlush, Kinds, ShutSame DEF FlushCall, FlushPlaces, FlushNext,
     TryDequeue, queueVars, pollVars, callVars, bufferVars, exportVars
<1>12. ASSUME NEW f \in Flushes, FlushLock(f) PROVE ShutInv'
  BY <1>12, MoveFlush, Kinds, ShutSame DEF FlushLock, FlushPlaces, FlushNext,
     TryDequeue, queueVars, pollVars, callVars, bufferVars, exportVars
<1>13. ASSUME NEW f \in Flushes, FlushDequeue(f) PROVE ShutInv'
  BY <1>13, MoveFlush, Kinds, ShutSame DEF FlushDequeue, FlushPlaces,
     FlushNext, TryDequeue, queueVars, pollVars, callVars, bufferVars,
     exportVars
<1>14. ASSUME NEW f \in Flushes, FlushRetry(f) PROVE ShutInv'
  BY <1>14, MoveFlush, Kinds, ShutSame DEF FlushRetry, FlushPlaces, FlushNext,
     TryDequeue, queueVars, pollVars, callVars, bufferVars, exportVars
<1>15. ASSUME NEW c \in Waiters, BufferLock(c) PROVE ShutInv'
  <2>1. CASE c \in Flushes
    BY <1>15, <2>1, BufferMove, Kinds, ShutSame DEF BufferNext, BufferLock,
       queueVars, pollVars, callVars, bufferVars, exportVars
  <2>2. CASE c \in Shutdowns
    <3>1. /\ pc[c] \in {"buffer", "send", "await"} /\ pc'[c] \in {"send", "await", "stopExporter"}
          /\ \A d \in Calls : d # c => pc'[d] = pc[d]
      BY <1>15, <2>2, BufferMove DEF BufferNext
    <3>2. pc[c] \notin Closing /\ pc'[c] \notin Closing /\ ~eStopped /\ ~closed /\ exporter = "up"
      BY <2>2, <3>1 DEF ShutInv, Closing
    <3>3. /\ UNCHANGED <<stopped, eStopped, closed, exporter>>
          /\ timedOut' \in {timedOut, timedOut \cup {c}}
      BY <1>15 DEF BufferLock, queueVars, pollVars, callVars, bufferVars,
         exportVars
    <3> QED
      BY <2>2, <3>1, <3>2, <3>3, Kinds, ShutMove
  <2> QED
    BY <2>1, <2>2, Kinds
<1>16. ASSUME NEW c \in Waiters, BufferSend(c) PROVE ShutInv'
  <2>1. CASE c \in Flushes
    BY <1>16, <2>1, BufferMove, Kinds, ShutSame DEF BufferNext, BufferSend,
       queueVars, pollVars, callVars, bufferVars, exportVars
  <2>2. CASE c \in Shutdowns
    <3>1. /\ pc[c] \in {"buffer", "send", "await"} /\ pc'[c] \in {"send", "await", "stopExporter"}
          /\ \A d \in Calls : d # c => pc'[d] = pc[d]
      BY <1>16, <2>2, BufferMove DEF BufferNext
    <3>2. pc[c] \notin Closing /\ pc'[c] \notin Closing /\ ~eStopped /\ ~closed /\ exporter = "up"
      BY <2>2, <3>1 DEF ShutInv, Closing
    <3>3. /\ UNCHANGED <<stopped, eStopped, closed, exporter>>
          /\ timedOut' \in {timedOut, timedOut \cup {c}}
      BY <1>16 DEF BufferSend, queueVars, pollVars, callVars, bufferVars,
         exportVars
    <3> QED
      BY <2>2, <3>1, <3>2, <3>3, Kinds, ShutMove
  <2> QED
    BY <2>1, <2>2, Kinds
<1>17. ASSUME NEW c \in Waiters, BufferReply(c) PROVE ShutInv'
  <2>1. CASE c \in Flushes
    BY <1>17, <2>1, BufferMove, Kinds, ShutSame DEF BufferNext, BufferReply,
       queueVars, pollVars, callVars, bufferVars, exportVars
  <2>2. CASE c \in Shutdowns
    <3>1. /\ pc[c] \in {"buffer", "send", "await"} /\ pc'[c] \in {"send", "await", "stopExporter"}
          /\ \A d \in Calls : d # c => pc'[d] = pc[d]
      BY <1>17, <2>2, BufferMove DEF BufferNext
    <3>2. pc[c] \notin Closing /\ pc'[c] \notin Closing /\ ~eStopped /\ ~closed /\ exporter = "up"
      BY <2>2, <3>1 DEF ShutInv, Closing
    <3>3. /\ UNCHANGED <<stopped, eStopped, closed, exporter>>
          /\ timedOut' \in {timedOut, timedOut \cup {c}}
      BY <1>17 DEF BufferReply, queueVars, pollVars, callVars, bufferVars,
         exportVars
    <3> QED
      BY <2>2, <3>1, <3>2, <3>3, Kinds, ShutMove
  <2> QED
    BY <2>1, <2>2, Kinds
<1>18. ASSUME NEW c \in Waiters, BufferTimesOut(c) PROVE ShutInv'
  <2>1. CASE c \in Flushes
    BY <1>18, <2>1, BufferMove, Kinds, ShutSame DEF BufferNext,
       BufferTimesOut, queueVars, pollVars, callVars, bufferVars, exportVars
  <2>2. CASE c \in Shutdowns
    <3>1. /\ pc[c] \in {"buffer", "send", "await"} /\ pc'[c] \in {"send", "await", "stopExporter"}
          /\ \A d \in Calls : d # c => pc'[d] = pc[d]
      BY <1>18, <2>2, BufferMove DEF BufferNext
    <3>2. pc[c] \notin Closing /\ pc'[c] \notin Closing /\ ~eStopped /\ ~closed /\ exporter = "up"
      BY <2>2, <3>1 DEF ShutInv, Closing
    <3>3. /\ UNCHANGED <<stopped, eStopped, closed, exporter>>
          /\ timedOut' \in {timedOut, timedOut \cup {c}}
      BY <1>18 DEF BufferTimesOut, queueVars, pollVars, callVars, bufferVars,
         exportVars
    <3> QED
      BY <2>2, <3>1, <3>2, <3>3, Kinds, ShutMove
  <2> QED
    BY <2>1, <2>2, Kinds
<1>19. ASSUME NEW s \in Shutdowns, ShutdownCall(s) PROVE ShutInv'
  <2>1. /\ \A d \in Calls : d # s => pc'[d] = pc[d]
        /\ pc[s] = "idle" /\ pc'[s] = IF stopped THEN "ignored" ELSE "pollDone"
    BY <1>19, MoveShutdown DEF ShutdownCall, ShutdownPlaces
  <2>2. stopped' /\ UNCHANGED <<timedOut, eStopped, closed, exporter>>
    BY <1>19 DEF ShutdownCall, bufferVars
  <2>3. stopped \/ \A t \in Shutdowns : pc[t] \in {"idle", "ignored"}
    BY DEF ShutInv
  <2> QED
    BY <2>1, <2>2, <2>3, Kinds DEF ShutInv, Closing
<1>20. ASSUME NEW s \in Shutdowns, ShutdownPollDone(s) PROVE ShutInv'
  <2>1. /\ \A t \in Shutdowns : t # s => pc'[t] = pc[t]
        /\ pc[s] \notin {"idle", "ignored"} /\ pc'[s] \notin {"idle", "ignored"}
    BY <1>20, MoveShutdown, Kinds DEF ShutdownPollDone, ShutdownPlaces
  <2>2. /\ stopped' = stopped /\ timedOut' \in {timedOut, timedOut \cup {s}}
    BY <1>20 DEF ShutdownPollDone, queueVars, pollVars, callVars, bufferVars,
       exportVars
  <2>3. /\ pc'[s] \in Closing <=> eStopped'
        /\ pc[s] \in Closing => pc'[s] \in Closing
        /\ closed' => pc'[s] \in {"drain", "exporter", "done"}
        /\ pc'[s] \in {"exporter", "done"} <=> exporter' # "up"
    BY <1>20, MoveShutdown DEF ShutdownPollDone, ShutInv, ShutdownPlaces,
       Closing, queueVars, pollVars, callVars, bufferVars, exportVars
  <2> QED
    BY <2>1, <2>2, <2>3, ShutMove
<1>21. ASSUME NEW s \in Shutdowns, ShutdownTimesOut(s) PROVE ShutInv'
  <2>1. /\ \A t \in Shutdowns : t # s => pc'[t] = pc[t]
        /\ pc[s] \notin {"idle", "ignored"} /\ pc'[s] \notin {"idle", "ignored"}
    BY <1>21, MoveShutdown, Kinds DEF ShutdownTimesOut, ShutdownPlaces
  <2>2. /\ stopped' = stopped /\ timedOut' \in {timedOut, timedOut \cup {s}}
    BY <1>21 DEF ShutdownTimesOut, queueVars, pollVars, callVars, bufferVars,
       exportVars
  <2>3. /\ pc'[s] \in Closing <=> eStopped'
        /\ pc[s] \in Closing => pc'[s] \in Closing
        /\ closed' => pc'[s] \in {"drain", "exporter", "done"}
        /\ pc'[s] \in {"exporter", "done"} <=> exporter' # "up"
    BY <1>21, MoveShutdown DEF ShutdownTimesOut, ShutInv, ShutdownPlaces,
       Closing, queueVars, pollVars, callVars, bufferVars, exportVars
  <2> QED
    BY <2>1, <2>2, <2>3, ShutMove
<1>22. ASSUME NEW s \in Shutdowns, ShutdownTakesQueue(s) PROVE ShutInv'
  <2>1. /\ \A t \in Shutdowns : t # s => pc'[t] = pc[t]
        /\ pc[s] \notin {"idle", "ignored"} /\ pc'[s] \notin {"idle", "ignored"}
    BY <1>22, MoveShutdown, Kinds DEF ShutdownTakesQueue, ShutdownPlaces
  <2>2. /\ stopped' = stopped /\ timedOut' \in {timedOut, timedOut \cup {s}}
    BY <1>22 DEF ShutdownTakesQueue, queueVars, pollVars, callVars,
       bufferVars, exportVars
  <2>3. /\ pc'[s] \in Closing <=> eStopped'
        /\ pc[s] \in Closing => pc'[s] \in Closing
        /\ closed' => pc'[s] \in {"drain", "exporter", "done"}
        /\ pc'[s] \in {"exporter", "done"} <=> exporter' # "up"
    BY <1>22, MoveShutdown DEF ShutdownTakesQueue, ShutInv, ShutdownPlaces,
       Closing, queueVars, pollVars, callVars, bufferVars, exportVars
  <2> QED
    BY <2>1, <2>2, <2>3, ShutMove
<1>23. ASSUME NEW s \in Shutdowns, StopExporter(s) PROVE ShutInv'
  <2>1. /\ \A t \in Shutdowns : t # s => pc'[t] = pc[t]
        /\ pc[s] \notin {"idle", "ignored"} /\ pc'[s] \notin {"idle", "ignored"}
    BY <1>23, MoveShutdown, Kinds DEF StopExporter, ShutdownPlaces
  <2>2. /\ stopped' = stopped /\ timedOut' \in {timedOut, timedOut \cup {s}}
    BY <1>23 DEF StopExporter, queueVars, pollVars, callVars, bufferVars,
       exportVars
  <2>3. /\ pc'[s] \in Closing <=> eStopped'
        /\ pc[s] \in Closing => pc'[s] \in Closing
        /\ closed' => pc'[s] \in {"drain", "exporter", "done"}
        /\ pc'[s] \in {"exporter", "done"} <=> exporter' # "up"
    BY <1>23, MoveShutdown DEF StopExporter, ShutInv, ShutdownPlaces, Closing,
       queueVars, pollVars, callVars, bufferVars, exportVars
  <2> QED
    BY <2>1, <2>2, <2>3, ShutMove
<1>24. ASSUME NEW s \in Shutdowns, CloseInput(s) PROVE ShutInv'
  <2>1. /\ \A t \in Shutdowns : t # s => pc'[t] = pc[t]
        /\ pc[s] \notin {"idle", "ignored"} /\ pc'[s] \notin {"idle", "ignored"}
    BY <1>24, MoveShutdown, Kinds DEF CloseInput, ShutdownPlaces
  <2>2. /\ stopped' = stopped /\ timedOut' \in {timedOut, timedOut \cup {s}}
    BY <1>24 DEF CloseInput, queueVars, pollVars, callVars, bufferVars,
       exportVars
  <2>3. /\ pc'[s] \in Closing <=> eStopped'
        /\ pc[s] \in Closing => pc'[s] \in Closing
        /\ closed' => pc'[s] \in {"drain", "exporter", "done"}
        /\ pc'[s] \in {"exporter", "done"} <=> exporter' # "up"
    BY <1>24, MoveShutdown DEF CloseInput, ShutInv, ShutdownPlaces, Closing,
       queueVars, pollVars, callVars, bufferVars, exportVars
  <2> QED
    BY <2>1, <2>2, <2>3, ShutMove
<1>25. ASSUME NEW s \in Shutdowns, ExporterStops(s) PROVE ShutInv'
  <2>1. /\ \A t \in Shutdowns : t # s => pc'[t] = pc[t]
        /\ pc[s] \notin {"idle", "ignored"} /\ pc'[s] \notin {"idle", "ignored"}
    BY <1>25, MoveShutdown, Kinds DEF ExporterStops, ShutdownPlaces
  <2>2. /\ stopped' = stopped /\ timedOut' \in {timedOut, timedOut \cup {s}}
    BY <1>25 DEF ExporterStops, queueVars, pollVars, callVars, bufferVars,
       exportVars
  <2>3. /\ pc'[s] \in Closing <=> eStopped'
        /\ pc[s] \in Closing => pc'[s] \in Closing
        /\ closed' => pc'[s] \in {"drain", "exporter", "done"}
        /\ pc'[s] \in {"exporter", "done"} <=> exporter' # "up"
    BY <1>25, MoveShutdown DEF ExporterStops, ShutInv, ShutdownPlaces,
       Closing, queueVars, pollVars, callVars, bufferVars, exportVars
  <2> QED
    BY <2>1, <2>2, <2>3, ShutMove
<1>26. ASSUME NEW s \in Shutdowns, ExporterStopped(s) PROVE ShutInv'
  <2>1. /\ \A t \in Shutdowns : t # s => pc'[t] = pc[t]
        /\ pc[s] \notin {"idle", "ignored"} /\ pc'[s] \notin {"idle", "ignored"}
    BY <1>26, MoveShutdown, Kinds DEF ExporterStopped, ShutdownPlaces
  <2>2. /\ stopped' = stopped /\ timedOut' \in {timedOut, timedOut \cup {s}}
    BY <1>26 DEF ExporterStopped, queueVars, pollVars, callVars, bufferVars,
       exportVars
  <2>3. /\ pc'[s] \in Closing <=> eStopped'
        /\ pc[s] \in Closing => pc'[s] \in Closing
        /\ closed' => pc'[s] \in {"drain", "exporter", "done"}
        /\ pc'[s] \in {"exporter", "done"} <=> exporter' # "up"
    BY <1>26, MoveShutdown DEF ExporterStopped, ShutInv, ShutdownPlaces,
       Closing, queueVars, pollVars, callVars, bufferVars, exportVars
  <2> QED
    BY <2>1, <2>2, <2>3, ShutMove
<1>27. ASSUME ExportReceive PROVE ShutInv'
  BY <1>27, ShutSame DEF ExportReceive, queueVars, pollVars, callVars,
     bufferVars, exportVars
<1>28. ASSUME ExportChunk PROVE ShutInv'
  BY <1>28, ShutSame DEF ExportChunk, queueVars, pollVars, callVars,
     bufferVars, exportVars
<1>29. ASSUME ExportRespond PROVE ShutInv'
  BY <1>29, ShutSame DEF ExportRespond, queueVars, pollVars, callVars,
     bufferVars, exportVars
<1>30. ASSUME ExportEnds PROVE ShutInv'
  BY <1>30, ShutSame DEF ExportEnds, queueVars, pollVars, callVars,
     bufferVars, exportVars
<1>31. ASSUME ExportReturns PROVE ShutInv'
  BY <1>31, ShutSame DEF ExportReturns, queueVars, pollVars, callVars,
     bufferVars, exportVars
<1>32. ASSUME UNCHANGED vars PROVE ShutInv'
  BY <1>32 DEF vars, ShutInv, Closing, queueVars, pollVars, callVars,
     bufferVars, exportVars
<1> QED
  BY <1>1, <1>2, <1>3, <1>4, <1>5, <1>6, <1>7, <1>8, <1>9, <1>10, <1>11,
     <1>12, <1>13, <1>14, <1>15, <1>16, <1>17, <1>18, <1>19, <1>20, <1>21,
     <1>22, <1>23, <1>24, <1>25, <1>26, <1>27, <1>28, <1>29, <1>30, <1>31,
     <1>32
     DEF Next, EmitNext, PollNext, FlushProceeds, ShutdownProceeds, BufferNext, ExportNext, Waiters

-----------------------------------------------------------------------------
(* The lock of the channel. *)

LEMMA InputSame ==
  ASSUME InputInv, \A c \in Waiters : pc'[c] = pc[c], UNCHANGED <<inputMu, closed>>
  PROVE  InputInv'
  BY Kinds DEF InputInv

LEMMA InputMove ==
  ASSUME InputInv, NEW c \in Waiters, \A d \in Waiters : d # c => pc'[d] = pc[d],
         pc'[c] \notin {"send", "drain", "exporter"}, UNCHANGED <<inputMu, closed>>
  PROVE  InputInv'
  BY Kinds DEF InputInv

(* Every step keeps the rules of the lock.                                 *)
LEMMA InputNext ==
  PlacesOK /\ ShutInv /\ InputInv /\ [Next]_vars => InputInv'
<1> SUFFICES ASSUME PlacesOK, ShutInv, InputInv, [Next]_vars
             PROVE  InputInv'
  OBVIOUS
<1>1. ASSUME NEW c \in Cancellable, Cancel(c) PROVE InputInv'
  BY <1>1, InputSame DEF Cancel, queueVars, pollVars, callVars, bufferVars,
     exportVars
<1>2. ASSUME NEW r \in Records, EmitCheck(r) PROVE InputInv'
  BY <1>2, MoveEmit, Kinds, InputSame DEF EmitCheck, EmitPlaces, queueVars,
     pollVars, callVars, bufferVars, exportVars
<1>3. ASSUME NEW r \in Records, Enqueue(r) PROVE InputInv'
  BY <1>3, MoveEmit, Kinds, InputSame DEF Enqueue, EmitPlaces, queueVars,
     pollVars, callVars, bufferVars, exportVars
<1>4. ASSUME NEW r \in Records, EmitTrigger(r) PROVE InputInv'
  BY <1>4, MoveEmit, Kinds, InputSame DEF EmitTrigger, EmitPlaces, queueVars,
     pollVars, callVars, bufferVars, exportVars
<1>5. ASSUME PollTick PROVE InputInv'
  BY <1>5, InputSame DEF PollTick, queueVars, pollVars, callVars, bufferVars,
     exportVars
<1>6. ASSUME PollTriggered PROVE InputInv'
  BY <1>6, InputSame DEF PollTriggered, queueVars, pollVars, callVars,
     bufferVars, exportVars
<1>7. ASSUME PollKilled PROVE InputInv'
  BY <1>7, InputSame DEF PollKilled, queueVars, pollVars, callVars,
     bufferVars, exportVars
<1>8. ASSUME PollLock PROVE InputInv'
  BY <1>8, InputSame DEF PollLock, queueVars, pollVars, callVars, bufferVars,
     exportVars
<1>9. ASSUME PollDequeue PROVE InputInv'
  BY <1>9, InputSame DEF PollDequeue, TryDequeue, queueVars, pollVars,
     callVars, bufferVars, exportVars
<1>10. ASSUME PollResend PROVE InputInv'
  BY <1>10, InputSame DEF PollResend, queueVars, pollVars, callVars,
     bufferVars, exportVars
<1>11. ASSUME NEW f \in Flushes, FlushCall(f) PROVE InputInv'
  BY <1>11, MoveFlush, Kinds, InputMove DEF FlushCall, FlushPlaces, FlushNext,
     TryDequeue, queueVars, pollVars, callVars, bufferVars, exportVars
<1>12. ASSUME NEW f \in Flushes, FlushLock(f) PROVE InputInv'
  BY <1>12, MoveFlush, Kinds, InputMove DEF FlushLock, FlushPlaces, FlushNext,
     TryDequeue, queueVars, pollVars, callVars, bufferVars, exportVars
<1>13. ASSUME NEW f \in Flushes, FlushDequeue(f) PROVE InputInv'
  BY <1>13, MoveFlush, Kinds, InputMove DEF FlushDequeue, FlushPlaces,
     FlushNext, TryDequeue, queueVars, pollVars, callVars, bufferVars,
     exportVars
<1>14. ASSUME NEW f \in Flushes, FlushRetry(f) PROVE InputInv'
  BY <1>14, MoveFlush, Kinds, InputMove DEF FlushRetry, FlushPlaces,
     FlushNext, TryDequeue, queueVars, pollVars, callVars, bufferVars,
     exportVars
<1>15. ASSUME NEW c \in Waiters, BufferLock(c) PROVE InputInv'
  <2>1. /\ pc'[c] \in {"send", "await", AfterBuffer(c)} /\ pc[c] \in {"buffer", "send", "await"}
        /\ AfterBuffer(c) \in {"done", "stopExporter"}
        /\ \A d \in Waiters : d # c => pc'[d] = pc[d]
    BY <1>15, BufferMove, Kinds DEF BufferNext
  <2>2. closed => eStopped
    BY DEF ShutInv, Closing
  <2>3. closed' = closed /\ pc[c] = "buffer" /\ InputFree
    BY <1>15 DEF BufferLock
  <2>4. CASE eStopped
    <3>1. pc'[c] = AfterBuffer(c) /\ inputMu' = inputMu
      BY <1>15, <2>4, MoveWaiter DEF BufferLock
    <3> QED
      BY <2>1, <2>3, <3>1, InputMove
  <2>5. CASE ~eStopped
    <3>1. pc'[c] = "send" /\ inputMu' = c
      BY <1>15, <2>5, MoveWaiter DEF BufferLock
    <3>2. \A d \in Waiters : pc[d] \notin {"send", "drain", "exporter"} \/ d \in Flushes
      BY <2>3, Kinds DEF InputInv, InputFree
    <3> QED
      BY <2>1, <2>2, <2>3, <2>5, <3>1, <3>2, Kinds DEF InputInv, InputFree
  <2> QED
    BY <2>4, <2>5
<1>16. ASSUME NEW c \in Waiters, BufferSend(c) PROVE InputInv'
  <2>1. /\ pc'[c] \in {"send", "await", AfterBuffer(c)} /\ pc[c] \in {"buffer", "send", "await"}
        /\ AfterBuffer(c) \in {"done", "stopExporter"}
        /\ \A d \in Waiters : d # c => pc'[d] = pc[d]
    BY <1>16, BufferMove, Kinds DEF BufferNext
  <2>2. closed => eStopped
    BY DEF ShutInv, Closing
  <2>3. closed' = closed /\ pc[c] = "send" /\ pc'[c] = "await"
    BY <1>16, MoveWaiter DEF BufferSend
  <2>4. inputMu = c
    BY <2>3 DEF InputInv
  <2> QED
    BY <2>1, <2>3, <2>4, Kinds DEF InputInv
<1>17. ASSUME NEW c \in Waiters, BufferReply(c) PROVE InputInv'
  <2>1. /\ pc'[c] \in {"send", "await", AfterBuffer(c)} /\ pc[c] \in {"buffer", "send", "await"}
        /\ AfterBuffer(c) \in {"done", "stopExporter"}
        /\ \A d \in Waiters : d # c => pc'[d] = pc[d]
    BY <1>17, BufferMove, Kinds DEF BufferNext
  <2>2. closed => eStopped
    BY DEF ShutInv, Closing
  <2>3. UNCHANGED <<closed, inputMu>> /\ pc'[c] = AfterBuffer(c)
    BY <1>17, MoveWaiter DEF BufferReply, bufferVars
  <2> QED
    BY <2>1, <2>3, InputMove
<1>18. ASSUME NEW c \in Waiters, BufferTimesOut(c) PROVE InputInv'
  <2>1. /\ pc'[c] \in {"send", "await", AfterBuffer(c)} /\ pc[c] \in {"buffer", "send", "await"}
        /\ AfterBuffer(c) \in {"done", "stopExporter"}
        /\ \A d \in Waiters : d # c => pc'[d] = pc[d]
    BY <1>18, BufferMove, Kinds DEF BufferNext
  <2>2. closed => eStopped
    BY DEF ShutInv, Closing
  <2>3. closed' = closed /\ pc'[c] = AfterBuffer(c) /\ inputMu' = Released(c)
    BY <1>18, MoveWaiter DEF BufferTimesOut
  <2> QED
    BY <2>1, <2>3, Kinds DEF InputInv, Released
<1>19. ASSUME NEW s \in Shutdowns, ShutdownCall(s) PROVE InputInv'
  BY <1>19, MoveShutdown, Kinds, InputMove DEF ShutdownCall, ShutdownPlaces,
     queueVars, pollVars, callVars, bufferVars, exportVars
<1>20. ASSUME NEW s \in Shutdowns, ShutdownPollDone(s) PROVE InputInv'
  BY <1>20, MoveShutdown, Kinds, InputMove DEF ShutdownPollDone,
     ShutdownPlaces, queueVars, pollVars, callVars, bufferVars, exportVars
<1>21. ASSUME NEW s \in Shutdowns, ShutdownTimesOut(s) PROVE InputInv'
  BY <1>21, MoveShutdown, Kinds, InputMove DEF ShutdownTimesOut,
     ShutdownPlaces, queueVars, pollVars, callVars, bufferVars, exportVars
<1>22. ASSUME NEW s \in Shutdowns, ShutdownTakesQueue(s) PROVE InputInv'
  BY <1>22, MoveShutdown, Kinds, InputMove DEF ShutdownTakesQueue,
     ShutdownPlaces, queueVars, pollVars, callVars, bufferVars, exportVars
<1>23. ASSUME NEW s \in Shutdowns, StopExporter(s) PROVE InputInv'
  BY <1>23, MoveShutdown, Kinds, InputMove DEF StopExporter, ShutdownPlaces,
     queueVars, pollVars, callVars, bufferVars, exportVars
<1>24. ASSUME NEW s \in Shutdowns, CloseInput(s) PROVE InputInv'
  <2>1. \A d \in Waiters : d # s => pc'[d] = pc[d]
    BY <1>24, MoveShutdown, Kinds DEF CloseInput, ShutdownPlaces
  <2>2. pc'[s] = "drain" /\ inputMu' = s /\ inputMu = Nobody
    BY <1>24, MoveShutdown DEF CloseInput, ShutdownPlaces, InputFree
  <2>3. \A d \in Waiters : pc[d] # "send" /\ (d \in Shutdowns => pc[d] \notin {"drain", "exporter"})
    BY <2>2, Kinds DEF InputInv
  <2> QED
    BY <2>1, <2>2, <2>3, Kinds DEF InputInv
<1>25. ASSUME NEW s \in Shutdowns, ExporterStops(s) PROVE InputInv'
  <2>1. \A d \in Waiters : d # s => pc'[d] = pc[d]
    BY <1>25, MoveShutdown, Kinds DEF ExporterStops, ShutdownPlaces
  <2>2. pc[s] = "drain" /\ pc'[s] = "exporter" /\ UNCHANGED <<inputMu, closed>>
    BY <1>25, MoveShutdown DEF ExporterStops, ShutdownPlaces, bufferVars
  <2> QED
    BY <2>1, <2>2, Kinds DEF InputInv
<1>26. ASSUME NEW s \in Shutdowns, ExporterStopped(s) PROVE InputInv'
  <2>1. \A d \in Waiters : d # s => pc'[d] = pc[d]
    BY <1>26, MoveShutdown, Kinds DEF ExporterStopped, ShutdownPlaces
  <2>2. pc[s] = "exporter" /\ pc'[s] = "done" /\ closed' = closed
    BY <1>26, MoveShutdown DEF ExporterStopped, ShutdownPlaces
  <2>3. inputMu = s
    BY <2>2 DEF InputInv
  <2> QED
    BY <2>1, <2>2, <2>3, Kinds DEF InputInv
<1>27. ASSUME ExportReceive PROVE InputInv'
  BY <1>27, InputSame DEF ExportReceive, queueVars, pollVars, callVars,
     bufferVars, exportVars
<1>28. ASSUME ExportChunk PROVE InputInv'
  BY <1>28, InputSame DEF ExportChunk, queueVars, pollVars, callVars,
     bufferVars, exportVars
<1>29. ASSUME ExportRespond PROVE InputInv'
  BY <1>29, InputSame DEF ExportRespond, queueVars, pollVars, callVars,
     bufferVars, exportVars
<1>30. ASSUME ExportEnds PROVE InputInv'
  BY <1>30, InputSame DEF ExportEnds, queueVars, pollVars, callVars,
     bufferVars, exportVars
<1>31. ASSUME ExportReturns PROVE InputInv'
  BY <1>31, InputSame DEF ExportReturns, queueVars, pollVars, callVars,
     bufferVars, exportVars
<1>32. ASSUME UNCHANGED vars PROVE InputInv'
  BY <1>32 DEF vars, InputInv, queueVars, pollVars, callVars, bufferVars,
     exportVars
<1> QED
  BY <1>1, <1>2, <1>3, <1>4, <1>5, <1>6, <1>7, <1>8, <1>9, <1>10, <1>11,
     <1>12, <1>13, <1>14, <1>15, <1>16, <1>17, <1>18, <1>19, <1>20, <1>21,
     <1>22, <1>23, <1>24, <1>25, <1>26, <1>27, <1>28, <1>29, <1>30, <1>31,
     <1>32
     DEF Next, EmitNext, PollNext, FlushProceeds, ShutdownProceeds, BufferNext, ExportNext, Waiters

-----------------------------------------------------------------------------
(* The export goroutine. *)

LEMMA ExportSame ==
  ASSUME ExportInv, UNCHANGED <<exporting, data, expDone, closed, input, exporter>>,
         timedOut \subseteq timedOut'
  PROVE  ExportInv'
  BY DEF ExportInv, ShutdownTimedOut

(* Nothing is put into the channel once it is closed.                      *)
LEMMA ExportInput ==
  ASSUME ExportInv, UNCHANGED <<exporting, data, expDone, closed, exporter>>,
         timedOut \subseteq timedOut', ~closed
  PROVE  ExportInv'
  BY DEF ExportInv, ShutdownTimedOut

(* Every step keeps the rules of the export goroutine.                     *)
LEMMA ExportInvNext ==
  DataTypes /\ PlacesOK /\ ShutInv /\ InputInv /\ ExportInv /\ [Next]_vars => ExportInv'
<1> SUFFICES ASSUME DataTypes, PlacesOK, ShutInv, InputInv, ExportInv, [Next]_vars
             PROVE  ExportInv'
  OBVIOUS
<1>1. ASSUME NEW c \in Cancellable, Cancel(c) PROVE ExportInv'
  BY <1>1, ExportSame DEF Cancel, queueVars, pollVars, callVars, bufferVars,
     exportVars
<1>2. ASSUME NEW r \in Records, EmitCheck(r) PROVE ExportInv'
  BY <1>2, ExportSame DEF EmitCheck, queueVars, pollVars, callVars,
     bufferVars, exportVars
<1>3. ASSUME NEW r \in Records, Enqueue(r) PROVE ExportInv'
  BY <1>3, ExportSame DEF Enqueue, queueVars, pollVars, callVars, bufferVars,
     exportVars
<1>4. ASSUME NEW r \in Records, EmitTrigger(r) PROVE ExportInv'
  BY <1>4, ExportSame DEF EmitTrigger, queueVars, pollVars, callVars,
     bufferVars, exportVars
<1>5. ASSUME PollTick PROVE ExportInv'
  BY <1>5, ExportSame DEF PollTick, queueVars, pollVars, callVars, bufferVars,
     exportVars
<1>6. ASSUME PollTriggered PROVE ExportInv'
  BY <1>6, ExportSame DEF PollTriggered, queueVars, pollVars, callVars,
     bufferVars, exportVars
<1>7. ASSUME PollKilled PROVE ExportInv'
  BY <1>7, ExportSame DEF PollKilled, queueVars, pollVars, callVars,
     bufferVars, exportVars
<1>8. ASSUME PollLock PROVE ExportInv'
  BY <1>8, ExportSame DEF PollLock, queueVars, pollVars, callVars, bufferVars,
     exportVars
<1>9. ASSUME PollDequeue PROVE ExportInv'
  <2>1. PICK n \in 0 .. Len(queue) : TryDequeue(Poll, n)
    <3>1. Len(queue) \in Nat
      BY LenProperties DEF DataTypes
    <3> QED
      BY <1>9, <3>1, ChunkSize DEF PollDequeue
  <2>2. UNCHANGED <<closed, exporting, data, expDone, exporter, timedOut>>
    BY <1>9, <2>1, DequeueStep DEF PollDequeue, exportVars, callVars
  <2>3. input' = input \/ ~eStopped
    BY <2>1, DequeueStep
  <2>4. closed => eStopped
    BY DEF ShutInv, Closing
  <2> QED
    BY <2>2, <2>3, <2>4, ExportSame, ExportInput
<1>10. ASSUME PollResend PROVE ExportInv'
  BY <1>10, ExportSame DEF PollResend, queueVars, pollVars, callVars,
     bufferVars, exportVars
<1>11. ASSUME NEW f \in Flushes, FlushCall(f) PROVE ExportInv'
  BY <1>11, ExportSame DEF FlushCall, queueVars, pollVars, callVars,
     bufferVars, exportVars
<1>12. ASSUME NEW f \in Flushes, FlushLock(f) PROVE ExportInv'
  BY <1>12, ExportSame DEF FlushLock, queueVars, pollVars, callVars,
     bufferVars, exportVars
<1>13. ASSUME NEW f \in Flushes, FlushDequeue(f) PROVE ExportInv'
  <2>1. Len(queue) \in 0 .. Len(queue) /\ TryDequeue(f, Len(queue))
    BY <1>13, LenProperties DEF FlushDequeue, DataTypes
  <2>2. UNCHANGED <<closed, exporting, data, expDone, exporter, timedOut>>
    BY <1>13, <2>1, DequeueStep DEF FlushDequeue, exportVars, callVars
  <2>3. input' = input \/ ~eStopped
    BY <2>1, DequeueStep
  <2>4. closed => eStopped
    BY DEF ShutInv, Closing
  <2> QED
    BY <2>2, <2>3, <2>4, ExportSame, ExportInput
<1>14. ASSUME NEW f \in Flushes, FlushRetry(f) PROVE ExportInv'
  BY <1>14, ExportSame DEF FlushRetry, queueVars, pollVars, callVars,
     bufferVars, exportVars
<1>15. ASSUME NEW c \in Waiters, BufferLock(c) PROVE ExportInv'
  BY <1>15, ExportSame DEF BufferLock, queueVars, pollVars, callVars,
     bufferVars, exportVars
<1>16. ASSUME NEW c \in Waiters, BufferSend(c) PROVE ExportInv'
  <2>1. UNCHANGED <<closed, exporting, data, expDone, exporter, timedOut>> /\ pc[c] = "send"
    BY <1>16 DEF BufferSend, exportVars, callVars
  <2> QED
    BY <2>1, ExportInput DEF InputInv
<1>17. ASSUME NEW c \in Waiters, BufferReply(c) PROVE ExportInv'
  BY <1>17, ExportSame DEF BufferReply, queueVars, pollVars, callVars,
     bufferVars, exportVars
<1>18. ASSUME NEW c \in Waiters, BufferTimesOut(c) PROVE ExportInv'
  BY <1>18, ExportSame DEF BufferTimesOut, queueVars, pollVars, callVars,
     bufferVars, exportVars
<1>19. ASSUME NEW s \in Shutdowns, ShutdownCall(s) PROVE ExportInv'
  BY <1>19, ExportSame DEF ShutdownCall, queueVars, pollVars, callVars,
     bufferVars, exportVars
<1>20. ASSUME NEW s \in Shutdowns, ShutdownPollDone(s) PROVE ExportInv'
  BY <1>20, ExportSame DEF ShutdownPollDone, queueVars, pollVars, callVars,
     bufferVars, exportVars
<1>21. ASSUME NEW s \in Shutdowns, ShutdownTimesOut(s) PROVE ExportInv'
  BY <1>21, ExportSame DEF ShutdownTimesOut, queueVars, pollVars, callVars,
     bufferVars, exportVars
<1>22. ASSUME NEW s \in Shutdowns, ShutdownTakesQueue(s) PROVE ExportInv'
  BY <1>22, ExportSame DEF ShutdownTakesQueue, queueVars, pollVars, callVars,
     bufferVars, exportVars
<1>23. ASSUME NEW s \in Shutdowns, StopExporter(s) PROVE ExportInv'
  BY <1>23, ExportSame DEF StopExporter, queueVars, pollVars, callVars,
     bufferVars, exportVars
<1>24. ASSUME NEW s \in Shutdowns, CloseInput(s) PROVE ExportInv'
  <2>1. UNCHANGED <<exporting, data, expDone, input, timedOut, exporter>> /\ closed'
    BY <1>24 DEF CloseInput, exportVars
  <2> QED
    BY <2>1 DEF ExportInv, ShutdownTimedOut
<1>25. ASSUME NEW s \in Shutdowns, ExporterStops(s) PROVE ExportInv'
  <2>1. /\ UNCHANGED <<closed, exporting, data, expDone, input>> /\ exporter' # "up"
        /\ expDone \/ s \in timedOut'
    BY <1>25 DEF ExporterStops, InputDrained, exportVars, bufferVars
  <2> QED
    BY <2>1 DEF ExportInv, ShutdownTimedOut
<1>26. ASSUME NEW s \in Shutdowns, ExporterStopped(s) PROVE ExportInv'
  <2>1. UNCHANGED <<closed, exporting, data, expDone, input, timedOut>> /\ exporter # "up"
    BY <1>26 DEF ExporterStopped, ShutInv, exportVars
  <2> QED
    BY <2>1 DEF ExportInv, ShutdownTimedOut
<1>27. ASSUME ExportReceive PROVE ExportInv'
  <2>1. data' # <<>> /\ input # <<>> /\ UNCHANGED <<exporting, expDone, closed, exporter, timedOut>>
    BY <1>27, ReceiveStep DEF ExportReceive, callVars
  <2> QED
    BY <2>1 DEF ExportInv, ShutdownTimedOut
<1>28. ASSUME ExportChunk PROVE ExportInv'
  <2>1. /\ data # <<>> /\ data' # <<>>
        /\ UNCHANGED <<input, expDone, closed, exporter, timedOut>>
    BY <1>28, ChunkStep DEF ExportChunk, callVars, bufferVars
  <2> QED
    BY <2>1 DEF ExportInv, ShutdownTimedOut
<1>29. ASSUME ExportRespond PROVE ExportInv'
  <2>1. /\ data # <<>> /\ exporting' = <<>>
        /\ UNCHANGED <<input, expDone, closed, exporter, timedOut>>
    BY <1>29, RespondStep DEF ExportRespond, callVars, bufferVars
  <2> QED
    BY <2>1 DEF ExportInv, ShutdownTimedOut
<1>30. ASSUME ExportEnds PROVE ExportInv'
  <2>1. closed /\ input = <<>> /\ data = <<>> /\ UNCHANGED <<closed, input, data, exporting>> /\ expDone'
    BY <1>30 DEF ExportEnds, bufferVars
  <2> QED
    BY <2>1 DEF ExportInv, ShutdownTimedOut
<1>31. ASSUME ExportReturns PROVE ExportInv'
  <2>1. /\ data # <<>> /\ data' # <<>> /\ exporting' = <<>>
        /\ UNCHANGED <<input, expDone, closed, exporter, timedOut>>
    BY <1>31, ReturnStep DEF ExportReturns, callVars, bufferVars
  <2> QED
    BY <2>1 DEF ExportInv, ShutdownTimedOut
<1>32. ASSUME UNCHANGED vars PROVE ExportInv'
  BY <1>32 DEF vars, ExportInv, ShutdownTimedOut, queueVars, pollVars,
     callVars, bufferVars, exportVars
<1> QED
  BY <1>1, <1>2, <1>3, <1>4, <1>5, <1>6, <1>7, <1>8, <1>9, <1>10, <1>11,
     <1>12, <1>13, <1>14, <1>15, <1>16, <1>17, <1>18, <1>19, <1>20, <1>21,
     <1>22, <1>23, <1>24, <1>25, <1>26, <1>27, <1>28, <1>29, <1>30, <1>31,
     <1>32
     DEF Next, EmitNext, PollNext, FlushProceeds, ShutdownProceeds, BufferNext, ExportNext, Waiters

-----------------------------------------------------------------------------
(* What is in the queue once Shutdown has taken it. *)

LEMMA EmptyToSet == ToSet(<<>>) = {}
  BY DEF ToSet

LEMMA LateSame ==
  ASSUME DataTypes, LateInv,
         \A s \in Shutdowns : TookQueue(s)' => TookQueue(s), ToSet(queue') \subseteq ToSet(queue),
         UNCHANGED <<late, emitted>>, stopped => stopped',
         \A r \in Records : pc'[r] \in {"idle", "enqueue"} => pc[r] \in {"idle", "enqueue"}
  PROVE  LateInv'
  BY DEF LateInv

LEMMA TookSame ==
  ASSUME timedOut \subseteq timedOut', \A s \in Shutdowns : pc'[s] = pc[s]
  PROVE  \A s \in Shutdowns : TookQueue(s)' => TookQueue(s)
  BY DEF TookQueue

(* No call of Shutdown but s can have got as far.                          *)
LEMMA TookMove ==
  ASSUME timedOut \subseteq timedOut', NEW s \in Shutdowns,
         \A t \in Shutdowns : t # s => pc'[t] = pc[t], TookQueue(s)' => TookQueue(s)
  PROVE  \A t \in Shutdowns : TookQueue(t)' => TookQueue(t)
  BY DEF TookQueue

(* A drop at a stopped bufferExporter loses late records only, if Shutdown *)
(* had the time to take the queue.                                         *)
LEMMA StoppedTook ==
  ASSUME ShutInv, LateInv, eStopped, ~ShutdownTimedOut
  PROVE  ToSet(queue) \subseteq late
<1>1. PICK s \in Shutdowns : pc[s] \in Closing
  BY DEF ShutInv
<1>2. TookQueue(s)
  BY <1>1 DEF TookQueue, ShutdownTimedOut
<1> QED
  BY <1>2 DEF LateInv

LEMMA SuffixIn ==
  ASSUME DataTypes, NEW t, NEW n \in 0 .. Len(queue), TryDequeue(t, n)
  PROVE  ToSet(queue') \subseteq ToSet(queue)
<1>1. ToSet(SubSeq(queue, n + 1, Len(queue))) \subseteq ToSet(queue)
  BY CutToSet DEF DataTypes
<1> QED
  BY <1>1, DequeueStep

(* Every step keeps it.                                                   *)
LEMMA LateNext ==
  DataTypes /\ PlacesOK /\ ShutInv /\ LateInv /\ [Next]_vars => LateInv'
<1> SUFFICES ASSUME DataTypes, PlacesOK, ShutInv, LateInv, [Next]_vars
             PROVE  LateInv'
  OBVIOUS
<1>1. ASSUME NEW c \in Cancellable, Cancel(c) PROVE LateInv'
  <2>1. /\ UNCHANGED <<late, emitted, queue, stopped>> /\ timedOut \subseteq timedOut'
        /\ UNCHANGED pc
    BY <1>1 DEF Cancel, TakesQueue, queueVars, pollVars, callVars, bufferVars,
       exportVars
  <2> QED
    BY <2>1, LateSame, TookSame
<1>2. ASSUME NEW r \in Records, EmitCheck(r) PROVE LateInv'
  <2>1. UNCHANGED <<late, emitted, queue, stopped, timedOut>>
    BY <1>2 DEF EmitCheck, queueVars, pollVars, callVars, bufferVars,
       exportVars
  <2>2. /\ \A d \in Calls : d # r => pc'[d] = pc[d]
        /\ pc'[r] \in {"idle", "enqueue"} => pc[r] \in {"idle", "enqueue"}
    BY <1>2, MoveEmit DEF EmitCheck, EmitPlaces
  <2> QED
    BY <2>1, <2>2, Kinds, LateSame, TookSame
<1>3. ASSUME NEW r \in Records, Enqueue(r) PROVE LateInv'
  <2>1. /\ UNCHANGED <<stopped, timedOut>> /\ queue' = Enqueued(queue, r)
        /\ late' = IF stopped THEN late \cup {r} ELSE late
        /\ emitted' = Append(emitted, r) /\ pc[r] = "enqueue"
    BY <1>3 DEF Enqueue
  <2>2. /\ \A d \in Calls : d # r => pc'[d] = pc[d]
        /\ pc'[r] \notin {"idle", "enqueue"}
    BY <1>3, MoveEmit DEF Enqueue, EmitPlaces
  <2>3. r \notin ToSet(emitted)
    BY <2>1 DEF LateInv
  <2>4. ToSet(emitted') = ToSet(emitted) \cup {r} /\ IsInjective(emitted')
    <3>1. emitted \in Seq(Records) /\ IsInjective(emitted)
      BY DEF DataTypes, LateInv
    <3>2. ToSet(Append(emitted, r)) = ToSet(emitted) \cup {r} /\ IsInjective(Append(emitted, r))
      BY <2>3, <3>1, AppendToSet, AppendKeepsInjective
    <3> QED
      BY <2>1, <3>2
  <2>5. ToSet(queue') \subseteq ToSet(queue) \cup {r}
    BY <2>1, EnqueueStep
  <2>6. ASSUME NEW s \in Shutdowns, TookQueue(s)' PROVE ToSet(queue') \subseteq late'
    <3>1. TookQueue(s)
      BY <2>1, <2>2, <2>6, Kinds DEF TookQueue
    <3>2. ToSet(queue) \subseteq late /\ stopped
      BY <3>1 DEF LateInv, TookQueue, ShutInv, Closing
    <3> QED
      BY <2>1, <2>5, <3>2
  <2>7. ~stopped' => late' = {}
    BY <2>1 DEF LateInv
  <2>8. late' \subseteq ToSet(emitted')
    BY <2>1, <2>4 DEF LateInv
  <2>9. \A x \in Records : pc'[x] \in {"idle", "enqueue"} => x \notin ToSet(emitted')
    BY <2>2, <2>4, Kinds DEF LateInv
  <2> QED
    BY <2>4, <2>6, <2>7, <2>8, <2>9 DEF LateInv
<1>4. ASSUME NEW r \in Records, EmitTrigger(r) PROVE LateInv'
  <2>1. UNCHANGED <<late, emitted, queue, stopped, timedOut>>
    BY <1>4 DEF EmitTrigger, queueVars, pollVars, callVars, bufferVars,
       exportVars
  <2>2. /\ \A d \in Calls : d # r => pc'[d] = pc[d]
        /\ pc'[r] \in {"idle", "enqueue"} => pc[r] \in {"idle", "enqueue"}
    BY <1>4, MoveEmit DEF EmitTrigger, EmitPlaces
  <2> QED
    BY <2>1, <2>2, Kinds, LateSame, TookSame
<1>5. ASSUME PollTick PROVE LateInv'
  <2>1. /\ UNCHANGED <<late, emitted, queue, stopped>> /\ timedOut \subseteq timedOut'
        /\ UNCHANGED pc
    BY <1>5 DEF PollTick, TakesQueue, queueVars, pollVars, callVars,
       bufferVars, exportVars
  <2> QED
    BY <2>1, LateSame, TookSame
<1>6. ASSUME PollTriggered PROVE LateInv'
  <2>1. /\ UNCHANGED <<late, emitted, queue, stopped>> /\ timedOut \subseteq timedOut'
        /\ UNCHANGED pc
    BY <1>6 DEF PollTriggered, TakesQueue, queueVars, pollVars, callVars,
       bufferVars, exportVars
  <2> QED
    BY <2>1, LateSame, TookSame
<1>7. ASSUME PollKilled PROVE LateInv'
  <2>1. /\ UNCHANGED <<late, emitted, queue, stopped>> /\ timedOut \subseteq timedOut'
        /\ UNCHANGED pc
    BY <1>7 DEF PollKilled, TakesQueue, queueVars, pollVars, callVars,
       bufferVars, exportVars
  <2> QED
    BY <2>1, LateSame, TookSame
<1>8. ASSUME PollLock PROVE LateInv'
  <2>1. /\ UNCHANGED <<late, emitted, queue, stopped>> /\ timedOut \subseteq timedOut'
        /\ UNCHANGED pc
    BY <1>8 DEF PollLock, TakesQueue, queueVars, pollVars, callVars,
       bufferVars, exportVars
  <2> QED
    BY <2>1, LateSame, TookSame
<1>9. ASSUME PollDequeue PROVE LateInv'
  <2>1. PICK n \in 0 .. Len(queue) : TryDequeue(Poll, n)
    <3>1. Len(queue) \in Nat
      BY LenProperties DEF DataTypes
    <3> QED
      BY <1>9, <3>1, ChunkSize DEF PollDequeue
  <2>2. UNCHANGED <<late, emitted, stopped, timedOut, pc>> /\ ToSet(queue') \subseteq ToSet(queue)
    BY <1>9, <2>1, SuffixIn DEF PollDequeue, TryDequeue, callVars
  <2> QED
    BY <2>2, LateSame, TookSame
<1>10. ASSUME PollResend PROVE LateInv'
  <2>1. /\ UNCHANGED <<late, emitted, queue, stopped>> /\ timedOut \subseteq timedOut'
        /\ UNCHANGED pc
    BY <1>10 DEF PollResend, TakesQueue, queueVars, pollVars, callVars,
       bufferVars, exportVars
  <2> QED
    BY <2>1, LateSame, TookSame
<1>11. ASSUME NEW f \in Flushes, FlushCall(f) PROVE LateInv'
  <2>1. UNCHANGED <<late, emitted, queue, stopped>> /\ timedOut \subseteq timedOut'
    BY <1>11 DEF FlushCall, TakesQueue, queueVars, pollVars, callVars,
       bufferVars, exportVars
  <2>2. \A d \in Calls : d # f => pc'[d] = pc[d]
    BY <1>11, MoveFlush DEF FlushCall, FlushPlaces
  <2> QED
    BY <2>1, <2>2, Kinds, LateSame, TookSame
<1>12. ASSUME NEW f \in Flushes, FlushLock(f) PROVE LateInv'
  <2>1. UNCHANGED <<late, emitted, queue, stopped>> /\ timedOut \subseteq timedOut'
    BY <1>12 DEF FlushLock, TakesQueue, queueVars, pollVars, callVars,
       bufferVars, exportVars
  <2>2. \A d \in Calls : d # f => pc'[d] = pc[d]
    BY <1>12, MoveFlush DEF FlushLock, FlushPlaces
  <2> QED
    BY <2>1, <2>2, Kinds, LateSame, TookSame
<1>13. ASSUME NEW f \in Flushes, FlushDequeue(f) PROVE LateInv'
  <2>1. Len(queue) \in 0 .. Len(queue) /\ TryDequeue(f, Len(queue))
    BY <1>13, LenProperties DEF FlushDequeue, DataTypes
  <2>2. UNCHANGED <<late, emitted, stopped, timedOut>> /\ ToSet(queue') \subseteq ToSet(queue)
    BY <1>13, <2>1, SuffixIn DEF FlushDequeue, TryDequeue
  <2>3. \A d \in Calls : d # f => pc'[d] = pc[d]
    BY <1>13, MoveFlush DEF FlushDequeue, FlushPlaces, FlushNext
  <2> QED
    BY <2>2, <2>3, Kinds, LateSame, TookSame
<1>14. ASSUME NEW f \in Flushes, FlushRetry(f) PROVE LateInv'
  <2>1. UNCHANGED <<late, emitted, queue, stopped>> /\ timedOut \subseteq timedOut'
    BY <1>14 DEF FlushRetry, TakesQueue, queueVars, pollVars, callVars,
       bufferVars, exportVars
  <2>2. \A d \in Calls : d # f => pc'[d] = pc[d]
    BY <1>14, MoveFlush DEF FlushRetry, FlushPlaces
  <2> QED
    BY <2>1, <2>2, Kinds, LateSame, TookSame
<1>15. ASSUME NEW c \in Waiters, BufferLock(c) PROVE LateInv'
  <2>1. UNCHANGED <<late, emitted, queue, stopped>> /\ timedOut \subseteq timedOut'
    BY <1>15 DEF BufferLock, queueVars, pollVars, callVars, bufferVars,
       exportVars
  <2>2. /\ \A d \in Calls : d # c => pc'[d] = pc[d] 
        /\ pc[c] \in {"buffer", "send", "await"}
    BY <1>15, BufferMove DEF BufferNext
  <2>3. \A r \in Records : pc'[r] = pc[r]
    BY <2>2, Kinds
  <2>4. \A s \in Shutdowns : TookQueue(s)' => TookQueue(s)
    BY <2>1, <2>2, Kinds DEF TookQueue
  <2> QED
    BY <2>1, <2>3, <2>4, LateSame
<1>16. ASSUME NEW c \in Waiters, BufferSend(c) PROVE LateInv'
  <2>1. UNCHANGED <<late, emitted, queue, stopped>> /\ timedOut \subseteq timedOut'
    BY <1>16 DEF BufferSend, queueVars, pollVars, callVars, bufferVars,
       exportVars
  <2>2. /\ \A d \in Calls : d # c => pc'[d] = pc[d] 
        /\ pc[c] \in {"buffer", "send", "await"}
    BY <1>16, BufferMove DEF BufferNext
  <2>3. \A r \in Records : pc'[r] = pc[r]
    BY <2>2, Kinds
  <2>4. \A s \in Shutdowns : TookQueue(s)' => TookQueue(s)
    BY <2>1, <2>2, Kinds DEF TookQueue
  <2> QED
    BY <2>1, <2>3, <2>4, LateSame
<1>17. ASSUME NEW c \in Waiters, BufferReply(c) PROVE LateInv'
  <2>1. UNCHANGED <<late, emitted, queue, stopped>> /\ timedOut \subseteq timedOut'
    BY <1>17 DEF BufferReply, queueVars, pollVars, callVars, bufferVars,
       exportVars
  <2>2. /\ \A d \in Calls : d # c => pc'[d] = pc[d] 
        /\ pc[c] \in {"buffer", "send", "await"}
    BY <1>17, BufferMove DEF BufferNext
  <2>3. \A r \in Records : pc'[r] = pc[r]
    BY <2>2, Kinds
  <2>4. \A s \in Shutdowns : TookQueue(s)' => TookQueue(s)
    BY <2>1, <2>2, Kinds DEF TookQueue
  <2> QED
    BY <2>1, <2>3, <2>4, LateSame
<1>18. ASSUME NEW c \in Waiters, BufferTimesOut(c) PROVE LateInv'
  <2>1. UNCHANGED <<late, emitted, queue, stopped>> /\ timedOut \subseteq timedOut'
    BY <1>18 DEF BufferTimesOut, queueVars, pollVars, callVars, bufferVars,
       exportVars
  <2>2. /\ \A d \in Calls : d # c => pc'[d] = pc[d] 
        /\ pc[c] \in {"buffer", "send", "await"}
    BY <1>18, BufferMove DEF BufferNext
  <2>3. \A r \in Records : pc'[r] = pc[r]
    BY <2>2, Kinds
  <2>4. \A s \in Shutdowns : TookQueue(s)' => TookQueue(s)
    BY <2>1, <2>2, Kinds DEF TookQueue
  <2> QED
    BY <2>1, <2>3, <2>4, LateSame
<1>19. ASSUME NEW s \in Shutdowns, ShutdownCall(s) PROVE LateInv'
  <2>1. UNCHANGED <<late, emitted, queue>> /\ timedOut \subseteq timedOut' /\ (stopped => stopped')
    BY <1>19 DEF ShutdownCall, queueVars, pollVars, callVars, bufferVars,
       exportVars
  <2>2. \A d \in Calls : d # s => pc'[d] = pc[d]
    BY <1>19, MoveShutdown DEF ShutdownCall, ShutdownPlaces
  <2>3. TookQueue(s)' => TookQueue(s)
    BY <1>19, <2>1, MoveShutdown DEF ShutdownCall, TookQueue, Closing,
       ShutdownPlaces
  <2>4. \A r \in Records : pc'[r] = pc[r]
    BY <2>2, Kinds
  <2> QED
    BY <2>1, <2>2, <2>3, <2>4, TookMove, LateSame, Kinds
<1>20. ASSUME NEW s \in Shutdowns, ShutdownPollDone(s) PROVE LateInv'
  <2>1. UNCHANGED <<late, emitted, queue>> /\ timedOut \subseteq timedOut' /\ (stopped => stopped')
    BY <1>20 DEF ShutdownPollDone, queueVars, pollVars, callVars, bufferVars,
       exportVars
  <2>2. \A d \in Calls : d # s => pc'[d] = pc[d]
    BY <1>20, MoveShutdown DEF ShutdownPollDone, ShutdownPlaces
  <2>3. TookQueue(s)' => TookQueue(s)
    BY <1>20, <2>1, MoveShutdown DEF ShutdownPollDone, TookQueue, Closing,
       ShutdownPlaces
  <2>4. \A r \in Records : pc'[r] = pc[r]
    BY <2>2, Kinds
  <2> QED
    BY <2>1, <2>2, <2>3, <2>4, TookMove, LateSame, Kinds
<1>21. ASSUME NEW s \in Shutdowns, ShutdownTimesOut(s) PROVE LateInv'
  <2>1. UNCHANGED <<late, emitted, queue>> /\ timedOut \subseteq timedOut' /\ (stopped => stopped')
    BY <1>21 DEF ShutdownTimesOut, queueVars, pollVars, callVars, bufferVars,
       exportVars
  <2>2. \A d \in Calls : d # s => pc'[d] = pc[d]
    BY <1>21, MoveShutdown DEF ShutdownTimesOut, ShutdownPlaces
  <2>3. TookQueue(s)' => TookQueue(s)
    BY <1>21, <2>1, MoveShutdown DEF ShutdownTimesOut, TookQueue, Closing,
       ShutdownPlaces
  <2>4. \A r \in Records : pc'[r] = pc[r]
    BY <2>2, Kinds
  <2> QED
    BY <2>1, <2>2, <2>3, <2>4, TookMove, LateSame, Kinds
<1>22. ASSUME NEW s \in Shutdowns, ShutdownTakesQueue(s) PROVE LateInv'
  <2>1. UNCHANGED <<late, emitted, stopped>> /\ queue' = <<>>
    BY <1>22 DEF ShutdownTakesQueue
  <2>2. \A r \in Records : pc'[r] = pc[r]
    BY <1>22, MoveShutdown, Kinds DEF ShutdownTakesQueue, ShutdownPlaces
  <2>3. ToSet(queue') = {}
    BY <2>1, EmptyToSet
  <2> QED
    BY <2>1, <2>2, <2>3 DEF LateInv
<1>23. ASSUME NEW s \in Shutdowns, StopExporter(s) PROVE LateInv'
  <2>1. UNCHANGED <<late, emitted, queue>> /\ timedOut \subseteq timedOut' /\ (stopped => stopped')
    BY <1>23 DEF StopExporter, queueVars, pollVars, callVars, bufferVars,
       exportVars
  <2>2. \A d \in Calls : d # s => pc'[d] = pc[d]
    BY <1>23, MoveShutdown DEF StopExporter, ShutdownPlaces
  <2>3. TookQueue(s)' => TookQueue(s)
    BY <1>23, <2>1, MoveShutdown DEF StopExporter, TookQueue, Closing,
       ShutdownPlaces
  <2>4. \A r \in Records : pc'[r] = pc[r]
    BY <2>2, Kinds
  <2> QED
    BY <2>1, <2>2, <2>3, <2>4, TookMove, LateSame, Kinds
<1>24. ASSUME NEW s \in Shutdowns, CloseInput(s) PROVE LateInv'
  <2>1. UNCHANGED <<late, emitted, queue>> /\ timedOut \subseteq timedOut' /\ (stopped => stopped')
    BY <1>24 DEF CloseInput, queueVars, pollVars, callVars, bufferVars,
       exportVars
  <2>2. \A d \in Calls : d # s => pc'[d] = pc[d]
    BY <1>24, MoveShutdown DEF CloseInput, ShutdownPlaces
  <2>3. TookQueue(s)' => TookQueue(s)
    BY <1>24, <2>1, MoveShutdown DEF CloseInput, TookQueue, Closing,
       ShutdownPlaces
  <2>4. \A r \in Records : pc'[r] = pc[r]
    BY <2>2, Kinds
  <2> QED
    BY <2>1, <2>2, <2>3, <2>4, TookMove, LateSame, Kinds
<1>25. ASSUME NEW s \in Shutdowns, ExporterStops(s) PROVE LateInv'
  <2>1. UNCHANGED <<late, emitted, queue>> /\ timedOut \subseteq timedOut' /\ (stopped => stopped')
    BY <1>25 DEF ExporterStops, queueVars, pollVars, callVars, bufferVars,
       exportVars
  <2>2. \A d \in Calls : d # s => pc'[d] = pc[d]
    BY <1>25, MoveShutdown DEF ExporterStops, ShutdownPlaces
  <2>3. TookQueue(s)' => TookQueue(s)
    BY <1>25, <2>1, MoveShutdown DEF ExporterStops, TookQueue, Closing,
       ShutdownPlaces
  <2>4. \A r \in Records : pc'[r] = pc[r]
    BY <2>2, Kinds
  <2> QED
    BY <2>1, <2>2, <2>3, <2>4, TookMove, LateSame, Kinds
<1>26. ASSUME NEW s \in Shutdowns, ExporterStopped(s) PROVE LateInv'
  <2>1. UNCHANGED <<late, emitted, queue>> /\ timedOut \subseteq timedOut' /\ (stopped => stopped')
    BY <1>26 DEF ExporterStopped, queueVars, pollVars, callVars, bufferVars,
       exportVars
  <2>2. \A d \in Calls : d # s => pc'[d] = pc[d]
    BY <1>26, MoveShutdown DEF ExporterStopped, ShutdownPlaces
  <2>3. TookQueue(s)' => TookQueue(s)
    BY <1>26, <2>1, MoveShutdown DEF ExporterStopped, TookQueue, Closing,
       ShutdownPlaces
  <2>4. \A r \in Records : pc'[r] = pc[r]
    BY <2>2, Kinds
  <2> QED
    BY <2>1, <2>2, <2>3, <2>4, TookMove, LateSame, Kinds
<1>27. ASSUME ExportReceive PROVE LateInv'
  <2>1. /\ UNCHANGED <<late, emitted, queue, stopped>> /\ timedOut \subseteq timedOut'
        /\ UNCHANGED pc
    BY <1>27 DEF ExportReceive, TakesQueue, queueVars, pollVars, callVars,
       bufferVars, exportVars
  <2> QED
    BY <2>1, LateSame, TookSame
<1>28. ASSUME ExportChunk PROVE LateInv'
  <2>1. /\ UNCHANGED <<late, emitted, queue, stopped>> /\ timedOut \subseteq timedOut'
        /\ UNCHANGED pc
    BY <1>28 DEF ExportChunk, TakesQueue, queueVars, pollVars, callVars,
       bufferVars, exportVars
  <2> QED
    BY <2>1, LateSame, TookSame
<1>29. ASSUME ExportRespond PROVE LateInv'
  <2>1. /\ UNCHANGED <<late, emitted, queue, stopped>> /\ timedOut \subseteq timedOut'
        /\ UNCHANGED pc
    BY <1>29 DEF ExportRespond, TakesQueue, queueVars, pollVars, callVars,
       bufferVars, exportVars
  <2> QED
    BY <2>1, LateSame, TookSame
<1>30. ASSUME ExportEnds PROVE LateInv'
  <2>1. /\ UNCHANGED <<late, emitted, queue, stopped>> /\ timedOut \subseteq timedOut'
        /\ UNCHANGED pc
    BY <1>30 DEF ExportEnds, TakesQueue, queueVars, pollVars, callVars,
       bufferVars, exportVars
  <2> QED
    BY <2>1, LateSame, TookSame
<1>31. ASSUME ExportReturns PROVE LateInv'
  <2>1. /\ UNCHANGED <<late, emitted, queue, stopped>> /\ timedOut \subseteq timedOut'
        /\ UNCHANGED pc
    BY <1>31 DEF ExportReturns, TakesQueue, queueVars, pollVars, callVars,
       bufferVars, exportVars
  <2> QED
    BY <2>1, LateSame, TookSame
<1>32. ASSUME UNCHANGED vars PROVE LateInv'
  BY <1>32 DEF vars, LateInv, TookQueue, queueVars, pollVars, callVars,
     bufferVars, exportVars
<1> QED
  BY <1>1, <1>2, <1>3, <1>4, <1>5, <1>6, <1>7, <1>8, <1>9, <1>10, <1>11,
     <1>12, <1>13, <1>14, <1>15, <1>16, <1>17, <1>18, <1>19, <1>20, <1>21,
     <1>22, <1>23, <1>24, <1>25, <1>26, <1>27, <1>28, <1>29, <1>30, <1>31,
     <1>32
     DEF Next, EmitNext, PollNext, FlushProceeds, ShutdownProceeds, BufferNext, ExportNext, Waiters

-----------------------------------------------------------------------------
(* No wakeup is lost. *)

LEMMA WakeSame ==
  ASSUME DataTypes, NoLostWakeup, Len(queue') \in Nat, Len(queue') <= Len(queue),
         stopped => stopped', pollPc' = pollPc \/ pollPc' # "select", trigger => trigger',
         \A r \in Records : pc[r] = "trigger" => pc'[r] = "trigger"
  PROVE  NoLostWakeup'
<1>1. HasBatch(Len(queue')) => HasBatch(Len(queue))
  BY BatchSizeAssumption, LenProperties DEF HasBatch, DataTypes
<1> QED
  BY <1>1 DEF NoLostWakeup, HasBatch

(* A batch in the queue keeps the poll goroutine awake or wakes it.        *)
LEMMA WakeNext ==
  DataTypes /\ PlacesOK /\ ShutInv /\ NoLostWakeup /\ [Next]_vars => NoLostWakeup'
<1> SUFFICES ASSUME DataTypes, PlacesOK, ShutInv, NoLostWakeup, [Next]_vars
             PROVE  NoLostWakeup'
  OBVIOUS
<1>1. ASSUME NEW c \in Cancellable, Cancel(c) PROVE NoLostWakeup'
  <2>1. /\ UNCHANGED <<queue, pollPc, trigger, pc>> /\ stopped' = stopped
    BY <1>1 DEF Cancel, queueVars, pollVars, callVars, bufferVars, exportVars
  <2> QED
    BY <2>1, LenProperties, WakeSame DEF DataTypes
<1>2. ASSUME NEW r \in Records, EmitCheck(r) PROVE NoLostWakeup'
  <2>1. UNCHANGED <<queue, pollPc, trigger, stopped>> /\ pc[r] = "idle"
    BY <1>2 DEF EmitCheck, queueVars, pollVars, callVars, bufferVars,
       exportVars
  <2>2. \A d \in Calls : d # r => pc'[d] = pc[d]
    BY <1>2, MoveEmit DEF EmitCheck, EmitPlaces
  <2> QED
    BY <2>1, <2>2, Kinds, LenProperties, WakeSame DEF DataTypes
<1>3. ASSUME NEW r \in Records, Enqueue(r) PROVE NoLostWakeup'
  <2>1. UNCHANGED <<pollPc, trigger, stopped>> /\ pc[r] = "enqueue"
    BY <1>3 DEF Enqueue, pollVars
  <2>2. /\ \A d \in Calls : d # r => pc'[d] = pc[d]
        /\ HasBatch(Len(queue')) => pc'[r] = "trigger"
    BY <1>3, MoveEmit DEF Enqueue, EmitPlaces
  <2> QED
    BY <2>2 DEF NoLostWakeup, HasBatch
<1>4. ASSUME NEW r \in Records, EmitTrigger(r) PROVE NoLostWakeup'
  <2>1. trigger'
    BY <1>4 DEF EmitTrigger
  <2> QED
    BY <2>1 DEF NoLostWakeup
<1>5. ASSUME PollTick PROVE NoLostWakeup'
  <2>1. pollPc' # "select"
    BY <1>5 DEF PollTick
  <2> QED
    BY <2>1 DEF NoLostWakeup
<1>6. ASSUME PollTriggered PROVE NoLostWakeup'
  <2>1. pollPc' # "select"
    BY <1>6 DEF PollTriggered
  <2> QED
    BY <2>1 DEF NoLostWakeup
<1>7. ASSUME PollKilled PROVE NoLostWakeup'
  <2>1. pollPc' # "select"
    BY <1>7 DEF PollKilled
  <2> QED
    BY <2>1 DEF NoLostWakeup
<1>8. ASSUME PollLock PROVE NoLostWakeup'
  <2>1. pollPc' # "select"
    BY <1>8 DEF PollLock
  <2> QED
    BY <2>1 DEF NoLostWakeup
<1>9. ASSUME PollDequeue PROVE NoLostWakeup'
  <2>1. pollPc' = IF HasBatch(Len(queue')) THEN "resend" ELSE "select"
    BY <1>9 DEF PollDequeue, Resent
  <2> QED
    BY <2>1 DEF NoLostWakeup, HasBatch
<1>10. ASSUME PollResend PROVE NoLostWakeup'
  <2>1. trigger'
    BY <1>10 DEF PollResend
  <2> QED
    BY <2>1 DEF NoLostWakeup
<1>11. ASSUME NEW f \in Flushes, FlushCall(f) PROVE NoLostWakeup'
  <2>1. UNCHANGED <<queue, pollPc, trigger, stopped>>
    BY <1>11 DEF FlushCall, TakesQueue, queueVars, pollVars, callVars,
       bufferVars, exportVars
  <2>2. \A d \in Calls : d # f => pc'[d] = pc[d]
    BY <1>11, MoveFlush DEF FlushCall, FlushPlaces
  <2> QED
    BY <2>1, <2>2, Kinds, LenProperties, WakeSame DEF DataTypes
<1>12. ASSUME NEW f \in Flushes, FlushLock(f) PROVE NoLostWakeup'
  <2>1. UNCHANGED <<queue, pollPc, trigger, stopped>>
    BY <1>12 DEF FlushLock, TakesQueue, queueVars, pollVars, callVars,
       bufferVars, exportVars
  <2>2. \A d \in Calls : d # f => pc'[d] = pc[d]
    BY <1>12, MoveFlush DEF FlushLock, FlushPlaces
  <2> QED
    BY <2>1, <2>2, Kinds, LenProperties, WakeSame DEF DataTypes
<1>13. ASSUME NEW f \in Flushes, FlushDequeue(f) PROVE NoLostWakeup'
  <2>1. Len(queue) \in 0 .. Len(queue) /\ TryDequeue(f, Len(queue))
    BY <1>13, LenProperties DEF FlushDequeue, DataTypes
  <2>2. UNCHANGED <<pollPc, trigger, stopped>> /\ queue' \in Seq(Records) /\ Len(queue') <= Len(queue)
    BY <1>13, <2>1, DequeueStep DEF FlushDequeue, pollVars
  <2>3. \A d \in Calls : d # f => pc'[d] = pc[d]
    BY <1>13, MoveFlush DEF FlushDequeue, FlushPlaces, FlushNext
  <2> QED
    BY <2>2, <2>3, Kinds, LenProperties, WakeSame
<1>14. ASSUME NEW f \in Flushes, FlushRetry(f) PROVE NoLostWakeup'
  <2>1. UNCHANGED <<queue, pollPc, trigger, stopped>>
    BY <1>14 DEF FlushRetry, TakesQueue, queueVars, pollVars, callVars,
       bufferVars, exportVars
  <2>2. \A d \in Calls : d # f => pc'[d] = pc[d]
    BY <1>14, MoveFlush DEF FlushRetry, FlushPlaces
  <2> QED
    BY <2>1, <2>2, Kinds, LenProperties, WakeSame DEF DataTypes
<1>15. ASSUME NEW c \in Waiters, BufferLock(c) PROVE NoLostWakeup'
  <2>1. UNCHANGED <<queue, pollPc, trigger, stopped>>
    BY <1>15 DEF BufferLock, queueVars, pollVars, callVars, bufferVars,
       exportVars
  <2>2. \A d \in Calls : d # c => pc'[d] = pc[d] 
    BY <1>15, BufferMove DEF BufferNext
  <2>3. \A r \in Records : pc'[r] = pc[r]
    BY <2>2, Kinds
  <2> QED
    BY <2>1, <2>3, LenProperties, WakeSame DEF DataTypes
<1>16. ASSUME NEW c \in Waiters, BufferSend(c) PROVE NoLostWakeup'
  <2>1. UNCHANGED <<queue, pollPc, trigger, stopped>>
    BY <1>16 DEF BufferSend, queueVars, pollVars, callVars, bufferVars,
       exportVars
  <2>2. \A d \in Calls : d # c => pc'[d] = pc[d] 
    BY <1>16, BufferMove DEF BufferNext
  <2>3. \A r \in Records : pc'[r] = pc[r]
    BY <2>2, Kinds
  <2> QED
    BY <2>1, <2>3, LenProperties, WakeSame DEF DataTypes
<1>17. ASSUME NEW c \in Waiters, BufferReply(c) PROVE NoLostWakeup'
  <2>1. UNCHANGED <<queue, pollPc, trigger, stopped>>
    BY <1>17 DEF BufferReply, queueVars, pollVars, callVars, bufferVars,
       exportVars
  <2>2. \A d \in Calls : d # c => pc'[d] = pc[d] 
    BY <1>17, BufferMove DEF BufferNext
  <2>3. \A r \in Records : pc'[r] = pc[r]
    BY <2>2, Kinds
  <2> QED
    BY <2>1, <2>3, LenProperties, WakeSame DEF DataTypes
<1>18. ASSUME NEW c \in Waiters, BufferTimesOut(c) PROVE NoLostWakeup'
  <2>1. UNCHANGED <<queue, pollPc, trigger, stopped>>
    BY <1>18 DEF BufferTimesOut, queueVars, pollVars, callVars, bufferVars,
       exportVars
  <2>2. \A d \in Calls : d # c => pc'[d] = pc[d] 
    BY <1>18, BufferMove DEF BufferNext
  <2>3. \A r \in Records : pc'[r] = pc[r]
    BY <2>2, Kinds
  <2> QED
    BY <2>1, <2>3, LenProperties, WakeSame DEF DataTypes
<1>19. ASSUME NEW s \in Shutdowns, ShutdownCall(s) PROVE NoLostWakeup'
  <2>1. UNCHANGED <<queue, pollPc, trigger>> /\ (stopped => stopped')
    BY <1>19 DEF ShutdownCall, queueVars, pollVars, callVars, bufferVars,
       exportVars
  <2>2. \A d \in Calls : d # s => pc'[d] = pc[d]
    BY <1>19, MoveShutdown DEF ShutdownCall, ShutdownPlaces
  <2> QED
    BY <2>1, <2>2, Kinds, LenProperties, WakeSame DEF DataTypes
<1>20. ASSUME NEW s \in Shutdowns, ShutdownPollDone(s) PROVE NoLostWakeup'
  <2>1. UNCHANGED <<queue, pollPc, trigger>> /\ (stopped => stopped')
    BY <1>20 DEF ShutdownPollDone, queueVars, pollVars, callVars, bufferVars,
       exportVars
  <2>2. \A d \in Calls : d # s => pc'[d] = pc[d]
    BY <1>20, MoveShutdown DEF ShutdownPollDone, ShutdownPlaces
  <2> QED
    BY <2>1, <2>2, Kinds, LenProperties, WakeSame DEF DataTypes
<1>21. ASSUME NEW s \in Shutdowns, ShutdownTimesOut(s) PROVE NoLostWakeup'
  <2>1. UNCHANGED <<queue, pollPc, trigger>> /\ (stopped => stopped')
    BY <1>21 DEF ShutdownTimesOut, queueVars, pollVars, callVars, bufferVars,
       exportVars
  <2>2. \A d \in Calls : d # s => pc'[d] = pc[d]
    BY <1>21, MoveShutdown DEF ShutdownTimesOut, ShutdownPlaces
  <2> QED
    BY <2>1, <2>2, Kinds, LenProperties, WakeSame DEF DataTypes
<1>22. ASSUME NEW s \in Shutdowns, ShutdownTakesQueue(s) PROVE NoLostWakeup'
  <2>1. stopped'
    BY <1>22 DEF ShutdownTakesQueue, ShutInv
  <2> QED
    BY <2>1 DEF NoLostWakeup
<1>23. ASSUME NEW s \in Shutdowns, StopExporter(s) PROVE NoLostWakeup'
  <2>1. UNCHANGED <<queue, pollPc, trigger>> /\ (stopped => stopped')
    BY <1>23 DEF StopExporter, queueVars, pollVars, callVars, bufferVars,
       exportVars
  <2>2. \A d \in Calls : d # s => pc'[d] = pc[d]
    BY <1>23, MoveShutdown DEF StopExporter, ShutdownPlaces
  <2> QED
    BY <2>1, <2>2, Kinds, LenProperties, WakeSame DEF DataTypes
<1>24. ASSUME NEW s \in Shutdowns, CloseInput(s) PROVE NoLostWakeup'
  <2>1. UNCHANGED <<queue, pollPc, trigger>> /\ (stopped => stopped')
    BY <1>24 DEF CloseInput, queueVars, pollVars, callVars, bufferVars,
       exportVars
  <2>2. \A d \in Calls : d # s => pc'[d] = pc[d]
    BY <1>24, MoveShutdown DEF CloseInput, ShutdownPlaces
  <2> QED
    BY <2>1, <2>2, Kinds, LenProperties, WakeSame DEF DataTypes
<1>25. ASSUME NEW s \in Shutdowns, ExporterStops(s) PROVE NoLostWakeup'
  <2>1. UNCHANGED <<queue, pollPc, trigger>> /\ (stopped => stopped')
    BY <1>25 DEF ExporterStops, queueVars, pollVars, callVars, bufferVars,
       exportVars
  <2>2. \A d \in Calls : d # s => pc'[d] = pc[d]
    BY <1>25, MoveShutdown DEF ExporterStops, ShutdownPlaces
  <2> QED
    BY <2>1, <2>2, Kinds, LenProperties, WakeSame DEF DataTypes
<1>26. ASSUME NEW s \in Shutdowns, ExporterStopped(s) PROVE NoLostWakeup'
  <2>1. UNCHANGED <<queue, pollPc, trigger>> /\ (stopped => stopped')
    BY <1>26 DEF ExporterStopped, queueVars, pollVars, callVars, bufferVars,
       exportVars
  <2>2. \A d \in Calls : d # s => pc'[d] = pc[d]
    BY <1>26, MoveShutdown DEF ExporterStopped, ShutdownPlaces
  <2> QED
    BY <2>1, <2>2, Kinds, LenProperties, WakeSame DEF DataTypes
<1>27. ASSUME ExportReceive PROVE NoLostWakeup'
  <2>1. /\ UNCHANGED <<queue, pollPc, trigger, pc>> /\ stopped' = stopped
    BY <1>27 DEF ExportReceive, queueVars, pollVars, callVars, bufferVars,
       exportVars
  <2> QED
    BY <2>1, LenProperties, WakeSame DEF DataTypes
<1>28. ASSUME ExportChunk PROVE NoLostWakeup'
  <2>1. /\ UNCHANGED <<queue, pollPc, trigger, pc>> /\ stopped' = stopped
    BY <1>28 DEF ExportChunk, queueVars, pollVars, callVars, bufferVars,
       exportVars
  <2> QED
    BY <2>1, LenProperties, WakeSame DEF DataTypes
<1>29. ASSUME ExportRespond PROVE NoLostWakeup'
  <2>1. /\ UNCHANGED <<queue, pollPc, trigger, pc>> /\ stopped' = stopped
    BY <1>29 DEF ExportRespond, queueVars, pollVars, callVars, bufferVars,
       exportVars
  <2> QED
    BY <2>1, LenProperties, WakeSame DEF DataTypes
<1>30. ASSUME ExportEnds PROVE NoLostWakeup'
  <2>1. /\ UNCHANGED <<queue, pollPc, trigger, pc>> /\ stopped' = stopped
    BY <1>30 DEF ExportEnds, queueVars, pollVars, callVars, bufferVars,
       exportVars
  <2> QED
    BY <2>1, LenProperties, WakeSame DEF DataTypes
<1>31. ASSUME ExportReturns PROVE NoLostWakeup'
  <2>1. /\ UNCHANGED <<queue, pollPc, trigger, pc>> /\ stopped' = stopped
    BY <1>31 DEF ExportReturns, queueVars, pollVars, callVars, bufferVars,
       exportVars
  <2> QED
    BY <2>1, LenProperties, WakeSame DEF DataTypes
<1>32. ASSUME UNCHANGED vars PROVE NoLostWakeup'
  BY <1>32 DEF vars, NoLostWakeup, HasBatch, queueVars, pollVars, callVars,
     bufferVars, exportVars
<1> QED
  BY <1>1, <1>2, <1>3, <1>4, <1>5, <1>6, <1>7, <1>8, <1>9, <1>10, <1>11,
     <1>12, <1>13, <1>14, <1>15, <1>16, <1>17, <1>18, <1>19, <1>20, <1>21,
     <1>22, <1>23, <1>24, <1>25, <1>26, <1>27, <1>28, <1>29, <1>30, <1>31,
     <1>32
     DEF Next, EmitNext, PollNext, FlushProceeds, ShutdownProceeds, BufferNext, ExportNext, Waiters

-----------------------------------------------------------------------------
(* How the records move through the pipeline, whichever call or goroutine  *)
(* moves them.                                                             *)

SameHistory == UNCHANGED <<overwritten, emitted, late>>
SameExports == exported' = exported /\ Recs(data') = Recs(data) /\ abandoned' = abandoned
SameChannel == Recs(input') = Recs(input)
SameTaken == TakenByShutdown' = TakenByShutdown

(* A record comes in, and may overwrite the oldest.                        *)
ComesIn ==
  /\ SameExports /\ SameChannel /\ SameTaken
  /\ \E r \in Records :
       /\ pc[r] = "enqueue" /\ queue' = Enqueued(queue, r)
       /\ overwritten' = overwritten \cup Overwritten(queue)
       /\ emitted' = Append(emitted, r)
       /\ late' = IF stopped THEN late \cup {r} ELSE late

(* The first records of the queue go into the channel, or are dropped.     *)
Dequeued ==
  /\ SameExports /\ SameTaken /\ SameHistory
  /\ \E n \in 0 .. Len(queue) :
       /\ queue' = SubSeq(queue, n + 1, Len(queue))
       /\ \/ Recs(input) = <<>> /\ Recs(input') = SubSeq(queue, 1, n)
          \/ eStopped /\ SameChannel

(* Shutdown takes the queue, sends what it took, or gives up.              *)
Taken ==
  /\ SameExports /\ SameChannel /\ SameHistory
  /\ TakenByShutdown = <<>> /\ TakenByShutdown' = queue /\ queue' = <<>>

Sent ==
  /\ SameExports /\ SameHistory /\ queue' = queue
  /\ Recs(input) = <<>> /\ Recs(input') = TakenByShutdown /\ TakenByShutdown' = <<>>

Lost ==
  /\ SameExports /\ SameHistory /\ queue' = queue /\ SameChannel
  /\ TakenByShutdown' = <<>> /\ ShutdownTimedOut'

(* The export goroutine receives, exports a chunk or gives up the rest.    *)
Received ==
  /\ exported' = exported /\ abandoned' = abandoned /\ SameTaken /\ SameHistory /\ queue' = queue
  /\ Recs(data) = <<>> /\ Recs(data') = Recs(input) /\ Recs(input') = <<>>

Exported ==
  /\ SameTaken /\ SameHistory /\ queue' = queue /\ abandoned' = abandoned /\ SameChannel
  /\ \E n \in 0 .. Len(Recs(data)) :
       /\ exported' = exported \o SubSeq(Recs(data), 1, n)
       /\ Recs(data') = SubSeq(Recs(data), n + 1, Len(Recs(data)))

Abandoned ==
  /\ SameTaken /\ SameHistory /\ queue' = queue /\ exported' = exported /\ SameChannel
  /\ abandoned' = abandoned \cup ToSet(Recs(data)) /\ Recs(data') = <<>>

Stays == SameExports /\ SameChannel /\ SameTaken /\ SameHistory /\ queue' = queue

PipelineMove ==
  \/ ComesIn \/ Dequeued \/ Taken \/ Sent \/ Lost \/ Received \/ Exported \/ Abandoned
  \/ Stays

LEMMA StaysWhenSame ==
  ASSUME UNCHANGED <<exported, data, abandoned, input, held, queue, overwritten, emitted, late>>,
         \A s \in Shutdowns : pc'[s] \in {"buffer", "send"} <=> pc[s] \in {"buffer", "send"}
  PROVE  PipelineMove
  BY DEF PipelineMove, Stays, SameExports, SameChannel, SameTaken,
     SameHistory, TakenByShutdown

LEMMA TakenSame ==
  ASSUME held' = held,
         \A s \in Shutdowns : pc'[s] \in {"buffer", "send"} <=> pc[s] \in {"buffer", "send"}
  PROVE  SameTaken
  BY DEF SameTaken, TakenByShutdown

LEMMA PartsTyped ==
  ASSUME DataTypes
  PROVE  /\ exported \in Seq(Records) /\ Recs(data) \in Seq(Records)
         /\ Recs(input) \in Seq(Records) /\ TakenByShutdown \in Seq(Records)
         /\ queue \in Seq(Records) /\ emitted \in Seq(Records)
  BY RecsTyped DEF DataTypes, TakenByShutdown

LEMMA DequeueMove ==
  ASSUME DataTypes, NEW t, NEW n \in 0 .. Len(queue), TryDequeue(t, n),
         UNCHANGED <<exported, data, abandoned>>, SameTaken
  PROVE  PipelineMove
<1>1. SameExports /\ SameHistory
  BY DequeueStep DEF SameExports, SameHistory
<1>2. CASE queue' = queue /\ input' = input
  BY <1>1, <1>2 DEF PipelineMove, Stays, SameChannel
<1>3. CASE queue' = SubSeq(queue, n + 1, Len(queue)) /\ input' = input /\ eStopped
  BY <1>1, <1>3 DEF PipelineMove, Dequeued, SameChannel
<1>4. CASE queue' = SubSeq(queue, n + 1, Len(queue)) /\ input' = input /\ n = 0
  <2>1. queue' = queue
    BY <1>4, CutNothing DEF DataTypes
  <2> QED
    BY <1>1, <1>4, <2>1 DEF PipelineMove, Stays, SameChannel
<1>5. CASE /\ n > 0 /\ ~eStopped /\ input = <<>>
           /\ input' = <<[records |-> SubSeq(queue, 1, n), reply |-> Nobody]>>
           /\ queue' = SubSeq(queue, n + 1, Len(queue))
  <2>1. SubSeq(queue, 1, n) \in Seq(Records)
    BY CutEntries DEF DataTypes
  <2>2. Recs(input') = SubSeq(queue, 1, n)
    <3> DEFINE p == SubSeq(queue, 1, n)
               b == input'
    <3>1. b = <<[records |-> p, reply |-> Nobody]>> /\ p \in Seq(Records)
      BY <1>5, <2>1
    <3> HIDE DEF p, b
    <3>2. Recs(b) = p
      BY <3>1, OnePayload
    <3> QED
      BY <3>2 DEF p, b
  <2>3. Recs(input) = <<>>
    BY <1>5, NoPayload
  <2> QED
    BY <1>1, <1>5, <2>2, <2>3 DEF PipelineMove, Dequeued
<1> QED
  BY <1>2, <1>3, <1>4, <1>5, DequeueStep

(* Every step of the processor is one of these moves.                      *)
LEMMA PipelineStep ==
  DataTypes /\ PlacesOK /\ ShutInv /\ ExportInv /\ [Next]_vars => PipelineMove
<1> SUFFICES ASSUME DataTypes, PlacesOK, ShutInv, ExportInv, [Next]_vars
             PROVE  PipelineMove
  OBVIOUS
<1>1. ASSUME NEW c \in Cancellable, Cancel(c) PROVE PipelineMove
  BY <1>1, StaysWhenSame DEF Cancel, TakesQueue, queueVars, pollVars,
     callVars, bufferVars, exportVars
<1>2. ASSUME NEW r \in Records, EmitCheck(r) PROVE PipelineMove
  <2>1. UNCHANGED <<exported, data, abandoned, input, held, queue, overwritten, emitted, late>>
    BY <1>2 DEF EmitCheck, queueVars, pollVars, callVars, bufferVars,
       exportVars
  <2>2. \A d \in Calls : d # r => pc'[d] = pc[d]
    BY <1>2, MoveEmit DEF EmitCheck, EmitPlaces
  <2> QED
    BY <2>1, <2>2, Kinds, StaysWhenSame
<1>3. ASSUME NEW r \in Records, Enqueue(r) PROVE PipelineMove
  <2>1. /\ UNCHANGED <<exported, data, abandoned, input, held>> /\ queue' = Enqueued(queue, r)
        /\ overwritten' = overwritten \cup Overwritten(queue)
        /\ late' = IF stopped THEN late \cup {r} ELSE late
        /\ emitted' = Append(emitted, r) /\ pc[r] = "enqueue"
    BY <1>3 DEF Enqueue, exportVars, bufferVars
  <2>2. \A d \in Calls : d # r => pc'[d] = pc[d]
    BY <1>3, MoveEmit DEF Enqueue, EmitPlaces
  <2>3. SameTaken
    BY <2>1, <2>2, Kinds, TakenSame
  <2> QED
    BY <2>1, <2>3 DEF PipelineMove, ComesIn, SameExports, SameChannel
<1>4. ASSUME NEW r \in Records, EmitTrigger(r) PROVE PipelineMove
  <2>1. UNCHANGED <<exported, data, abandoned, input, held, queue, overwritten, emitted, late>>
    BY <1>4 DEF EmitTrigger, queueVars, pollVars, callVars, bufferVars,
       exportVars
  <2>2. \A d \in Calls : d # r => pc'[d] = pc[d]
    BY <1>4, MoveEmit DEF EmitTrigger, EmitPlaces
  <2> QED
    BY <2>1, <2>2, Kinds, StaysWhenSame
<1>5. ASSUME PollTick PROVE PipelineMove
  BY <1>5, StaysWhenSame DEF PollTick, TakesQueue, queueVars, pollVars,
     callVars, bufferVars, exportVars
<1>6. ASSUME PollTriggered PROVE PipelineMove
  BY <1>6, StaysWhenSame DEF PollTriggered, TakesQueue, queueVars, pollVars,
     callVars, bufferVars, exportVars
<1>7. ASSUME PollKilled PROVE PipelineMove
  BY <1>7, StaysWhenSame DEF PollKilled, TakesQueue, queueVars, pollVars,
     callVars, bufferVars, exportVars
<1>8. ASSUME PollLock PROVE PipelineMove
  BY <1>8, StaysWhenSame DEF PollLock, TakesQueue, queueVars, pollVars,
     callVars, bufferVars, exportVars
<1>9. ASSUME PollDequeue PROVE PipelineMove
  <2>1. PICK n \in 0 .. Len(queue) : TryDequeue(Poll, n)
    <3>1. Len(queue) \in Nat
      BY LenProperties DEF DataTypes
    <3> QED
      BY <1>9, <3>1, ChunkSize DEF PollDequeue
  <2>2. UNCHANGED <<exported, data, abandoned, held, pc>>
    BY <1>9 DEF PollDequeue, exportVars, callVars
  <2> QED
    BY <2>1, <2>2, TakenSame, DequeueMove
<1>10. ASSUME PollResend PROVE PipelineMove
  BY <1>10, StaysWhenSame DEF PollResend, TakesQueue, queueVars, pollVars,
     callVars, bufferVars, exportVars
<1>11. ASSUME NEW f \in Flushes, FlushCall(f) PROVE PipelineMove
  <2>1. UNCHANGED <<exported, data, abandoned, input, held, queue, overwritten, emitted, late>>
    BY <1>11 DEF FlushCall, TakesQueue, queueVars, pollVars, callVars,
       bufferVars, exportVars
  <2>2. \A d \in Calls : d # f => pc'[d] = pc[d]
    BY <1>11, MoveFlush DEF FlushCall, FlushPlaces
  <2> QED
    BY <2>1, <2>2, Kinds, StaysWhenSame
<1>12. ASSUME NEW f \in Flushes, FlushLock(f) PROVE PipelineMove
  <2>1. UNCHANGED <<exported, data, abandoned, input, held, queue, overwritten, emitted, late>>
    BY <1>12 DEF FlushLock, TakesQueue, queueVars, pollVars, callVars,
       bufferVars, exportVars
  <2>2. \A d \in Calls : d # f => pc'[d] = pc[d]
    BY <1>12, MoveFlush DEF FlushLock, FlushPlaces
  <2> QED
    BY <2>1, <2>2, Kinds, StaysWhenSame
<1>13. ASSUME NEW f \in Flushes, FlushDequeue(f) PROVE PipelineMove
  <2>1. Len(queue) \in 0 .. Len(queue) /\ TryDequeue(f, Len(queue))
    BY <1>13, LenProperties DEF FlushDequeue, DataTypes
  <2>2. UNCHANGED <<exported, data, abandoned, held>>
    BY <1>13 DEF FlushDequeue, exportVars
  <2>3. \A d \in Calls : d # f => pc'[d] = pc[d]
    BY <1>13, MoveFlush DEF FlushDequeue, FlushPlaces, FlushNext
  <2> QED
    BY <2>1, <2>2, <2>3, Kinds, TakenSame, DequeueMove
<1>14. ASSUME NEW f \in Flushes, FlushRetry(f) PROVE PipelineMove
  <2>1. UNCHANGED <<exported, data, abandoned, input, held, queue, overwritten, emitted, late>>
    BY <1>14 DEF FlushRetry, TakesQueue, queueVars, pollVars, callVars,
       bufferVars, exportVars
  <2>2. \A d \in Calls : d # f => pc'[d] = pc[d]
    BY <1>14, MoveFlush DEF FlushRetry, FlushPlaces
  <2> QED
    BY <2>1, <2>2, Kinds, StaysWhenSame
<1>15. ASSUME NEW c \in Waiters, BufferLock(c) PROVE PipelineMove
  <2>1. /\ UNCHANGED <<exported, data, abandoned, held, queue, overwritten, emitted, late>>
        /\ input' = input
    BY <1>15 DEF BufferLock, queueVars, pollVars, callVars, bufferVars,
       exportVars
  <2>2. /\ \A d \in Calls : d # c => pc'[d] = pc[d] 
        /\ pc[c] \in {"buffer", "send", "await"}
    BY <1>15, BufferMove DEF BufferNext
  <2>3. c \in Shutdowns => pc[c] \in {"buffer", "send"} /\ pc'[c] \in {"buffer", "send"}
    <3>1. c \in Shutdowns => ~eStopped
      BY <2>2 DEF ShutInv, Closing
    <3> QED
      BY <1>15, <3>1, MoveWaiter DEF BufferLock
  <2> QED
    BY <2>1, <2>2, <2>3, Kinds, StaysWhenSame
<1>16. ASSUME NEW c \in Waiters, BufferSend(c) PROVE PipelineMove
  <2>1. /\ UNCHANGED <<exported, data, abandoned, held, queue, overwritten, emitted, late>>
        /\ TRUE
    BY <1>16 DEF BufferSend, queueVars, pollVars, callVars, bufferVars,
       exportVars
  <2>2. /\ \A d \in Calls : d # c => pc'[d] = pc[d] 
        /\ pc[c] \in {"buffer", "send", "await"}
    BY <1>16, BufferMove DEF BufferNext
  <2>3. /\ pc[c] = "send" /\ pc'[c] = "await"
        /\ input = <<>> /\ Recs(input) = <<>> /\ Recs(input') = Payload(c)
    BY <1>16, MoveWaiter, SendStep, NoPayload DEF BufferSend
  <2>4. CASE c \in Flushes
    <3>1. SameTaken
      BY <2>1, <2>2, <2>4, Kinds, TakenSame
    <3>2. Payload(c) = <<>>
      BY <2>4, Kinds DEF Payload
    <3> QED
      BY <2>1, <2>3, <3>1, <3>2 DEF PipelineMove, Stays, SameExports,
         SameChannel, SameHistory
  <2>5. CASE c \in Shutdowns
    <3>1. TakenByShutdown = held /\ Payload(c) = held
      BY <2>3, <2>5 DEF TakenByShutdown, Payload
    <3>2. \A s \in Shutdowns : pc'[s] \notin {"buffer", "send"}
      BY <2>2, <2>3, <2>5, Kinds DEF ShutInv
    <3>3. TakenByShutdown' = <<>>
      BY <3>2 DEF TakenByShutdown
    <3> QED
      BY <2>1, <2>3, <3>1, <3>3 DEF PipelineMove, Sent, SameExports,
         SameHistory
  <2> QED
    BY <2>4, <2>5, Kinds
<1>17. ASSUME NEW c \in Waiters, BufferReply(c) PROVE PipelineMove
  <2>1. /\ UNCHANGED <<exported, data, abandoned, held, queue, overwritten, emitted, late>>
        /\ input' = input
    BY <1>17 DEF BufferReply, queueVars, pollVars, callVars, bufferVars,
       exportVars
  <2>2. /\ \A d \in Calls : d # c => pc'[d] = pc[d] 
        /\ pc[c] \in {"buffer", "send", "await"}
    BY <1>17, BufferMove DEF BufferNext
  <2>3. c \in Shutdowns => pc[c] \notin {"buffer", "send"} /\ pc'[c] \notin {"buffer", "send"}
    BY <1>17, MoveWaiter, Kinds DEF BufferReply, AfterBuffer
  <2> QED
    BY <2>1, <2>2, <2>3, Kinds, StaysWhenSame
<1>18. ASSUME NEW c \in Waiters, BufferTimesOut(c) PROVE PipelineMove
  <2>1. /\ UNCHANGED <<exported, data, abandoned, held, queue, overwritten, emitted, late>>
        /\ input' = input /\ timedOut' = timedOut \cup {c}
    BY <1>18 DEF BufferTimesOut, queueVars, pollVars, callVars, bufferVars,
       exportVars
  <2>2. /\ \A d \in Calls : d # c => pc'[d] = pc[d] 
        /\ pc[c] \in {"buffer", "send", "await"}
    BY <1>18, BufferMove DEF BufferNext
  <2>3. pc'[c] = AfterBuffer(c)
    BY <1>18, MoveWaiter DEF BufferTimesOut
  <2>4. CASE c \in Flushes
    BY <2>1, <2>2, <2>4, Kinds, StaysWhenSame
  <2>5. CASE c \in Shutdowns
    <3>1. \A s \in Shutdowns : pc'[s] \notin {"buffer", "send"}
      BY <2>2, <2>3, <2>5, Kinds DEF ShutInv, AfterBuffer
    <3>2. TakenByShutdown' = <<>> /\ ShutdownTimedOut'
      BY <2>1, <2>5, <3>1 DEF TakenByShutdown, ShutdownTimedOut
    <3> QED
      BY <2>1, <3>2 DEF PipelineMove, Lost, SameExports, SameHistory,
         SameChannel
  <2> QED
    BY <2>4, <2>5, Kinds
<1>19. ASSUME NEW s \in Shutdowns, ShutdownCall(s) PROVE PipelineMove
  <2>1. UNCHANGED <<exported, data, abandoned, input, held, queue, overwritten, emitted, late>>
    BY <1>19 DEF ShutdownCall, queueVars, pollVars, callVars, bufferVars,
       exportVars
  <2>2. /\ \A d \in Calls : d # s => pc'[d] = pc[d]
        /\ pc[s] \notin {"buffer", "send"} /\ pc'[s] \notin {"buffer", "send"}
    BY <1>19, MoveShutdown DEF ShutdownCall, ShutdownPlaces
  <2> QED
    BY <2>1, <2>2, Kinds, StaysWhenSame
<1>20. ASSUME NEW s \in Shutdowns, ShutdownPollDone(s) PROVE PipelineMove
  <2>1. UNCHANGED <<exported, data, abandoned, input, held, queue, overwritten, emitted, late>>
    BY <1>20 DEF ShutdownPollDone, queueVars, pollVars, callVars, bufferVars,
       exportVars
  <2>2. /\ \A d \in Calls : d # s => pc'[d] = pc[d]
        /\ pc[s] \notin {"buffer", "send"} /\ pc'[s] \notin {"buffer", "send"}
    BY <1>20, MoveShutdown DEF ShutdownPollDone, ShutdownPlaces
  <2> QED
    BY <2>1, <2>2, Kinds, StaysWhenSame
<1>21. ASSUME NEW s \in Shutdowns, ShutdownTimesOut(s) PROVE PipelineMove
  <2>1. UNCHANGED <<exported, data, abandoned, input, held, queue, overwritten, emitted, late>>
    BY <1>21 DEF ShutdownTimesOut, queueVars, pollVars, callVars, bufferVars,
       exportVars
  <2>2. /\ \A d \in Calls : d # s => pc'[d] = pc[d]
        /\ pc[s] \notin {"buffer", "send"} /\ pc'[s] \notin {"buffer", "send"}
    BY <1>21, MoveShutdown DEF ShutdownTimesOut, ShutdownPlaces
  <2> QED
    BY <2>1, <2>2, Kinds, StaysWhenSame
<1>22. ASSUME NEW s \in Shutdowns, ShutdownTakesQueue(s) PROVE PipelineMove
  <2>1. /\ UNCHANGED <<exported, data, abandoned, input, overwritten, emitted, late>>
        /\ queue' = <<>> /\ held' = queue
    BY <1>22 DEF ShutdownTakesQueue, exportVars, bufferVars
  <2>2. /\ \A d \in Calls : d # s => pc'[d] = pc[d]
        /\ pc[s] = "takeQueue" /\ pc'[s] = IF queue = <<>> THEN "stopExporter" ELSE "buffer"
    BY <1>22, MoveShutdown DEF ShutdownTakesQueue, ShutdownPlaces
  <2>3. \A t \in Shutdowns : t # s => pc[t] \notin {"buffer", "send"} /\ pc'[t] \notin {"buffer", "send"}
    BY <2>2, Kinds DEF ShutInv
  <2>4. TakenByShutdown = <<>> /\ TakenByShutdown' = queue
    BY <2>1, <2>2, <2>3 DEF TakenByShutdown
  <2> QED
    BY <2>1, <2>4 DEF PipelineMove, Taken, SameExports, SameChannel,
       SameHistory
<1>23. ASSUME NEW s \in Shutdowns, StopExporter(s) PROVE PipelineMove
  <2>1. UNCHANGED <<exported, data, abandoned, input, held, queue, overwritten, emitted, late>>
    BY <1>23 DEF StopExporter, queueVars, pollVars, callVars, bufferVars,
       exportVars
  <2>2. /\ \A d \in Calls : d # s => pc'[d] = pc[d]
        /\ pc[s] \notin {"buffer", "send"} /\ pc'[s] \notin {"buffer", "send"}
    BY <1>23, MoveShutdown DEF StopExporter, ShutdownPlaces
  <2> QED
    BY <2>1, <2>2, Kinds, StaysWhenSame
<1>24. ASSUME NEW s \in Shutdowns, CloseInput(s) PROVE PipelineMove
  <2>1. UNCHANGED <<exported, data, abandoned, input, held, queue, overwritten, emitted, late>>
    BY <1>24 DEF CloseInput, queueVars, pollVars, callVars, bufferVars,
       exportVars
  <2>2. /\ \A d \in Calls : d # s => pc'[d] = pc[d]
        /\ pc[s] \notin {"buffer", "send"} /\ pc'[s] \notin {"buffer", "send"}
    BY <1>24, MoveShutdown DEF CloseInput, ShutdownPlaces
  <2> QED
    BY <2>1, <2>2, Kinds, StaysWhenSame
<1>25. ASSUME NEW s \in Shutdowns, ExporterStops(s) PROVE PipelineMove
  <2>1. UNCHANGED <<exported, data, abandoned, input, held, queue, overwritten, emitted, late>>
    BY <1>25 DEF ExporterStops, queueVars, pollVars, callVars, bufferVars,
       exportVars
  <2>2. /\ \A d \in Calls : d # s => pc'[d] = pc[d]
        /\ pc[s] \notin {"buffer", "send"} /\ pc'[s] \notin {"buffer", "send"}
    BY <1>25, MoveShutdown DEF ExporterStops, ShutdownPlaces
  <2> QED
    BY <2>1, <2>2, Kinds, StaysWhenSame
<1>26. ASSUME NEW s \in Shutdowns, ExporterStopped(s) PROVE PipelineMove
  <2>1. UNCHANGED <<exported, data, abandoned, input, held, queue, overwritten, emitted, late>>
    BY <1>26 DEF ExporterStopped, queueVars, pollVars, callVars, bufferVars,
       exportVars
  <2>2. /\ \A d \in Calls : d # s => pc'[d] = pc[d]
        /\ pc[s] \notin {"buffer", "send"} /\ pc'[s] \notin {"buffer", "send"}
    BY <1>26, MoveShutdown DEF ExporterStopped, ShutdownPlaces
  <2> QED
    BY <2>1, <2>2, Kinds, StaysWhenSame
<1>27. ASSUME ExportReceive PROVE PipelineMove
  <2>1. UNCHANGED <<held, pc, queue, overwritten, emitted, late>>
    BY <1>27 DEF ExportReceive, callVars, queueVars
  <2>2. SameTaken /\ SameHistory
    BY <2>1, TakenSame DEF SameHistory
  <2>3. Recs(data) = <<>> /\ Recs(data') = Recs(input) /\ Recs(input') = <<>>
    BY <1>27, ReceiveStep, NoPayload
  <2>4. UNCHANGED <<exported, abandoned>>
    BY <1>27 DEF ExportReceive
  <2> QED
    BY <2>1, <2>2, <2>3, <2>4 DEF PipelineMove, Received
<1>28. ASSUME ExportChunk PROVE PipelineMove
  <2>1. UNCHANGED <<held, pc, queue, overwritten, emitted, late>>
    BY <1>28 DEF ExportChunk, callVars, queueVars
  <2>2. SameTaken /\ SameHistory
    BY <2>1, TakenSame DEF SameHistory
  <2>3. \E n \in 0 .. Len(Recs(data)) :
          /\ exported' = exported \o SubSeq(Recs(data), 1, n)
          /\ Recs(data') = SubSeq(Recs(data), n + 1, Len(Recs(data)))
    BY <1>28, ChunkStep
  <2>4. UNCHANGED <<input, abandoned>>
    BY <1>28 DEF ExportChunk, bufferVars
  <2> QED
    BY <2>1, <2>2, <2>3, <2>4 DEF PipelineMove, Exported, SameChannel
<1>29. ASSUME ExportRespond PROVE PipelineMove
  <2>1. UNCHANGED <<held, pc, queue, overwritten, emitted, late>>
    BY <1>29 DEF ExportRespond, callVars, queueVars
  <2>2. SameTaken /\ SameHistory
    BY <2>1, TakenSame DEF SameHistory
  <2>3. Recs(data) = <<>> /\ Recs(data') = <<>>
    BY <1>29, RespondStep, NoPayload
  <2>4. UNCHANGED <<input, exported, abandoned>>
    BY <1>29 DEF ExportRespond, bufferVars
  <2> QED
    BY <2>1, <2>2, <2>3, <2>4 DEF PipelineMove, Stays, SameChannel, SameExports
<1>30. ASSUME ExportEnds PROVE PipelineMove
  BY <1>30, StaysWhenSame DEF ExportEnds, TakesQueue, queueVars, pollVars,
     callVars, bufferVars, exportVars
<1>31. ASSUME ExportReturns PROVE PipelineMove
  <2>1. UNCHANGED <<held, pc, queue, overwritten, emitted, late>>
    BY <1>31 DEF ExportReturns, callVars, queueVars
  <2>2. SameTaken /\ SameHistory
    BY <2>1, TakenSame DEF SameHistory
  <2>3. UNCHANGED <<input, exported>>
    BY <1>31 DEF ExportReturns, bufferVars
  <2>4. CASE UNCHANGED <<data, abandoned>>
    BY <2>1, <2>2, <2>3, <2>4 DEF PipelineMove, Stays, SameChannel, SameExports
  <2>5. CASE abandoned' = abandoned \cup ToSet(Recs(data)) /\ Recs(data') = <<>>
    BY <2>1, <2>2, <2>3, <2>5 DEF PipelineMove, Abandoned, SameChannel
  <2> QED
    BY <1>31, <2>4, <2>5, ReturnStep
<1>32. ASSUME UNCHANGED vars PROVE PipelineMove
  BY <1>32 DEF vars, PipelineMove, Stays, SameExports, SameChannel, SameTaken,
     SameHistory, TakenByShutdown, queueVars, pollVars, callVars, bufferVars,
     exportVars
<1> QED
  BY <1>1, <1>2, <1>3, <1>4, <1>5, <1>6, <1>7, <1>8, <1>9, <1>10, <1>11,
     <1>12, <1>13, <1>14, <1>15, <1>16, <1>17, <1>18, <1>19, <1>20, <1>21,
     <1>22, <1>23, <1>24, <1>25, <1>26, <1>27, <1>28, <1>29, <1>30, <1>31,
     <1>32
     DEF Next, EmitNext, PollNext, FlushProceeds, ShutdownProceeds, BufferNext, ExportNext, Waiters

-----------------------------------------------------------------------------
(* No record vanishes. *)

(* A call that has timed out stays so.                                     *)
LEMMA TimedOutStays ==
  [Next]_vars => timedOut \subseteq timedOut'
<1> SUFFICES ASSUME [Next]_vars
             PROVE  timedOut \subseteq timedOut'
  OBVIOUS
<1>1. ASSUME NEW c \in Cancellable, Cancel(c)
      PROVE  timedOut \subseteq timedOut'
  BY <1>1 DEF Cancel, queueVars, pollVars, callVars, bufferVars, exportVars
<1>2. ASSUME NEW r \in Records, EmitCheck(r)
      PROVE  timedOut \subseteq timedOut'
  BY <1>2 DEF EmitCheck, queueVars, pollVars, callVars, bufferVars, exportVars
<1>3. ASSUME NEW r \in Records, Enqueue(r) PROVE timedOut \subseteq timedOut'
  BY <1>3 DEF Enqueue, queueVars, pollVars, callVars, bufferVars, exportVars
<1>4. ASSUME NEW r \in Records, EmitTrigger(r)
      PROVE  timedOut \subseteq timedOut'
  BY <1>4 DEF EmitTrigger, queueVars, pollVars, callVars, bufferVars,
     exportVars
<1>5. ASSUME PollTick PROVE timedOut \subseteq timedOut'
  BY <1>5 DEF PollTick, queueVars, pollVars, callVars, bufferVars, exportVars
<1>6. ASSUME PollTriggered PROVE timedOut \subseteq timedOut'
  BY <1>6 DEF PollTriggered, queueVars, pollVars, callVars, bufferVars,
     exportVars
<1>7. ASSUME PollKilled PROVE timedOut \subseteq timedOut'
  BY <1>7 DEF PollKilled, queueVars, pollVars, callVars, bufferVars, exportVars
<1>8. ASSUME PollLock PROVE timedOut \subseteq timedOut'
  BY <1>8 DEF PollLock, queueVars, pollVars, callVars, bufferVars, exportVars
<1>9. ASSUME PollDequeue PROVE timedOut \subseteq timedOut'
  BY <1>9 DEF PollDequeue, queueVars, pollVars, callVars, bufferVars,
     exportVars
<1>10. ASSUME PollResend PROVE timedOut \subseteq timedOut'
  BY <1>10 DEF PollResend, queueVars, pollVars, callVars, bufferVars,
     exportVars
<1>11. ASSUME NEW f \in Flushes, FlushCall(f)
      PROVE  timedOut \subseteq timedOut'
  BY <1>11 DEF FlushCall, queueVars, pollVars, callVars, bufferVars, exportVars
<1>12. ASSUME NEW f \in Flushes, FlushLock(f)
      PROVE  timedOut \subseteq timedOut'
  BY <1>12 DEF FlushLock, queueVars, pollVars, callVars, bufferVars, exportVars
<1>13. ASSUME NEW f \in Flushes, FlushDequeue(f)
      PROVE  timedOut \subseteq timedOut'
  BY <1>13 DEF FlushDequeue, queueVars, pollVars, callVars, bufferVars,
     exportVars
<1>14. ASSUME NEW f \in Flushes, FlushRetry(f)
      PROVE  timedOut \subseteq timedOut'
  BY <1>14 DEF FlushRetry, queueVars, pollVars, callVars, bufferVars,
     exportVars
<1>15. ASSUME NEW c \in Waiters, BufferLock(c)
      PROVE  timedOut \subseteq timedOut'
  BY <1>15 DEF BufferLock, queueVars, pollVars, callVars, bufferVars,
     exportVars
<1>16. ASSUME NEW c \in Waiters, BufferSend(c)
      PROVE  timedOut \subseteq timedOut'
  BY <1>16 DEF BufferSend, queueVars, pollVars, callVars, bufferVars,
     exportVars
<1>17. ASSUME NEW c \in Waiters, BufferReply(c)
      PROVE  timedOut \subseteq timedOut'
  BY <1>17 DEF BufferReply, queueVars, pollVars, callVars, bufferVars,
     exportVars
<1>18. ASSUME NEW c \in Waiters, BufferTimesOut(c)
      PROVE  timedOut \subseteq timedOut'
  BY <1>18 DEF BufferTimesOut, queueVars, pollVars, callVars, bufferVars,
     exportVars
<1>19. ASSUME NEW s \in Shutdowns, ShutdownCall(s)
      PROVE  timedOut \subseteq timedOut'
  BY <1>19 DEF ShutdownCall, queueVars, pollVars, callVars, bufferVars,
     exportVars
<1>20. ASSUME NEW s \in Shutdowns, ShutdownPollDone(s)
      PROVE  timedOut \subseteq timedOut'
  BY <1>20 DEF ShutdownPollDone, queueVars, pollVars, callVars, bufferVars,
     exportVars
<1>21. ASSUME NEW s \in Shutdowns, ShutdownTimesOut(s)
      PROVE  timedOut \subseteq timedOut'
  BY <1>21 DEF ShutdownTimesOut, queueVars, pollVars, callVars, bufferVars,
     exportVars
<1>22. ASSUME NEW s \in Shutdowns, ShutdownTakesQueue(s)
      PROVE  timedOut \subseteq timedOut'
  BY <1>22 DEF ShutdownTakesQueue, queueVars, pollVars, callVars, bufferVars,
     exportVars
<1>23. ASSUME NEW s \in Shutdowns, StopExporter(s)
      PROVE  timedOut \subseteq timedOut'
  BY <1>23 DEF StopExporter, queueVars, pollVars, callVars, bufferVars,
     exportVars
<1>24. ASSUME NEW s \in Shutdowns, CloseInput(s)
      PROVE  timedOut \subseteq timedOut'
  BY <1>24 DEF CloseInput, queueVars, pollVars, callVars, bufferVars,
     exportVars
<1>25. ASSUME NEW s \in Shutdowns, ExporterStops(s)
      PROVE  timedOut \subseteq timedOut'
  BY <1>25 DEF ExporterStops, queueVars, pollVars, callVars, bufferVars,
     exportVars
<1>26. ASSUME NEW s \in Shutdowns, ExporterStopped(s)
      PROVE  timedOut \subseteq timedOut'
  BY <1>26 DEF ExporterStopped, queueVars, pollVars, callVars, bufferVars,
     exportVars
<1>27. ASSUME ExportReceive PROVE timedOut \subseteq timedOut'
  BY <1>27 DEF ExportReceive, queueVars, pollVars, callVars, bufferVars,
     exportVars
<1>28. ASSUME ExportChunk PROVE timedOut \subseteq timedOut'
  BY <1>28 DEF ExportChunk, queueVars, pollVars, callVars, bufferVars,
     exportVars
<1>29. ASSUME ExportRespond PROVE timedOut \subseteq timedOut'
  BY <1>29 DEF ExportRespond, queueVars, pollVars, callVars, bufferVars,
     exportVars
<1>30. ASSUME ExportEnds PROVE timedOut \subseteq timedOut'
  BY <1>30 DEF ExportEnds, queueVars, pollVars, callVars, bufferVars,
     exportVars
<1>31. ASSUME ExportReturns PROVE timedOut \subseteq timedOut'
  BY <1>31 DEF ExportReturns, queueVars, pollVars, callVars, bufferVars,
     exportVars
<1>32. ASSUME UNCHANGED vars PROVE timedOut \subseteq timedOut'
  BY <1>32 DEF vars, queueVars, pollVars, callVars, bufferVars, exportVars
<1> QED
  BY <1>1, <1>2, <1>3, <1>4, <1>5, <1>6, <1>7, <1>8, <1>9, <1>10, <1>11,
     <1>12, <1>13, <1>14, <1>15, <1>16, <1>17, <1>18, <1>19, <1>20, <1>21,
     <1>22, <1>23, <1>24, <1>25, <1>26, <1>27, <1>28, <1>29, <1>30, <1>31,
     <1>32
     DEF Next, EmitNext, PollNext, FlushProceeds, ShutdownProceeds, BufferNext, ExportNext, Waiters

(* No move loses a record that came in time.                               *)
LEMMA ConserveNext ==
  DataTypes /\ PlacesOK /\ ShutInv /\ ExportInv /\ LateInv /\ ConserveInv /\ [Next]_vars => ConserveInv'
<1> SUFFICES ASSUME DataTypes, PlacesOK, ShutInv, ExportInv, LateInv, ConserveInv, [Next]_vars,
                    ~ShutdownTimedOut'
             PROVE  ToSet(emitted') \ late' \subseteq InPipeline' \cup overwritten' \cup abandoned'
  BY DEF ConserveInv
<1>1. ~ShutdownTimedOut
  BY TimedOutStays DEF ShutdownTimedOut
<1>2. ToSet(emitted) \ late \subseteq InPipeline \cup overwritten \cup abandoned
  BY <1>1 DEF ConserveInv
<1>3. /\ exported \in Seq(Records) /\ Recs(data) \in Seq(Records) /\ queue \in Seq(Records)
      /\ emitted \in Seq(Records)
  BY PartsTyped
<1>4. ToSet(<<>>) = {}
  BY EmptyToSet
<1>5. CASE ComesIn
  <2>1. PICK r \in Records :
          /\ queue' = Enqueued(queue, r) /\ overwritten' = overwritten \cup Overwritten(queue)
          /\ emitted' = Append(emitted, r) /\ late' = IF stopped THEN late \cup {r} ELSE late
    BY <1>5 DEF ComesIn
  <2>2. ToSet(emitted') = ToSet(emitted) \cup {r}
    BY <1>3, <2>1, AppendToSet
  <2>3. ToSet(queue) \cup {r} = ToSet(queue') \cup Overwritten(queue)
    BY <2>1, EnqueueStep
  <2> QED
    BY <1>2, <1>5, <2>1, <2>2, <2>3
       DEF ComesIn, SameExports, SameChannel, SameTaken, InPipeline
<1>6. CASE Dequeued
  <2>1. PICK n \in 0 .. Len(queue) :
          /\ queue' = SubSeq(queue, n + 1, Len(queue))
          /\ \/ Recs(input) = <<>> /\ Recs(input') = SubSeq(queue, 1, n)
             \/ eStopped /\ SameChannel
    BY <1>6 DEF Dequeued
  <2>2. ToSet(queue) = ToSet(SubSeq(queue, 1, n)) \cup ToSet(SubSeq(queue, n + 1, Len(queue)))
    BY <1>3, CutToSet
  <2>3. CASE Recs(input) = <<>> /\ Recs(input') = SubSeq(queue, 1, n)
    BY <1>2, <1>4, <1>6, <2>1, <2>2, <2>3 DEF Dequeued, SameExports,
       SameTaken, SameHistory, InPipeline
  <2>4. CASE eStopped /\ SameChannel
    <3>1. ToSet(queue) \subseteq late
      BY <1>1, <2>4, StoppedTook
    <3> QED
      BY <1>2, <1>6, <2>4, <3>1 DEF Dequeued, SameExports, SameTaken,
         SameHistory, SameChannel, InPipeline
  <2> QED
    BY <2>1, <2>3, <2>4
<1>7. CASE Taken
  BY <1>2, <1>4, <1>7 DEF Taken, SameExports, SameChannel, SameHistory,
     InPipeline
<1>8. CASE Sent
  BY <1>2, <1>4, <1>8 DEF Sent, SameExports, SameHistory, InPipeline
<1>9. CASE Lost
  BY <1>9 DEF Lost
<1>10. CASE Received
  BY <1>2, <1>4, <1>10 DEF Received, SameTaken, SameHistory, InPipeline
<1>11. CASE Exported
  <2>1. PICK n \in 0 .. Len(Recs(data)) :
          /\ exported' = exported \o SubSeq(Recs(data), 1, n)
          /\ Recs(data') = SubSeq(Recs(data), n + 1, Len(Recs(data)))
    BY <1>11 DEF Exported
  <2> DEFINE d == Recs(data)
             a == SubSeq(d, 1, n)
             b == SubSeq(d, n + 1, Len(d))
  <2>2. a \in Seq(Records) /\ ToSet(d) = ToSet(a) \cup ToSet(b)
    <3>1. d \in Seq(Records) /\ n \in 0 .. Len(d)
      BY <1>3, <2>1
    <3> HIDE DEF d
    <3> QED
      BY <3>1, CutEntries, CutToSet
  <2>3. ToSet(exported') = ToSet(exported) \cup ToSet(a)
    <3>1. exported' = exported \o a
      BY <2>1
    <3> HIDE DEF a
    <3> QED
      BY <1>3, <2>2, <3>1, JoinToSet
  <2> QED
    BY <1>2, <1>11, <2>1, <2>2, <2>3 DEF Exported, SameTaken, SameHistory,
       SameChannel, InPipeline
<1>12. CASE Abandoned
  BY <1>2, <1>4, <1>12 DEF Abandoned, SameTaken, SameHistory, SameChannel,
     InPipeline
<1>13. CASE Stays
  BY <1>2, <1>13 DEF Stays, SameExports, SameTaken, SameHistory, SameChannel,
     InPipeline
<1> QED
  BY <1>5, <1>6, <1>7, <1>8, <1>9, <1>10, <1>11, <1>12, <1>13, PipelineStep
     DEF PipelineMove

-----------------------------------------------------------------------------
(* The order of the pipeline: what the moves do to its parts. *)

LEMMA OrderedEmpty ==
  ASSUME NEW R
  PROVE  OrderedBy(<<>>, R) /\ ToSet(<<>>) = {}
  BY EmptyToSet DEF OrderedBy

(* Records that may also come before what Shutdown has taken overtake it.  *)
LEMMA PartsDequeue ==
  ASSUME NEW e, NEW d, NEW h, NEW q, NEW a, NEW b, NEW R, PartsOrdered(e, d, <<>>, h, q, R),
         OrderedBy(a, R), OrderedBy(b, R), AllBefore(ToSet(a), ToSet(b), R),
         ToSet(q) = ToSet(a) \cup ToSet(b), AllBefore(ToSet(q), ToSet(h), R)
  PROVE  PartsOrdered(e, d, a, h, b, R)
  BY DEF PartsOrdered, AllBefore

LEMMA PartsDrop ==
  ASSUME NEW e, NEW d, NEW i, NEW h, NEW q, NEW b, NEW R, PartsOrdered(e, d, i, h, q, R),
         OrderedBy(b, R), ToSet(b) \subseteq ToSet(q)
  PROVE  PartsOrdered(e, d, i, h, b, R)
  BY DEF PartsOrdered, AllBefore

LEMMA PartsTaken ==
  ASSUME NEW e, NEW d, NEW i, NEW q, NEW R, PartsOrdered(e, d, i, <<>>, q, R)
  PROVE  PartsOrdered(e, d, i, q, <<>>, R)
  BY OrderedEmpty DEF PartsOrdered, AllBefore

LEMMA PartsSent ==
  ASSUME NEW e, NEW d, NEW h, NEW q, NEW R, PartsOrdered(e, d, <<>>, h, q, R)
  PROVE  PartsOrdered(e, d, h, <<>>, q, R)
  BY OrderedEmpty DEF PartsOrdered, AllBefore

LEMMA PartsLost ==
  ASSUME NEW e, NEW d, NEW i, NEW h, NEW q, NEW R, PartsOrdered(e, d, i, h, q, R)
  PROVE  PartsOrdered(e, d, i, <<>>, q, R) /\ PartsOrdered(e, <<>>, i, h, q, R)
  BY OrderedEmpty DEF PartsOrdered, AllBefore

LEMMA PartsReceived ==
  ASSUME NEW e, NEW i, NEW h, NEW q, NEW R, PartsOrdered(e, <<>>, i, h, q, R)
  PROVE  PartsOrdered(e, i, <<>>, h, q, R)
  BY OrderedEmpty DEF PartsOrdered, AllBefore

LEMMA PartsExported ==
  ASSUME NEW e, NEW d, NEW i, NEW h, NEW q, NEW f, NEW a, NEW b, NEW R,
         PartsOrdered(e, d, i, h, q, R), OrderedBy(f, R), OrderedBy(b, R),
         AllBefore(ToSet(a), ToSet(b), R), ToSet(d) = ToSet(a) \cup ToSet(b),
         ToSet(f) = ToSet(e) \cup ToSet(a)
  PROVE  PartsOrdered(f, b, i, h, q, R)
  BY DEF PartsOrdered, AllBefore

(* A new record comes last, if everything in the pipeline comes before it. *)
LEMMA PartsComesIn ==
  ASSUME NEW e, NEW d, NEW i, NEW h, NEW q, NEW n, NEW r, NEW R,
         PartsOrdered(e, d, i, h, q, R), OrderedBy(n, R), ToSet(n) \subseteq ToSet(q) \cup {r},
         AllBefore(ToSet(e) \cup ToSet(d) \cup ToSet(i) \cup ToSet(h), {r}, R)
  PROVE  PartsOrdered(e, d, i, h, n, R)
  BY DEF PartsOrdered, AllBefore

(* What was in order stays in order.                                       *)
LEMMA PartsUnder ==
  ASSUME NEW S, NEW e \in Seq(S), NEW d \in Seq(S), NEW i \in Seq(S), NEW h \in Seq(S), NEW q \in Seq(S),
         NEW R, NEW T, PartsOrdered(e, d, i, h, q, R),
         \A x, y \in ToSet(e) \cup ToSet(d) \cup ToSet(i) \cup ToSet(h) \cup ToSet(q) :
           <<x, y>> \in R => <<x, y>> \in T
  PROVE  PartsOrdered(e, d, i, h, q, T)
<1>1. OrderedBy(e, T)
  BY OrderedUnder DEF PartsOrdered
<1>2. OrderedBy(d, T)
  BY OrderedUnder DEF PartsOrdered
<1>3. OrderedBy(i, T)
  BY OrderedUnder DEF PartsOrdered
<1>4. OrderedBy(h, T)
  BY OrderedUnder DEF PartsOrdered
<1>5. OrderedBy(q, T)
  BY OrderedUnder DEF PartsOrdered
<1> QED
  BY <1>1, <1>2, <1>3, <1>4, <1>5 DEF PartsOrdered, AllBefore

(* The rank of a record does not change, and the newest comes last.        *)
LEMMA RankOf ==
  ASSUME emitted \in Seq(Records), IsInjective(emitted), NEW i \in DOMAIN emitted
  PROVE  Rank(emitted[i]) = i
<1>1. \A j \in DOMAIN emitted : emitted[j] = emitted[i] <=> j = i
  BY DEF IsInjective
<1> QED
  BY <1>1 DEF Rank

LEMMA RankNext ==
  ASSUME DataTypes, LateInv, LateInv', NEW r \in Records, emitted' = Append(emitted, r),
         r \notin ToSet(emitted)
  PROVE  /\ Rank(r)' = Len(emitted) + 1
         /\ \A x \in ToSet(emitted) : Rank(x)' = Rank(x) /\ Rank(x) \in 1 .. Len(emitted)
<1>1. /\ emitted \in Seq(Records) /\ IsInjective(emitted)
      /\ Append(emitted, r) \in Seq(Records) /\ IsInjective(emitted')
  BY AppendProperties DEF DataTypes, LateInv
<1> DEFINE m == emitted'
<1>2. /\ Len(emitted) \in Nat /\ DOMAIN emitted = 1 .. Len(emitted)
      /\ DOMAIN m = 1 .. Len(emitted) + 1
      /\ \A i \in 1 .. Len(emitted) : m[i] = emitted[i]
      /\ m[Len(emitted) + 1] = r
  BY <1>1, AppendEntries
<1>3. \A j \in DOMAIN m : m[j] = r <=> j = Len(emitted) + 1
  BY <1>1, <1>2 DEF IsInjective
<1>4. Rank(r)' = Len(emitted) + 1
  <2>1. Rank(r)' = CHOOSE j \in DOMAIN m : m[j] = r
    BY DEF Rank
  <2> HIDE DEF m
  <2> QED
    BY <1>2, <1>3, <2>1
<1>5. ASSUME NEW x \in ToSet(emitted)
      PROVE  Rank(x)' = Rank(x) /\ Rank(x) \in 1 .. Len(emitted)
  <2>1. PICK i \in DOMAIN emitted : emitted[i] = x
    BY DEF ToSet
  <2>2. Rank(x) = i
    BY <1>1, <2>1, RankOf
  <2>3. \A j \in DOMAIN m : m[j] = x <=> j = i
    BY <1>1, <1>2, <2>1 DEF IsInjective
  <2>4. Rank(x)' = CHOOSE j \in DOMAIN m : m[j] = x
    BY DEF Rank
  <2>5. Rank(x)' = i
    <3> HIDE DEF m
    <3> QED
      BY <1>2, <2>1, <2>3, <2>4
  <2> QED
    BY <1>2, <2>1, <2>2, <2>5
<1> QED
  BY <1>4, <1>5

LEMMA PrecedenceNext ==
  ASSUME DataTypes, LateInv, LateInv', NEW r \in Records, emitted' = Append(emitted, r),
         r \notin ToSet(emitted), late \subseteq late'
  PROVE  /\ \A x, y \in ToSet(emitted) : <<x, y>> \in Precedence => <<x, y>> \in Precedence'
         /\ \A x \in ToSet(emitted) : <<x, r>> \in Precedence'
<1>1. /\ Rank(r)' = Len(emitted) + 1 /\ Len(emitted) \in Nat
      /\ \A x \in ToSet(emitted) : Rank(x)' = Rank(x) /\ Rank(x) \in 1 .. Len(emitted)
  BY RankNext, LenProperties DEF DataTypes
<1>2. ToSet(emitted) \subseteq Records
  BY EntryInToSet DEF DataTypes
<1>3. ASSUME NEW x \in ToSet(emitted), NEW y \in ToSet(emitted), <<x, y>> \in Precedence
      PROVE  <<x, y>> \in Precedence'
  <2>1. Precedes(x, y)
    BY <1>3 DEF Precedence
  <2>2. Precedes(x, y)'
    BY <1>1, <2>1 DEF Precedes
  <2> QED
    BY <1>2, <2>2 DEF Precedence
<1>4. ASSUME NEW x \in ToSet(emitted)
      PROVE  <<x, r>> \in Precedence'
  <2>1. x # r
    OBVIOUS
  <2>2. Rank(x)' < Rank(r)'
    BY <1>1
  <2>3. Precedes(x, r)'
    BY <2>1, <2>2 DEF Precedes
  <2> QED
    BY <1>2, <2>3 DEF Precedence
<1> QED
  BY <1>3, <1>4

(* While Shutdown holds what it took, what is in the queue came late.      *)
LEMMA MayOvertake ==
  ASSUME DataTypes, LateInv, AllBefore(ToSet(TakenByShutdown), ToSet(queue), Precedence)
  PROVE  AllBefore(ToSet(queue), ToSet(TakenByShutdown), Precedence)
<1>1. CASE \E s \in Shutdowns : pc[s] \in {"buffer", "send"}
  <2>1. ToSet(queue) \subseteq late
    BY <1>1 DEF LateInv, TookQueue
  <2>2. ASSUME NEW x \in ToSet(queue), NEW y \in ToSet(TakenByShutdown)
        PROVE  <<x, y>> \in Precedence
    <3>1. <<y, x>> \in Precedence
      BY DEF AllBefore
    <3>2. x \in late /\ Precedes(y, x) /\ x \in Records /\ y \in Records
      BY <2>1, <3>1 DEF Precedence
    <3>3. Precedes(x, y)
      BY <3>2 DEF Precedes
    <3> QED
      BY <3>2, <3>3 DEF Precedence
  <2> QED
    BY <2>2 DEF AllBefore
<1>2. CASE ~\E s \in Shutdowns : pc[s] \in {"buffer", "send"}
  BY <1>2, EmptyToSet DEF TakenByShutdown, AllBefore
<1> QED
  BY <1>1, <1>2

(* Every move keeps the parts of the pipeline in order.                    *)
LEMMA OrderNext ==
  DataTypes /\ PlacesOK /\ ShutInv /\ ExportInv /\ LateInv /\ LateInv' /\ OrderInv /\ [Next]_vars => OrderInv'
<1> SUFFICES ASSUME DataTypes, PlacesOK, ShutInv, ExportInv, LateInv, LateInv', OrderInv, [Next]_vars
             PROVE  OrderInv'
  OBVIOUS
<1> DEFINE e == exported
           d == Recs(data)
           i == Recs(input)
           h == TakenByShutdown
           q == queue
<1>1. /\ e \in Seq(Records) /\ d \in Seq(Records) /\ i \in Seq(Records)
      /\ h \in Seq(Records) /\ q \in Seq(Records) /\ emitted \in Seq(Records)
  BY PartsTyped
<1>2. PartsOrdered(e, d, i, h, q, Precedence) /\ InPipeline \subseteq ToSet(emitted)
  BY DEF OrderInv
<1>3. SameHistory => Precedence' = Precedence
  BY DEF SameHistory, Precedence, Precedes, Rank
<1>4. ToSet(<<>>) = {}
  BY EmptyToSet
<1>5. InPipeline = ToSet(e) \cup ToSet(d) \cup ToSet(i) \cup ToSet(h) \cup ToSet(q)
  BY DEF InPipeline
<1>6. CASE ComesIn
  <2>1. PICK r \in Records :
          /\ pc[r] = "enqueue" /\ queue' = Enqueued(queue, r) /\ emitted' = Append(emitted, r)
          /\ late' = IF stopped THEN late \cup {r} ELSE late
    BY <1>6 DEF ComesIn
  <2>2. r \notin ToSet(emitted) /\ late \subseteq late' /\ ToSet(emitted') = ToSet(emitted) \cup {r}
    BY <1>1, <2>1, AppendToSet DEF LateInv
  <2>3. /\ \A x, y \in ToSet(emitted) : <<x, y>> \in Precedence => <<x, y>> \in Precedence'
        /\ \A x \in ToSet(emitted) : <<x, r>> \in Precedence'
    BY <2>1, <2>2, PrecedenceNext
  <2> DEFINE R == Precedence'
             n == queue'
  <2>4. PartsOrdered(e, d, i, h, q, R)
    <3> HIDE DEF e, d, i, h, q, R
    <3>1. \A x, y \in ToSet(e) \cup ToSet(d) \cup ToSet(i) \cup ToSet(h) \cup ToSet(q) :
            <<x, y>> \in Precedence => <<x, y>> \in R
      BY <1>2, <1>5, <2>3 DEF R
    <3> QED
      BY <1>1, <1>2, <3>1, PartsUnder
  <2>5. PICK p \in Seq(Records) : n = Append(p, r) /\ (p = q \/ (q # <<>> /\ p = Tail(q)))
    BY <2>1, EnqueueStep
  <2>6. OrderedBy(p, R) /\ ToSet(p) \subseteq ToSet(q)
    <3> HIDE DEF q, R
    <3>1. OrderedBy(q, R)
      BY <2>4 DEF PartsOrdered
    <3> QED
      BY <1>1, <2>5, <3>1, TailOrdered, TailToSet
  <2>7. OrderedBy(n, R) /\ ToSet(n) \subseteq ToSet(q) \cup {r}
    <3> HIDE DEF n, R, q
    <3>1. AllBefore(ToSet(p), {r}, R)
      BY <1>2, <1>5, <2>3, <2>6 DEF AllBefore, R
    <3> QED
      BY <2>5, <2>6, <3>1, AppendOrdered, AppendToSet
  <2>8. PartsOrdered(e, d, i, h, n, R)
    <3> HIDE DEF e, d, i, h, q, n, R
    <3>1. AllBefore(ToSet(e) \cup ToSet(d) \cup ToSet(i) \cup ToSet(h), {r}, R)
      BY <1>2, <1>5, <2>3 DEF AllBefore, R
    <3> QED
      BY <2>4, <2>7, <3>1, PartsComesIn
  <2>9. InPipeline' \subseteq ToSet(emitted')
    BY <1>2, <1>5, <1>6, <2>2, <2>7 DEF ComesIn, SameExports, SameChannel,
       SameTaken, InPipeline
  <2> QED
    BY <1>6, <2>8, <2>9 DEF OrderInv, ComesIn, SameExports, SameChannel,
       SameTaken
<1>7. CASE Dequeued
  <2>1. PICK n \in 0 .. Len(queue) :
          /\ queue' = SubSeq(queue, n + 1, Len(queue))
          /\ \/ Recs(input) = <<>> /\ Recs(input') = SubSeq(queue, 1, n)
             \/ eStopped /\ SameChannel
    BY <1>7 DEF Dequeued
  <2> DEFINE a == SubSeq(queue, 1, n)
             b == SubSeq(queue, n + 1, Len(queue))
             R == Precedence
  <2>2. /\ OrderedBy(a, R) /\ OrderedBy(b, R) /\ AllBefore(ToSet(a), ToSet(b), R)
        /\ ToSet(q) = ToSet(a) \cup ToSet(b)
    <3>1. OrderedBy(queue, R)
      BY <1>2 DEF PartsOrdered
    <3> HIDE DEF R
    <3> QED
      BY <1>1, <3>1, CutOrdered, CutToSet
  <2>3. AllBefore(ToSet(q), ToSet(h), R)
    BY <1>1, <1>2, MayOvertake DEF PartsOrdered
  <2>4. PartsOrdered(e, d, Recs(input'), h, b, R)
    <3> HIDE DEF e, d, h, q, a, b, R
    <3>1. CASE i = <<>> /\ Recs(input') = a
      BY <1>2, <2>2, <2>3, <3>1, PartsDequeue DEF R
    <3>2. CASE Recs(input') = i
      BY <1>2, <2>2, <3>2, PartsDrop DEF R
    <3> QED
      BY <2>1, <3>1, <3>2 DEF a, SameChannel
  <2>5. InPipeline' \subseteq InPipeline
    BY <1>4, <1>7, <2>1, <2>2 DEF Dequeued, SameExports, SameTaken,
       SameChannel, InPipeline
  <2> QED
    BY <1>2, <1>3, <1>7, <2>1, <2>4, <2>5 DEF OrderInv, Dequeued, SameExports,
       SameTaken, SameHistory
<1>8. CASE Taken
  <2>1. PartsOrdered(e, d, i, queue, <<>>, Precedence)
    BY <1>2, <1>8, PartsTaken DEF Taken
  <2> QED
    BY <1>2, <1>3, <1>4, <1>8, <2>1 DEF OrderInv, Taken, SameExports,
       SameChannel, SameHistory, InPipeline
<1>9. CASE Sent
  <2>1. PartsOrdered(e, d, h, <<>>, q, Precedence)
    BY <1>2, <1>9, PartsSent DEF Sent
  <2> QED
    BY <1>2, <1>3, <1>4, <1>9, <2>1 DEF OrderInv, Sent, SameExports,
       SameHistory, InPipeline
<1>10. CASE Lost
  <2>1. PartsOrdered(e, d, i, <<>>, q, Precedence)
    BY <1>2, PartsLost
  <2> QED
    BY <1>2, <1>3, <1>4, <1>10, <2>1 DEF OrderInv, Lost, SameExports,
       SameHistory, SameChannel, InPipeline
<1>11. CASE Received
  <2>1. PartsOrdered(e, i, <<>>, h, q, Precedence)
    BY <1>2, <1>11, PartsReceived DEF Received
  <2> QED
    BY <1>2, <1>3, <1>4, <1>11, <2>1 DEF OrderInv, Received, SameTaken,
       SameHistory, InPipeline
<1>12. CASE Exported
  <2>1. PICK n \in 0 .. Len(Recs(data)) :
          /\ exported' = exported \o SubSeq(Recs(data), 1, n)
          /\ Recs(data') = SubSeq(Recs(data), n + 1, Len(Recs(data)))
    BY <1>12 DEF Exported
  <2> DEFINE a == SubSeq(d, 1, n)
             b == SubSeq(d, n + 1, Len(d))
             f == exported'
             R == Precedence
  <2>2. f = e \o a /\ Recs(data') = b /\ n \in 0 .. Len(d)
    BY <2>1
  <2>3. OrderedBy(d, R) /\ OrderedBy(e, R) /\ AllBefore(ToSet(e), ToSet(d), R)
    BY <1>2 DEF PartsOrdered, AllBefore
  <2>4. /\ a \in Seq(Records) /\ OrderedBy(a, R) /\ OrderedBy(b, R)
        /\ AllBefore(ToSet(a), ToSet(b), R) /\ ToSet(d) = ToSet(a) \cup ToSet(b)
    <3> HIDE DEF d, R
    <3> QED
      BY <1>1, <2>2, <2>3, CutEntries, CutOrdered, CutToSet
  <2>5. OrderedBy(f, R) /\ ToSet(f) = ToSet(e) \cup ToSet(a)
    <3> HIDE DEF a, d, e, f, R
    <3>1. AllBefore(ToSet(e), ToSet(a), R)
      BY <2>3, <2>4 DEF AllBefore
    <3> QED
      BY <1>1, <2>2, <2>3, <2>4, <3>1, JoinOrdered, JoinToSet
  <2>6. PartsOrdered(f, b, i, h, q, R)
    <3> HIDE DEF a, b, d, e, f, i, h, q, R
    <3> QED
      BY <1>2, <2>4, <2>5, PartsExported DEF R
  <2>7. InPipeline' \subseteq InPipeline
    BY <1>12, <2>2, <2>4, <2>5 DEF Exported, SameTaken, SameChannel, InPipeline
  <2> QED
    BY <1>2, <1>3, <1>12, <2>2, <2>6, <2>7 DEF OrderInv, Exported, SameTaken,
       SameHistory, SameChannel
<1>13. CASE Abandoned
  <2>1. PartsOrdered(e, <<>>, i, h, q, Precedence)
    BY <1>2, PartsLost
  <2> QED
    BY <1>2, <1>3, <1>4, <1>13, <2>1 DEF OrderInv, Abandoned, SameTaken,
       SameHistory, SameChannel, InPipeline
<1>14. CASE Stays
  BY <1>2, <1>3, <1>14 DEF OrderInv, Stays, SameExports, SameTaken,
     SameHistory, SameChannel, InPipeline
<1> QED
  BY <1>6, <1>7, <1>8, <1>9, <1>10, <1>11, <1>12, <1>13, <1>14, PipelineStep
     DEF PipelineMove

-----------------------------------------------------------------------------
(* A ForceFlush is complete. *)

(* A record never goes back.                                               *)
LEMMA Onwards ==
  ASSUME DataTypes, PipelineMove
  PROVE  /\ Settled \subseteq Settled' /\ InHands \subseteq InHands' /\ InChannel \subseteq InChannel'
         /\ ToSet(emitted) \subseteq ToSet(emitted')
<1>1. /\ exported \in Seq(Records) /\ Recs(data) \in Seq(Records) /\ queue \in Seq(Records)
      /\ emitted \in Seq(Records)
  BY PartsTyped
<1>2. ToSet(<<>>) = {}
  BY EmptyToSet
<1>3. CASE ComesIn
  <2>1. PICK r \in Records : emitted' = Append(emitted, r) /\ overwritten' = overwritten \cup Overwritten(queue)
    BY <1>3 DEF ComesIn
  <2>2. ToSet(emitted') = ToSet(emitted) \cup {r}
    BY <1>1, <2>1, AppendToSet
  <2> QED
    BY <1>3, <2>1, <2>2 DEF ComesIn, SameExports, SameChannel, Settled,
       InHands, InChannel
<1>4. CASE Dequeued
  BY <1>2, <1>4 DEF Dequeued, SameExports, SameChannel, SameHistory, Settled,
     InHands, InChannel
<1>5. CASE Taken
  BY <1>5 DEF Taken, SameExports, SameChannel, SameHistory, Settled, InHands,
     InChannel
<1>6. CASE Sent
  BY <1>2, <1>6 DEF Sent, SameExports, SameHistory, Settled, InHands, InChannel
<1>7. CASE Lost
  BY <1>7 DEF Lost, SameExports, SameChannel, SameHistory, Settled, InHands,
     InChannel
<1>8. CASE Received
  BY <1>2, <1>8 DEF Received, SameHistory, Settled, InHands, InChannel
<1>9. CASE Exported
  <2>1. PICK n \in 0 .. Len(Recs(data)) :
          /\ exported' = exported \o SubSeq(Recs(data), 1, n)
          /\ Recs(data') = SubSeq(Recs(data), n + 1, Len(Recs(data)))
    BY <1>9 DEF Exported
  <2> DEFINE d == Recs(data)
             a == SubSeq(d, 1, n)
             b == SubSeq(d, n + 1, Len(d))
  <2>2. a \in Seq(Records) /\ ToSet(d) = ToSet(a) \cup ToSet(b)
    <3>1. d \in Seq(Records) /\ n \in 0 .. Len(d)
      BY <1>1, <2>1
    <3> HIDE DEF d
    <3> QED
      BY <3>1, CutEntries, CutToSet
  <2>3. ToSet(exported') = ToSet(exported) \cup ToSet(a)
    <3>1. exported' = exported \o a
      BY <2>1
    <3> HIDE DEF a
    <3> QED
      BY <1>1, <2>2, <3>1, JoinToSet
  <2> QED
    BY <1>9, <2>1, <2>2, <2>3 DEF Exported, SameChannel, SameHistory, Settled,
       InHands, InChannel
<1>10. CASE Abandoned
  BY <1>10 DEF Abandoned, SameChannel, SameHistory, Settled, InHands, InChannel
<1>11. CASE Stays
  BY <1>11 DEF Stays, SameExports, SameChannel, SameHistory, Settled, InHands,
     InChannel
<1> QED
  BY <1>3, <1>4, <1>5, <1>6, <1>7, <1>8, <1>9, <1>10, <1>11 DEF PipelineMove

LEMMA StoppedStays ==
  [Next]_vars => (stopped => stopped')
<1> SUFFICES ASSUME [Next]_vars
             PROVE  (stopped => stopped')
  OBVIOUS
<1>1. ASSUME NEW c \in Cancellable, Cancel(c) PROVE (stopped => stopped')
  BY <1>1 DEF Cancel, TakesQueue, TryDequeue, queueVars, pollVars, callVars,
     bufferVars, exportVars
<1>2. ASSUME NEW r \in Records, EmitCheck(r) PROVE (stopped => stopped')
  BY <1>2 DEF EmitCheck, TakesQueue, TryDequeue, queueVars, pollVars,
     callVars, bufferVars, exportVars
<1>3. ASSUME NEW r \in Records, Enqueue(r) PROVE (stopped => stopped')
  BY <1>3 DEF Enqueue, TakesQueue, TryDequeue, queueVars, pollVars, callVars,
     bufferVars, exportVars
<1>4. ASSUME NEW r \in Records, EmitTrigger(r) PROVE (stopped => stopped')
  BY <1>4 DEF EmitTrigger, TakesQueue, TryDequeue, queueVars, pollVars,
     callVars, bufferVars, exportVars
<1>5. ASSUME PollTick PROVE (stopped => stopped')
  BY <1>5 DEF PollTick, TakesQueue, TryDequeue, queueVars, pollVars, callVars,
     bufferVars, exportVars
<1>6. ASSUME PollTriggered PROVE (stopped => stopped')
  BY <1>6 DEF PollTriggered, TakesQueue, TryDequeue, queueVars, pollVars,
     callVars, bufferVars, exportVars
<1>7. ASSUME PollKilled PROVE (stopped => stopped')
  BY <1>7 DEF PollKilled, TakesQueue, TryDequeue, queueVars, pollVars,
     callVars, bufferVars, exportVars
<1>8. ASSUME PollLock PROVE (stopped => stopped')
  BY <1>8 DEF PollLock, TakesQueue, TryDequeue, queueVars, pollVars, callVars,
     bufferVars, exportVars
<1>9. ASSUME PollDequeue PROVE (stopped => stopped')
  BY <1>9 DEF PollDequeue, TakesQueue, TryDequeue, queueVars, pollVars,
     callVars, bufferVars, exportVars
<1>10. ASSUME PollResend PROVE (stopped => stopped')
  BY <1>10 DEF PollResend, TakesQueue, TryDequeue, queueVars, pollVars,
     callVars, bufferVars, exportVars
<1>11. ASSUME NEW f \in Flushes, FlushCall(f) PROVE (stopped => stopped')
  BY <1>11 DEF FlushCall, TakesQueue, TryDequeue, queueVars, pollVars,
     callVars, bufferVars, exportVars
<1>12. ASSUME NEW f \in Flushes, FlushLock(f) PROVE (stopped => stopped')
  BY <1>12 DEF FlushLock, TakesQueue, TryDequeue, queueVars, pollVars,
     callVars, bufferVars, exportVars
<1>13. ASSUME NEW f \in Flushes, FlushDequeue(f) PROVE (stopped => stopped')
  BY <1>13 DEF FlushDequeue, TakesQueue, TryDequeue, queueVars, pollVars,
     callVars, bufferVars, exportVars
<1>14. ASSUME NEW f \in Flushes, FlushRetry(f) PROVE (stopped => stopped')
  BY <1>14 DEF FlushRetry, TakesQueue, TryDequeue, queueVars, pollVars,
     callVars, bufferVars, exportVars
<1>15. ASSUME NEW c \in Waiters, BufferLock(c) PROVE (stopped => stopped')
  BY <1>15 DEF BufferLock, TakesQueue, TryDequeue, queueVars, pollVars,
     callVars, bufferVars, exportVars
<1>16. ASSUME NEW c \in Waiters, BufferSend(c) PROVE (stopped => stopped')
  BY <1>16 DEF BufferSend, TakesQueue, TryDequeue, queueVars, pollVars,
     callVars, bufferVars, exportVars
<1>17. ASSUME NEW c \in Waiters, BufferReply(c) PROVE (stopped => stopped')
  BY <1>17 DEF BufferReply, TakesQueue, TryDequeue, queueVars, pollVars,
     callVars, bufferVars, exportVars
<1>18. ASSUME NEW c \in Waiters, BufferTimesOut(c) PROVE (stopped => stopped')
  BY <1>18 DEF BufferTimesOut, TakesQueue, TryDequeue, queueVars, pollVars,
     callVars, bufferVars, exportVars
<1>19. ASSUME NEW s \in Shutdowns, ShutdownCall(s) PROVE (stopped => stopped')
  BY <1>19 DEF ShutdownCall, TakesQueue, TryDequeue, queueVars, pollVars,
     callVars, bufferVars, exportVars
<1>20. ASSUME NEW s \in Shutdowns, ShutdownPollDone(s)
      PROVE  (stopped => stopped')
  BY <1>20 DEF ShutdownPollDone, TakesQueue, TryDequeue, queueVars, pollVars,
     callVars, bufferVars, exportVars
<1>21. ASSUME NEW s \in Shutdowns, ShutdownTimesOut(s)
      PROVE  (stopped => stopped')
  BY <1>21 DEF ShutdownTimesOut, TakesQueue, TryDequeue, queueVars, pollVars,
     callVars, bufferVars, exportVars
<1>22. ASSUME NEW s \in Shutdowns, ShutdownTakesQueue(s)
      PROVE  (stopped => stopped')
  BY <1>22 DEF ShutdownTakesQueue, TakesQueue, TryDequeue, queueVars,
     pollVars, callVars, bufferVars, exportVars
<1>23. ASSUME NEW s \in Shutdowns, StopExporter(s) PROVE (stopped => stopped')
  BY <1>23 DEF StopExporter, TakesQueue, TryDequeue, queueVars, pollVars,
     callVars, bufferVars, exportVars
<1>24. ASSUME NEW s \in Shutdowns, CloseInput(s) PROVE (stopped => stopped')
  BY <1>24 DEF CloseInput, TakesQueue, TryDequeue, queueVars, pollVars,
     callVars, bufferVars, exportVars
<1>25. ASSUME NEW s \in Shutdowns, ExporterStops(s)
      PROVE  (stopped => stopped')
  BY <1>25 DEF ExporterStops, TakesQueue, TryDequeue, queueVars, pollVars,
     callVars, bufferVars, exportVars
<1>26. ASSUME NEW s \in Shutdowns, ExporterStopped(s)
      PROVE  (stopped => stopped')
  BY <1>26 DEF ExporterStopped, TakesQueue, TryDequeue, queueVars, pollVars,
     callVars, bufferVars, exportVars
<1>27. ASSUME ExportReceive PROVE (stopped => stopped')
  BY <1>27 DEF ExportReceive, TakesQueue, TryDequeue, queueVars, pollVars,
     callVars, bufferVars, exportVars
<1>28. ASSUME ExportChunk PROVE (stopped => stopped')
  BY <1>28 DEF ExportChunk, TakesQueue, TryDequeue, queueVars, pollVars,
     callVars, bufferVars, exportVars
<1>29. ASSUME ExportRespond PROVE (stopped => stopped')
  BY <1>29 DEF ExportRespond, TakesQueue, TryDequeue, queueVars, pollVars,
     callVars, bufferVars, exportVars
<1>30. ASSUME ExportEnds PROVE (stopped => stopped')
  BY <1>30 DEF ExportEnds, TakesQueue, TryDequeue, queueVars, pollVars,
     callVars, bufferVars, exportVars
<1>31. ASSUME ExportReturns PROVE (stopped => stopped')
  BY <1>31 DEF ExportReturns, TakesQueue, TryDequeue, queueVars, pollVars,
     callVars, bufferVars, exportVars
<1>32. ASSUME UNCHANGED vars PROVE (stopped => stopped')
  BY <1>32 DEF vars, queueVars, pollVars, callVars, bufferVars, exportVars
<1> QED
  BY <1>1, <1>2, <1>3, <1>4, <1>5, <1>6, <1>7, <1>8, <1>9, <1>10, <1>11,
     <1>12, <1>13, <1>14, <1>15, <1>16, <1>17, <1>18, <1>19, <1>20, <1>21,
     <1>22, <1>23, <1>24, <1>25, <1>26, <1>27, <1>28, <1>29, <1>30, <1>31,
     <1>32
     DEF Next, EmitNext, PollNext, FlushProceeds, ShutdownProceeds, BufferNext, ExportNext, Waiters

(* A ForceFlush is moved by its own steps only.                            *)
FlushMoves ==
  \A f \in Flushes :
    (pc'[f] = pc[f] /\ awaited'[f] = awaited[f]) \/ FlushCall(f) \/ FlushProceeds(f)

LEMMA FlushMoved ==
  DataTypes /\ PlacesOK /\ [Next]_vars => FlushMoves
<1> SUFFICES ASSUME DataTypes, PlacesOK, [Next]_vars
             PROVE  FlushMoves
  OBVIOUS
<1>1. ASSUME NEW c \in Cancellable, Cancel(c) PROVE FlushMoves
  BY <1>1 DEF Cancel, FlushMoves, queueVars, pollVars, callVars, bufferVars,
     exportVars
<1>2. ASSUME NEW r \in Records, EmitCheck(r) PROVE FlushMoves
  BY <1>2, MoveEmit, Kinds DEF EmitCheck, EmitPlaces, FlushMoves, queueVars,
     pollVars, callVars, bufferVars, exportVars
<1>3. ASSUME NEW r \in Records, Enqueue(r) PROVE FlushMoves
  BY <1>3, MoveEmit, Kinds DEF Enqueue, EmitPlaces, FlushMoves, queueVars,
     pollVars, callVars, bufferVars, exportVars
<1>4. ASSUME NEW r \in Records, EmitTrigger(r) PROVE FlushMoves
  BY <1>4, MoveEmit, Kinds DEF EmitTrigger, EmitPlaces, FlushMoves, queueVars,
     pollVars, callVars, bufferVars, exportVars
<1>5. ASSUME PollTick PROVE FlushMoves
  BY <1>5 DEF PollTick, FlushMoves, queueVars, pollVars, callVars, bufferVars,
     exportVars
<1>6. ASSUME PollTriggered PROVE FlushMoves
  BY <1>6 DEF PollTriggered, FlushMoves, queueVars, pollVars, callVars,
     bufferVars, exportVars
<1>7. ASSUME PollKilled PROVE FlushMoves
  BY <1>7 DEF PollKilled, FlushMoves, queueVars, pollVars, callVars,
     bufferVars, exportVars
<1>8. ASSUME PollLock PROVE FlushMoves
  BY <1>8 DEF PollLock, FlushMoves, queueVars, pollVars, callVars, bufferVars,
     exportVars
<1>9. ASSUME PollDequeue PROVE FlushMoves
  BY <1>9 DEF PollDequeue, FlushMoves, queueVars, pollVars, callVars,
     bufferVars, exportVars
<1>10. ASSUME PollResend PROVE FlushMoves
  BY <1>10 DEF PollResend, FlushMoves, queueVars, pollVars, callVars,
     bufferVars, exportVars
<1>11. ASSUME NEW f \in Flushes, FlushCall(f) PROVE FlushMoves
  <2>1. \A g \in Flushes : g # f => awaited'[g] = awaited[g]
    BY <1>11 DEF FlushCall, DataTypes
  <2> QED
    BY <1>11, <2>1, MoveFlush, Kinds DEF FlushCall, FlushPlaces, FlushMoves
<1>12. ASSUME NEW f \in Flushes, FlushLock(f) PROVE FlushMoves
  BY <1>12, MoveFlush, Kinds DEF FlushLock, FlushPlaces, FlushNext,
     FlushMoves, FlushProceeds
<1>13. ASSUME NEW f \in Flushes, FlushDequeue(f) PROVE FlushMoves
  BY <1>13, MoveFlush, Kinds DEF FlushDequeue, FlushPlaces, FlushNext,
     FlushMoves, FlushProceeds
<1>14. ASSUME NEW f \in Flushes, FlushRetry(f) PROVE FlushMoves
  BY <1>14, MoveFlush, Kinds DEF FlushRetry, FlushPlaces, FlushNext,
     FlushMoves, FlushProceeds
<1>15. ASSUME NEW c \in Waiters, BufferLock(c) PROVE FlushMoves
  <2>1. awaited' = awaited
    BY <1>15 DEF BufferLock
  <2> QED
    BY <1>15, <2>1, BufferMove, Kinds DEF BufferNext, FlushMoves, FlushProceeds
<1>16. ASSUME NEW c \in Waiters, BufferSend(c) PROVE FlushMoves
  <2>1. awaited' = awaited
    BY <1>16 DEF BufferSend
  <2> QED
    BY <1>16, <2>1, BufferMove, Kinds DEF BufferNext, FlushMoves, FlushProceeds
<1>17. ASSUME NEW c \in Waiters, BufferReply(c) PROVE FlushMoves
  <2>1. awaited' = awaited
    BY <1>17 DEF BufferReply
  <2> QED
    BY <1>17, <2>1, BufferMove, Kinds DEF BufferNext, FlushMoves, FlushProceeds
<1>18. ASSUME NEW c \in Waiters, BufferTimesOut(c) PROVE FlushMoves
  <2>1. awaited' = awaited
    BY <1>18 DEF BufferTimesOut
  <2> QED
    BY <1>18, <2>1, BufferMove, Kinds DEF BufferNext, FlushMoves, FlushProceeds
<1>19. ASSUME NEW s \in Shutdowns, ShutdownCall(s) PROVE FlushMoves
  BY <1>19, MoveShutdown, Kinds DEF ShutdownCall, ShutdownPlaces, FlushMoves,
     queueVars, pollVars, callVars, bufferVars, exportVars
<1>20. ASSUME NEW s \in Shutdowns, ShutdownPollDone(s) PROVE FlushMoves
  BY <1>20, MoveShutdown, Kinds DEF ShutdownPollDone, ShutdownPlaces,
     FlushMoves, queueVars, pollVars, callVars, bufferVars, exportVars
<1>21. ASSUME NEW s \in Shutdowns, ShutdownTimesOut(s) PROVE FlushMoves
  BY <1>21, MoveShutdown, Kinds DEF ShutdownTimesOut, ShutdownPlaces,
     FlushMoves, queueVars, pollVars, callVars, bufferVars, exportVars
<1>22. ASSUME NEW s \in Shutdowns, ShutdownTakesQueue(s) PROVE FlushMoves
  BY <1>22, MoveShutdown, Kinds DEF ShutdownTakesQueue, ShutdownPlaces,
     FlushMoves, queueVars, pollVars, callVars, bufferVars, exportVars
<1>23. ASSUME NEW s \in Shutdowns, StopExporter(s) PROVE FlushMoves
  BY <1>23, MoveShutdown, Kinds DEF StopExporter, ShutdownPlaces, FlushMoves,
     queueVars, pollVars, callVars, bufferVars, exportVars
<1>24. ASSUME NEW s \in Shutdowns, CloseInput(s) PROVE FlushMoves
  BY <1>24, MoveShutdown, Kinds DEF CloseInput, ShutdownPlaces, FlushMoves,
     queueVars, pollVars, callVars, bufferVars, exportVars
<1>25. ASSUME NEW s \in Shutdowns, ExporterStops(s) PROVE FlushMoves
  BY <1>25, MoveShutdown, Kinds DEF ExporterStops, ShutdownPlaces, FlushMoves,
     queueVars, pollVars, callVars, bufferVars, exportVars
<1>26. ASSUME NEW s \in Shutdowns, ExporterStopped(s) PROVE FlushMoves
  BY <1>26, MoveShutdown, Kinds DEF ExporterStopped, ShutdownPlaces,
     FlushMoves, queueVars, pollVars, callVars, bufferVars, exportVars
<1>27. ASSUME ExportReceive PROVE FlushMoves
  BY <1>27 DEF ExportReceive, FlushMoves, queueVars, pollVars, callVars,
     bufferVars, exportVars
<1>28. ASSUME ExportChunk PROVE FlushMoves
  BY <1>28 DEF ExportChunk, FlushMoves, queueVars, pollVars, callVars,
     bufferVars, exportVars
<1>29. ASSUME ExportRespond PROVE FlushMoves
  BY <1>29 DEF ExportRespond, FlushMoves, queueVars, pollVars, callVars,
     bufferVars, exportVars
<1>30. ASSUME ExportEnds PROVE FlushMoves
  BY <1>30 DEF ExportEnds, FlushMoves, queueVars, pollVars, callVars,
     bufferVars, exportVars
<1>31. ASSUME ExportReturns PROVE FlushMoves
  BY <1>31 DEF ExportReturns, FlushMoves, queueVars, pollVars, callVars,
     bufferVars, exportVars
<1>32. ASSUME UNCHANGED vars PROVE FlushMoves
  BY <1>32 DEF vars, FlushMoves, queueVars, pollVars, callVars, bufferVars,
     exportVars
<1> QED
  BY <1>1, <1>2, <1>3, <1>4, <1>5, <1>6, <1>7, <1>8, <1>9, <1>10, <1>11,
     <1>12, <1>13, <1>14, <1>15, <1>16, <1>17, <1>18, <1>19, <1>20, <1>21,
     <1>22, <1>23, <1>24, <1>25, <1>26, <1>27, <1>28, <1>29, <1>30, <1>31,
     <1>32
     DEF Next, EmitNext, PollNext, FlushProceeds, ShutdownProceeds, BufferNext, ExportNext, Waiters

(* The answer to a call comes after its request, and a request is answered *)
(* when its records have been handed over.                                 *)
Answers ==
  \A f \in Flushes :
    /\ NotAsked(f) => BufferSend(f) \/ NotAsked(f)'
    /\ f \in replied' => f \in replied \/ Recs(data) = <<>>

LEMMA Answered ==
  DataTypes /\ ExportInv /\ [Next]_vars => Answers
<1> SUFFICES ASSUME DataTypes, ExportInv, [Next]_vars
             PROVE  Answers
  OBVIOUS
<1>1. ASSUME NEW c \in Cancellable, Cancel(c) PROVE Answers
  BY <1>1 DEF Cancel, TakesQueue, Answers, NotAsked, queueVars, pollVars,
     callVars, bufferVars, exportVars
<1>2. ASSUME NEW r \in Records, EmitCheck(r) PROVE Answers
  BY <1>2 DEF EmitCheck, TakesQueue, Answers, NotAsked, queueVars, pollVars,
     callVars, bufferVars, exportVars
<1>3. ASSUME NEW r \in Records, Enqueue(r) PROVE Answers
  BY <1>3 DEF Enqueue, TakesQueue, Answers, NotAsked, queueVars, pollVars,
     callVars, bufferVars, exportVars
<1>4. ASSUME NEW r \in Records, EmitTrigger(r) PROVE Answers
  BY <1>4 DEF EmitTrigger, TakesQueue, Answers, NotAsked, queueVars, pollVars,
     callVars, bufferVars, exportVars
<1>5. ASSUME PollTick PROVE Answers
  BY <1>5 DEF PollTick, TakesQueue, Answers, NotAsked, queueVars, pollVars,
     callVars, bufferVars, exportVars
<1>6. ASSUME PollTriggered PROVE Answers
  BY <1>6 DEF PollTriggered, TakesQueue, Answers, NotAsked, queueVars,
     pollVars, callVars, bufferVars, exportVars
<1>7. ASSUME PollKilled PROVE Answers
  BY <1>7 DEF PollKilled, TakesQueue, Answers, NotAsked, queueVars, pollVars,
     callVars, bufferVars, exportVars
<1>8. ASSUME PollLock PROVE Answers
  BY <1>8 DEF PollLock, TakesQueue, Answers, NotAsked, queueVars, pollVars,
     callVars, bufferVars, exportVars
<1>9. ASSUME PollDequeue PROVE Answers
  <2>1. PICK n \in 0 .. Len(queue) : TryDequeue(Poll, n)
    <3>1. Len(queue) \in Nat
      BY LenProperties DEF DataTypes
    <3> QED
      BY <1>9, <3>1, ChunkSize DEF PollDequeue
  <2>2. UNCHANGED <<data, replied>>
    BY <1>9 DEF PollDequeue, exportVars
  <2>3. input' = input \/ \E rs \in Seq(Records) : input' = <<[records |-> rs, reply |-> Nobody]>>
    <3>1. SubSeq(queue, 1, n) \in Seq(Records)
      BY <2>1, CutEntries DEF DataTypes
    <3> QED
      BY <2>1, <3>1, DequeueStep
  <2>4. input' = input \/ \A i \in DOMAIN input' : input'[i].reply = Nobody
    BY <2>3, OnePayload
  <2> QED
    BY <2>2, <2>4, Kinds DEF Answers, NotAsked
<1>10. ASSUME PollResend PROVE Answers
  BY <1>10 DEF PollResend, TakesQueue, Answers, NotAsked, queueVars, pollVars,
     callVars, bufferVars, exportVars
<1>11. ASSUME NEW f \in Flushes, FlushCall(f) PROVE Answers
  BY <1>11 DEF FlushCall, TakesQueue, Answers, NotAsked, queueVars, pollVars,
     callVars, bufferVars, exportVars
<1>12. ASSUME NEW f \in Flushes, FlushLock(f) PROVE Answers
  BY <1>12 DEF FlushLock, TakesQueue, Answers, NotAsked, queueVars, pollVars,
     callVars, bufferVars, exportVars
<1>13. ASSUME NEW f \in Flushes, FlushDequeue(f) PROVE Answers
  <2>1. Len(queue) \in 0 .. Len(queue) /\ TryDequeue(f, Len(queue))
    BY <1>13, LenProperties DEF FlushDequeue, DataTypes
  <2>2. UNCHANGED <<data, replied>>
    BY <1>13 DEF FlushDequeue, exportVars
  <2>3. input' = input \/ \E rs \in Seq(Records) : input' = <<[records |-> rs, reply |-> Nobody]>>
    <3>1. SubSeq(queue, 1, Len(queue)) \in Seq(Records)
      BY <2>1, CutEntries DEF DataTypes
    <3> QED
      BY <2>1, <3>1, DequeueStep
  <2>4. input' = input \/ \A i \in DOMAIN input' : input'[i].reply = Nobody
    BY <2>3, OnePayload
  <2> QED
    BY <2>2, <2>4, Kinds DEF Answers, NotAsked
<1>14. ASSUME NEW f \in Flushes, FlushRetry(f) PROVE Answers
  BY <1>14 DEF FlushRetry, TakesQueue, Answers, NotAsked, queueVars, pollVars,
     callVars, bufferVars, exportVars
<1>15. ASSUME NEW c \in Waiters, BufferLock(c) PROVE Answers
  BY <1>15 DEF BufferLock, TakesQueue, Answers, NotAsked, queueVars, pollVars,
     callVars, bufferVars, exportVars
<1>16. ASSUME NEW c \in Waiters, BufferSend(c) PROVE Answers
  <2>1. UNCHANGED <<data, replied>> /\ DOMAIN input' = {1} /\ input'[1].reply = c
    BY <1>16, SendStep DEF BufferSend, exportVars
  <2> QED
    BY <1>16, <2>1 DEF Answers, NotAsked
<1>17. ASSUME NEW c \in Waiters, BufferReply(c) PROVE Answers
  BY <1>17 DEF BufferReply, TakesQueue, Answers, NotAsked, queueVars,
     pollVars, callVars, bufferVars, exportVars
<1>18. ASSUME NEW c \in Waiters, BufferTimesOut(c) PROVE Answers
  BY <1>18 DEF BufferTimesOut, TakesQueue, Answers, NotAsked, queueVars,
     pollVars, callVars, bufferVars, exportVars
<1>19. ASSUME NEW s \in Shutdowns, ShutdownCall(s) PROVE Answers
  BY <1>19 DEF ShutdownCall, TakesQueue, Answers, NotAsked, queueVars,
     pollVars, callVars, bufferVars, exportVars
<1>20. ASSUME NEW s \in Shutdowns, ShutdownPollDone(s) PROVE Answers
  BY <1>20 DEF ShutdownPollDone, TakesQueue, Answers, NotAsked, queueVars,
     pollVars, callVars, bufferVars, exportVars
<1>21. ASSUME NEW s \in Shutdowns, ShutdownTimesOut(s) PROVE Answers
  BY <1>21 DEF ShutdownTimesOut, TakesQueue, Answers, NotAsked, queueVars,
     pollVars, callVars, bufferVars, exportVars
<1>22. ASSUME NEW s \in Shutdowns, ShutdownTakesQueue(s) PROVE Answers
  BY <1>22 DEF ShutdownTakesQueue, TakesQueue, Answers, NotAsked, queueVars,
     pollVars, callVars, bufferVars, exportVars
<1>23. ASSUME NEW s \in Shutdowns, StopExporter(s) PROVE Answers
  BY <1>23 DEF StopExporter, TakesQueue, Answers, NotAsked, queueVars,
     pollVars, callVars, bufferVars, exportVars
<1>24. ASSUME NEW s \in Shutdowns, CloseInput(s) PROVE Answers
  BY <1>24 DEF CloseInput, TakesQueue, Answers, NotAsked, queueVars, pollVars,
     callVars, bufferVars, exportVars
<1>25. ASSUME NEW s \in Shutdowns, ExporterStops(s) PROVE Answers
  BY <1>25 DEF ExporterStops, TakesQueue, Answers, NotAsked, queueVars,
     pollVars, callVars, bufferVars, exportVars
<1>26. ASSUME NEW s \in Shutdowns, ExporterStopped(s) PROVE Answers
  BY <1>26 DEF ExporterStopped, TakesQueue, Answers, NotAsked, queueVars,
     pollVars, callVars, bufferVars, exportVars
<1>27. ASSUME ExportReceive PROVE Answers
  <2>1. /\ replied' = replied /\ input' = <<>> /\ DOMAIN data' = {1} /\ DOMAIN input = {1}
        /\ data'[1] = input[1]
    BY <1>27, ReceiveStep DEF ExportReceive
  <2> QED
    BY <2>1 DEF Answers, NotAsked
<1>28. ASSUME ExportChunk PROVE Answers
  <2>1. /\ UNCHANGED <<input, replied>> /\ DOMAIN data' = {1} /\ DOMAIN data = {1}
        /\ data'[1].reply = data[1].reply
    BY <1>28, ChunkStep DEF ExportChunk, bufferVars
  <2> QED
    BY <2>1 DEF Answers, NotAsked
<1>29. ASSUME ExportRespond PROVE Answers
  <2>1. /\ input' = input /\ replied' = replied \cup ({data[1].reply} \ {Nobody})
        /\ Recs(data) = <<>> /\ data' = <<>> /\ DOMAIN data = {1}
    BY <1>29, RespondStep DEF ExportRespond, bufferVars
  <2> QED
    BY <2>1 DEF Answers, NotAsked
<1>30. ASSUME ExportEnds PROVE Answers
  BY <1>30 DEF ExportEnds, TakesQueue, Answers, NotAsked, queueVars, pollVars,
     callVars, bufferVars, exportVars
<1>31. ASSUME ExportReturns PROVE Answers
  <2>1. /\ UNCHANGED <<input, replied>> /\ DOMAIN data' = {1} /\ DOMAIN data = {1}
        /\ data'[1].reply = data[1].reply
    BY <1>31, ReturnStep DEF ExportReturns, bufferVars
  <2> QED
    BY <2>1 DEF Answers, NotAsked
<1>32. ASSUME UNCHANGED vars PROVE Answers
  BY <1>32 DEF vars, Answers, NotAsked, queueVars, pollVars, callVars,
     bufferVars, exportVars
<1> QED
  BY <1>1, <1>2, <1>3, <1>4, <1>5, <1>6, <1>7, <1>8, <1>9, <1>10, <1>11,
     <1>12, <1>13, <1>14, <1>15, <1>16, <1>17, <1>18, <1>19, <1>20, <1>21,
     <1>22, <1>23, <1>24, <1>25, <1>26, <1>27, <1>28, <1>29, <1>30, <1>31,
     <1>32
     DEF Next, EmitNext, PollNext, FlushProceeds, ShutdownProceeds, BufferNext, ExportNext, Waiters

(* What a ForceFlush awaits keeps ahead of the call.                       *)
LEMMA FlushNextInv ==
  DataTypes /\ PlacesOK /\ PlacesOK' /\ ShutInv /\ ExportInv /\ LateInv /\ LateInv' /\ ShutInv'
    /\ ConserveInv' /\ FlushInv /\ [Next]_vars => FlushInv'
<1> SUFFICES ASSUME DataTypes, PlacesOK, PlacesOK', ShutInv, ExportInv, LateInv, LateInv', ShutInv',
                    ConserveInv', FlushInv, [Next]_vars, NEW f \in Flushes
             PROVE  /\ pc'[f] \in FlushPlaces \ {"await", "done", "ignored"} => NotAsked(f)'
                    /\ awaited'[f] \subseteq ToSet(emitted')
                    /\ ~stopped' /\ f \notin timedOut' => Progress(f)'
  BY DEF FlushInv
<1>1. /\ pc[f] \in FlushPlaces \ {"await", "done", "ignored"} => NotAsked(f)
      /\ awaited[f] \subseteq ToSet(emitted)
      /\ ~stopped /\ f \notin timedOut => Progress(f)
  BY DEF FlushInv
<1>2. /\ Settled \subseteq Settled' /\ InHands \subseteq InHands' /\ InChannel \subseteq InChannel'
      /\ ToSet(emitted) \subseteq ToSet(emitted')
  BY PipelineStep, Onwards
<1>3. (stopped => stopped') /\ timedOut \subseteq timedOut'
  BY StoppedStays, TimedOutStays
<1>4. /\ NotAsked(f) => BufferSend(f) \/ NotAsked(f)'
      /\ f \in replied' => f \in replied \/ Recs(data) = <<>>
  BY Answered DEF Answers
<1>5. Recs(data) = <<>> => InHands = Settled
  BY EmptyToSet DEF InHands
<1>6. CASE pc'[f] = pc[f] /\ awaited'[f] = awaited[f]
  <2>1. pc[f] \in FlushPlaces \ {"await", "done", "ignored"} => ~BufferSend(f)
    <3>1. BufferSend(f) => pc'[f] = "await"
      BY MoveWaiter, Kinds DEF BufferSend
    <3> QED
      BY <1>6, <3>1
  <2>2. ~stopped' /\ f \notin timedOut' => Progress(f)'
    BY <1>1, <1>2, <1>3, <1>4, <1>5, <1>6 DEF Progress
  <2> QED
    BY <1>1, <1>2, <1>4, <1>6, <2>1, <2>2
<1>7. CASE FlushCall(f)
  <2>1. pc[f] = "idle" /\ pc'[f] \in {"flush", "ignored"}
    BY <1>7, MoveFlush DEF FlushCall, FlushPlaces
  <2>2. awaited'[f] \in {{}, ToSet(emitted)}
    BY <1>7 DEF FlushCall, DataTypes
  <2>3. NotAsked(f)'
    BY <1>1, <1>4, <2>1 DEF FlushPlaces, BufferSend
  <2> QED
    BY <1>2, <2>1, <2>2, <2>3 DEF Progress
<1>8. CASE FlushLock(f)
  <2>1. pc[f] = "flush" /\ pc'[f] = "dequeue" /\ awaited' = awaited
    BY <1>8, MoveFlush DEF FlushLock, FlushPlaces
  <2>2. NotAsked(f)'
    BY <1>1, <1>4, <2>1 DEF FlushPlaces, BufferSend
  <2> QED
    BY <1>1, <1>2, <2>1, <2>2 DEF Progress
<1>9. CASE FlushDequeue(f)
  <2> DEFINE n == Len(queue)
  <2>1. /\ pc[f] = "dequeue" /\ pc'[f] = IF Written(n) THEN "buffer" ELSE "retry"
        /\ awaited' = awaited /\ TryDequeue(f, n) /\ n \in 0 .. n /\ stopped' = stopped
    BY <1>9, MoveFlush, LenProperties DEF FlushDequeue, FlushPlaces,
       FlushNext, DataTypes
  <2>2. NotAsked(f)'
    BY <1>1, <1>4, <2>1 DEF FlushPlaces, BufferSend
  <2>3. ASSUME ~stopped', pc'[f] = "buffer" PROVE awaited'[f] \subseteq InChannel'
    <3>1. queue' = SubSeq(queue, n + 1, Len(queue))
      BY <2>1, <2>3, DequeueStep
    <3>2. ToSet(queue') = {}
      <4>1. SubSeq(queue, n + 1, Len(queue)) = <<>>
        BY CutAll DEF DataTypes
      <4> QED
        BY <3>1, <4>1, EmptyToSet
    <3>3. TakenByShutdown' = <<>> /\ ~ShutdownTimedOut' /\ late' = {}
      <4>1. \A s \in Shutdowns : pc'[s] \in {"idle", "ignored"} /\ s \notin timedOut'
        BY <2>3 DEF ShutInv
      <4> QED
        BY <2>3, <4>1 DEF TakenByShutdown, ShutdownTimedOut, LateInv
    <3>4. ToSet(emitted') \subseteq InPipeline' \cup overwritten' \cup abandoned'
      BY <3>3 DEF ConserveInv
    <3> QED
      BY <1>1, <1>2, <2>1, <3>2, <3>3, <3>4, EmptyToSet DEF InPipeline,
         InChannel, InHands, Settled
  <2> QED
    BY <1>1, <1>2, <2>1, <2>2, <2>3 DEF Progress
<1>10. CASE FlushRetry(f)
  <2>1. /\ pc[f] = "retry" /\ pc'[f] = IF f \in cancelled THEN "buffer" ELSE "flush"
        /\ awaited' = awaited /\ (f \in cancelled => f \in timedOut')
    BY <1>10, MoveFlush DEF FlushRetry, FlushPlaces
  <2>2. NotAsked(f)'
    BY <1>1, <1>4, <2>1 DEF FlushPlaces, BufferSend
  <2> QED
    BY <1>1, <1>2, <2>1, <2>2 DEF Progress
<1>11. CASE BufferLock(f)
  <2>1. pc[f] = "buffer" /\ awaited' = awaited
    BY <1>11 DEF BufferLock
  <2>2. NotAsked(f)'
    BY <1>1, <1>4, <2>1 DEF FlushPlaces, BufferSend
  <2>3. CASE eStopped
    <3>1. pc'[f] = "done" /\ stopped
      BY <1>11, <2>3, MoveWaiter, Kinds DEF BufferLock, AfterBuffer, ShutInv,
         Closing
    <3> QED
      BY <1>1, <1>2, <1>3, <2>1, <3>1
  <2>4. CASE ~eStopped
    <3>1. pc'[f] = "send"
      BY <1>11, <2>4, MoveWaiter, Kinds DEF BufferLock
    <3> QED
      BY <1>1, <1>2, <1>3, <2>1, <2>2, <3>1 DEF Progress
  <2> QED
    BY <2>3, <2>4
<1>12. CASE BufferSend(f)
  <2>1. /\ pc[f] = "send" /\ pc'[f] = "await" /\ awaited' = awaited /\ replied' = replied
        /\ Recs(input) = <<>>
    BY <1>12, MoveWaiter, Kinds, SendStep, NoPayload DEF BufferSend, exportVars
  <2>2. f \notin replied' /\ InChannel = InHands
    BY <1>1, <2>1, EmptyToSet DEF FlushPlaces, NotAsked, InChannel
  <2> QED
    BY <1>1, <1>2, <1>3, <2>1, <2>2 DEF Progress
<1>13. CASE BufferReply(f)
  <2>1. pc[f] = "await" /\ pc'[f] = "done" /\ awaited' = awaited /\ f \in replied
    BY <1>13, MoveWaiter, Kinds DEF BufferReply, AfterBuffer
  <2> QED
    BY <1>1, <1>2, <1>3, <2>1 DEF Progress
<1>14. CASE BufferTimesOut(f)
  <2>1. pc'[f] = "done" /\ awaited' = awaited /\ f \in timedOut'
    BY <1>14, MoveWaiter, Kinds DEF BufferTimesOut, AfterBuffer
  <2> QED
    BY <1>1, <1>2, <2>1
<1> QED
  BY <1>6, <1>7, <1>8, <1>9, <1>10, <1>11, <1>12, <1>13, <1>14, FlushMoved
     DEF FlushMoves, FlushProceeds, BufferNext

-----------------------------------------------------------------------------
(* The theorems. *)

(* Everything above together: the inductive invariant of the processor.    *)
BatchInv ==
  /\ TypeOK /\ ShutInv /\ InputInv /\ ExportInv /\ LateInv /\ NoLostWakeup
  /\ OrderInv /\ ConserveInv /\ FlushInv

LEMMA BatchInit == Init => BatchInv
<1> SUFFICES ASSUME Init PROVE BatchInv
  OBVIOUS
<1>1. TypeOK
  BY TypeInit
<1>2. /\ \A c \in Calls : pc[c] = "idle"
      /\ ~stopped /\ ~eStopped /\ ~closed /\ exporter = "up" /\ timedOut = {} /\ ~expDone
      /\ queue = <<>> /\ emitted = <<>> /\ exported = <<>> /\ data = <<>> /\ input = <<>>
      /\ exporting = <<>> /\ late = {} /\ replied = {} /\ overwritten = {} /\ abandoned = {}
      /\ held = <<>>
  BY DEF Init
<1>3. awaited = [f \in Flushes |-> {}]
  BY DEF Init
<1>4. ShutInv
  BY <1>2, Kinds DEF ShutInv, Closing
<1>5. InputInv
  BY <1>2, Kinds DEF InputInv
<1>6. ExportInv
  BY <1>2 DEF ExportInv
<1>7. LateInv
  <2>1. ToSet(emitted) = {} /\ ToSet(queue) = {} /\ IsInjective(emitted)
    BY <1>2, EmptyToSet DEF IsInjective
  <2> QED
    BY <1>2, <2>1 DEF LateInv
<1>8. NoLostWakeup
  <2>1. Len(queue) = 0
    BY <1>2
  <2>2. ~HasBatch(Len(queue))
    BY <2>1, BatchSizeAssumption DEF HasBatch
  <2> QED
    BY <2>2 DEF NoLostWakeup
<1>9. Recs(data) = <<>> /\ Recs(input) = <<>> /\ TakenByShutdown = <<>>
  BY <1>2, NoPayload DEF TakenByShutdown
<1>10. OrderInv
  <2>1. PartsOrdered(<<>>, <<>>, <<>>, <<>>, <<>>, Precedence)
    BY OrderedEmpty DEF PartsOrdered, AllBefore
  <2>2. InPipeline \subseteq ToSet(emitted)
    BY <1>2, <1>9, EmptyToSet DEF InPipeline
  <2> QED
    BY <1>2, <1>9, <2>1, <2>2 DEF OrderInv
<1>11. ConserveInv
  BY <1>2, EmptyToSet DEF ConserveInv
<1>12. FlushInv
  BY <1>2, <1>3, Kinds DEF FlushInv, NotAsked, Progress
<1> QED
  BY <1>1, <1>4, <1>5, <1>6, <1>7, <1>8, <1>10, <1>11, <1>12 DEF BatchInv

LEMMA BatchNext == BatchInv /\ [Next]_vars => BatchInv'
<1> SUFFICES ASSUME BatchInv, [Next]_vars PROVE BatchInv'
  OBVIOUS
<1>1. /\ DataTypes /\ PlacesOK /\ ShutInv /\ InputInv /\ ExportInv /\ LateInv /\ NoLostWakeup
      /\ OrderInv /\ ConserveInv /\ FlushInv
  BY DEF BatchInv, TypeOK
<1>2. TypeOK' /\ PlacesOK'
  BY <1>1, DataTypesNext, PlacesNext DEF TypeOK
<1>3. ShutInv' /\ InputInv' /\ ExportInv' /\ LateInv' /\ NoLostWakeup'
  BY <1>1, ShutNext, InputNext, ExportInvNext, LateNext, WakeNext
<1>4. OrderInv' /\ ConserveInv'
  BY <1>1, <1>3, OrderNext, ConserveNext
<1>5. FlushInv'
  BY <1>1, <1>2, <1>3, <1>4, FlushNextInv
<1> QED
  BY <1>2, <1>3, <1>4, <1>5 DEF BatchInv

(* The inductive invariant holds in every reachable state.                 *)
THEOREM BatchInvariant == Spec => []BatchInv
<1>1. Init => BatchInv
  BY BatchInit
<1>2. BatchInv /\ [Next]_vars => BatchInv'
  BY BatchNext
<1> QED
  BY <1>1, <1>2, PTL DEF Spec

(* Every variable has its type in every reachable state, the channel and   *)
(* the export goroutine hold one element at most, and every call is where  *)
(* a call of its kind may be.                                              *)
THEOREM TypeCorrect == Spec => []TypeOK
<1>1. BatchInv => TypeOK
  BY DEF BatchInv
<1> QED
  BY <1>1, BatchInvariant, PTL

(* Nobody waits to send on the channel that Shutdown has closed            *)
(* (exporter.go, enqueue).                                                 *)
THEOREM ClosedForSenders == Spec => []NoSendOnClosed
<1>1. BatchInv => NoSendOnClosed
  BY DEF BatchInv, InputInv, NoSendOnClosed
<1> QED
  BY <1>1, BatchInvariant, PTL

(* While a whole batch is in the queue, the poll goroutine is awake or     *)
(* will be woken, without the help of the ticker (batch.go, pollTrigger).  *)
THEOREM WakeupKept == Spec => []NoLostWakeup
<1>1. BatchInv => NoLostWakeup
  BY DEF BatchInv
<1> QED
  BY <1>1, BatchInvariant, PTL

(* A ForceFlush that returns nil, with no Shutdown about, has handed over  *)
(* everything that was queued when it was called.                          *)
THEOREM FlushCompletes == Spec => []FlushIsComplete
<1>1. BatchInv => FlushIsComplete
  <2> SUFFICES ASSUME BatchInv, NEW f \in Flushes, pc[f] = "done", f \notin timedOut, ~stopped
               PROVE  awaited[f] \subseteq ToSet(exported) \cup overwritten \cup abandoned
    BY DEF FlushIsComplete
  <2> QED
    BY DEF BatchInv, FlushInv, Progress, Settled
<1> QED
  BY <1>1, BatchInvariant, PTL

(* A Shutdown that had the time it needs stops the exporter after the last *)
(* export, with everything handed over that was queued before the call.    *)
THEOREM ShutdownHandsOver == Spec => []ShutdownDrains
<1>1. BatchInv => ShutdownDrains
  <2> SUFFICES ASSUME BatchInv, exporter # "up", ~ShutdownTimedOut
               PROVE  /\ exporting = <<>> /\ data = <<>> /\ input = <<>>
                      /\ ToSet(emitted) \ late \subseteq
                           ToSet(exported) \cup overwritten \cup abandoned
    BY DEF ShutdownDrains
  <2>1. exporting = <<>> /\ data = <<>> /\ input = <<>>
    BY DEF BatchInv, ExportInv
  <2>2. PICK s \in Shutdowns : pc[s] \in {"exporter", "done"}
    BY DEF BatchInv, ShutInv
  <2>3. ToSet(queue) \subseteq late
    BY <2>2 DEF BatchInv, LateInv, TookQueue, Closing, ShutdownTimedOut
  <2>4. TakenByShutdown = <<>>
    <3>1. \A t \in Shutdowns : pc[t] \notin {"buffer", "send"}
      BY <2>2 DEF BatchInv, ShutInv
    <3> QED
      BY <3>1 DEF TakenByShutdown
  <2>5. ToSet(emitted) \ late \subseteq InPipeline \cup overwritten \cup abandoned
    BY DEF BatchInv, ConserveInv
  <2> QED
    BY <2>1, <2>3, <2>4, <2>5, NoPayload, EmptyToSet DEF InPipeline
<1> QED
  BY <1>1, BatchInvariant, PTL

(* The pipeline, put together from its parts.                              *)
LEMMA PipelineParts ==
  ASSUME DataTypes
  PROVE  /\ Pipeline \in Seq(Records) /\ ToSet(Pipeline) = InPipeline
         /\ \A R : PartsOrdered(exported, Recs(data), Recs(input), TakenByShutdown, queue, R)
                    => OrderedBy(Pipeline, R)
<1> DEFINE e == exported
           d == Recs(data)
           i == Recs(input)
           h == TakenByShutdown
           q == queue
           ed == e \o d
           edi == ed \o i
           edih == edi \o h
<1>1. e \in Seq(Records) /\ d \in Seq(Records) /\ i \in Seq(Records) /\ h \in Seq(Records) /\ q \in Seq(Records)
  BY PartsTyped
<1>2. Pipeline = edih \o q /\ InPipeline = ToSet(e) \cup ToSet(d) \cup ToSet(i) \cup ToSet(h) \cup ToSet(q)
  BY DEF Pipeline, InPipeline
<1> HIDE DEF e, d, i, h, q
<1>3. ed \in Seq(Records) /\ ToSet(ed) = ToSet(e) \cup ToSet(d)
  BY <1>1, JoinEntries, JoinToSet
<1> HIDE DEF ed
<1>4. edi \in Seq(Records) /\ ToSet(edi) = ToSet(ed) \cup ToSet(i)
  BY <1>1, <1>3, JoinEntries, JoinToSet
<1> HIDE DEF edi
<1>5. edih \in Seq(Records) /\ ToSet(edih) = ToSet(edi) \cup ToSet(h)
  BY <1>1, <1>4, JoinEntries, JoinToSet
<1> HIDE DEF edih
<1>6. edih \o q \in Seq(Records) /\ ToSet(edih \o q) = ToSet(edih) \cup ToSet(q)
  BY <1>1, <1>5, JoinEntries, JoinToSet
<1>7. ASSUME NEW R, PartsOrdered(e, d, i, h, q, R)
      PROVE  OrderedBy(edih \o q, R)
  <2>1. /\ OrderedBy(e, R) /\ OrderedBy(d, R) /\ OrderedBy(i, R) /\ OrderedBy(h, R) /\ OrderedBy(q, R)
        /\ AllBefore(ToSet(e), ToSet(d), R) /\ AllBefore(ToSet(e) \cup ToSet(d), ToSet(i), R)
        /\ AllBefore(ToSet(e) \cup ToSet(d) \cup ToSet(i), ToSet(h), R)
        /\ AllBefore(ToSet(e) \cup ToSet(d) \cup ToSet(i) \cup ToSet(h), ToSet(q), R)
    BY <1>7 DEF PartsOrdered, AllBefore
  <2>2. OrderedBy(ed, R)
    BY <1>1, <2>1, JoinOrdered DEF ed
  <2>3. OrderedBy(edi, R)
    BY <1>1, <1>3, <2>1, <2>2, JoinOrdered DEF edi
  <2>4. OrderedBy(edih, R)
    BY <1>1, <1>3, <1>4, <2>1, <2>3, JoinOrdered DEF edih
  <2> QED
    BY <1>1, <1>3, <1>4, <1>5, <2>1, <2>4, JoinOrdered
<1> QED
  BY <1>2, <1>3, <1>4, <1>5, <1>6, <1>7 DEF e, d, i, h, q

(* A record that was queued before Shutdown is in the pipeline, unless it  *)
(* was overwritten or its export failed, as long as Shutdown has the time  *)
(* it needs.                                                               *)
THEOREM RecordsKept == Spec => []NothingVanishes
<1>1. BatchInv => NothingVanishes
  BY PipelineParts DEF BatchInv, TypeOK, ConserveInv, NothingVanishes
<1> QED
  BY <1>1, BatchInvariant, PTL

(* No record is exported twice, and those queued before Shutdown leave in  *)
(* the order they came, whichever of the poll goroutine, ForceFlush and    *)
(* Shutdown moves them.                                                    *)
THEOREM ExportedInOrder == Spec => []InOrder
<1>1. BatchInv => InOrder
  <2> SUFFICES ASSUME BatchInv PROVE InOrder
    OBVIOUS
  <2>1. OrderedBy(Pipeline, Precedence)
    BY PipelineParts DEF BatchInv, TypeOK, OrderInv
  <2> QED
    BY <2>1 DEF InOrder, OrderedBy, Precedence
<1> QED
  BY <1>1, BatchInvariant, PTL

===============================================================================
