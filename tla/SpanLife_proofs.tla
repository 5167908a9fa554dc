--------------------------- MODULE SpanLife_proofs ---------------------------
(***************************************************************************)
(* Proofs about a span and the simple processor (sdk/trace/span.go,        *)
(* evictedqueue.go and simple_span_processor.go): the safety properties of *)
(* modules Span, SimpleSpanProcessor and SpanLife and the refinement of    *)
(* SpanAttributes, for any number of goroutines, calls, attributes and     *)
(* limits.                                                                 *)
(***************************************************************************)
EXTENDS SpanLife, SequenceLemmas, SequenceTheorems, FiniteSetTheorems, TLAPS

-----------------------------------------------------------------------------
(* Type correctness, of everything but the attributes' memory. *)

Places == {"idle", "SetAttributes", "SetStatus", "events", "links", "addChild",
           "end", "panic", "snapshot", "OnEnd", "export"}

Args == [kvs : Batches \cup {<<>>}, n : Codes \cup Nat]

IsSeq(s) == \E S : s \in Seq(S)

TypeOK ==
  /\ pc \in [Threads -> Places]
  /\ arg \in [Threads -> Args]
  /\ queue \in [Queues -> [held : Seq(Nat), dropped : Nat]]
  /\ added \in [Queues -> Nat]
  /\ ended \in BOOLEAN
  /\ IsSeq(snaps)
  /\ exporterMu \in Enders \cup {Goroutine, NoProc}
  /\ exporter \in BOOLEAN
  /\ exporting \in SUBSET (Enders \cup {Goroutine})
  /\ exported \in Seq(Codes \cup Nat)
  /\ stopOnce \in {"new", "running", "done"}
  /\ stopPc \in [Stoppers -> {"idle", "lock", "once", "select", "nil", "stopped", "ctxErr"}]
  /\ worker \in {"none", "shutdown", "OnEnd", "export", "send", "gone"}

-----------------------------------------------------------------------------
(* The inductive invariants. *)

(* Only who holds exporterMu exports, and once the goroutine of Shutdown   *)
(* runs there is no exporter in the field any more and nobody exports.     *)
ProtectInv ==
  /\ exporting \subseteq {exporterMu}
  /\ MuFree => exporting = {}
  /\ Goroutine \notin exporting
  /\ worker # "none" => ~exporter /\ exporting = {}

(* A queue holds the newest of what was added; one without room holds      *)
(* nothing, and one with room is empty only before the first.              *)
QueueInv ==
  \A w \in Queues :
    /\ Len(queue[w].held) + queue[w].dropped = added[w]
    /\ \A i \in DOMAIN queue[w].held :
         queue[w].held[i] = added[w] - Len(queue[w].held) + i
    /\ Capacity[w] = 0 => queue[w].held = <<>>
    /\ Capacity[w] # 0 /\ queue[w].held = <<>> => added[w] = 0

(* The same of one snapshot. *)
SnapInv(s) ==
  \A w \in Queues : Capacity[w] # 0 =>
    /\ Len(s.held[w]) + s.lost[w] = s.added[w]
    /\ \A i \in DOMAIN s.held[w] : s.held[w][i] = s.added[w] - Len(s.held[w]) + i

SnapsInv == \A n \in DOMAIN snaps : SnapInv(snaps[n])

(* An ended span has a snapshot or is about to have one, and a snapshot    *)
(* that was not exported is held by a goroutine on its way to OnEnd, or    *)
(* came too late for the exporter.                                         *)
DeliveryInv ==
  /\ ended => snaps # <<>> \/ \E t \in Threads : pc[t] = "snapshot"
  /\ \A n \in DOMAIN snaps :
       \/ \E i \in DOMAIN exported : exported[i] = n
       \/ \E t \in Threads : pc[t] = "OnEnd" /\ arg[t].n = n
       \/ ~exporter \/ ~Sampled

-----------------------------------------------------------------------------
(* What Append does to a sequence of anything.                             *)
LEMMA AppendAny ==
  ASSUME NEW s, NEW x, IsSeq(s)
  PROVE  /\ IsSeq(Append(s, x))
         /\ Len(s) \in Nat
         /\ DOMAIN s = 1..Len(s)
         /\ DOMAIN Append(s, x) = 1..(Len(s) + 1)
         /\ Len(Append(s, x)) = Len(s) + 1
         /\ \A i \in 1..Len(s) : Append(s, x)[i] = s[i]
         /\ Append(s, x)[Len(s) + 1] = x
<1>1. PICK S : s \in Seq(S)
  BY DEF IsSeq
<1>2. s \in Seq(S \cup {x})
  BY <1>1
<1>3. Append(s, x) \in Seq(S \cup {x})
  BY <1>2
<1>4. IsSeq(Append(s, x))
  BY <1>3 DEF IsSeq
<1> HIDE DEF IsSeq
<1> QED
  BY <1>2, <1>3, <1>4

LEMMA TypeInit == LifeInit => TypeOK
<1> SUFFICES ASSUME LifeInit PROVE TypeOK
  OBVIOUS
<1>1. <<>> \in Seq(Nat)
  OBVIOUS
<1>2. IsSeq(snaps)
  BY <1>1 DEF LifeInit, Init, IsSeq
<1> QED
  <2>1. NoArg \in Args
    BY DEF NoArg, Args
  <2>2. [held |-> <<>>, dropped |-> 0] \in [held : Seq(Nat), dropped : Nat]
    OBVIOUS
  <2>3. /\ pc \in [Threads -> Places]
        /\ stopPc \in [Stoppers -> {"idle", "lock", "once", "select", "nil", "stopped", "ctxErr"}]
        /\ exported \in Seq(Codes \cup Nat)
    BY DEF LifeInit, Init, SspInit, Places
  <2> QED
    BY <1>2, <2>1, <2>2, <2>3 DEF LifeInit, Init, SspInit, TypeOK

(* Add replaces the queue and the count of w by what QueueInv says of      *)
(* them.                                                                   *)
LEMMA AddTypes ==
  ASSUME TypeOK, NEW w \in Queues, Add(w)
  PROVE  /\ queue' \in [Queues -> [held : Seq(Nat), dropped : Nat]]
         /\ added' \in [Queues -> Nat]
<1> DEFINE q == queue[w]
<1>1. q \in [held : Seq(Nat), dropped : Nat] /\ added[w] + 1 \in Nat
  BY DEF TypeOK
<1>2. added' \in [Queues -> Nat]
  BY <1>1 DEF Add, TypeOK
<1>3. ASSUME Len(q.held) = Capacity[w], Capacity[w] # 0
      PROVE  Tail(q.held) \in Seq(Nat)
  <2>1. q.held # <<>>
    BY <1>1, <1>3, EmptySeq
  <2> QED
    BY <1>1, <2>1
<1>4. CASE Capacity[w] = 0
  <2>1. [q EXCEPT !.dropped = @ + 1] = [held |-> q.held, dropped |-> q.dropped + 1]
    BY <1>1
  <2>2. [held |-> q.held, dropped |-> q.dropped + 1] \in [held : Seq(Nat), dropped : Nat]
    BY <1>1
  <2> QED
    BY <1>2, <1>4, <2>1, <2>2 DEF Add, TypeOK
<1>5. CASE Capacity[w] # 0 /\ Len(q.held) = Capacity[w]
  <2>1. [held |-> Append(Kept(q.held), added[w] + 1), dropped |-> q.dropped + 1]
          \in [held : Seq(Nat), dropped : Nat]
    BY <1>1, <1>3, <1>5 DEF Kept
  <2> QED
    BY <1>2, <1>5, <2>1 DEF Add, TypeOK
<1>6. CASE Capacity[w] # 0 /\ Len(q.held) # Capacity[w]
  <2>1. [q EXCEPT !.held = Append(@, added[w] + 1)]
          = [held |-> Append(q.held, added[w] + 1), dropped |-> q.dropped]
    <3> DEFINE a == Append(q.held, added[w] + 1)
    <3>1. [q EXCEPT !.held = a] = [held |-> a, dropped |-> q.dropped]
      <4> HIDE DEF a
      <4> QED
        BY <1>1
    <3> QED
      BY <3>1
  <2>2. Append(q.held, added[w] + 1) \in Seq(Nat)
    BY <1>1, AppendProperties
  <2>3. [held |-> Append(q.held, added[w] + 1), dropped |-> q.dropped]
          \in [held : Seq(Nat), dropped : Nat]
    BY <1>1, <2>2
  <2> QED
    BY <1>2, <1>6, <2>1, <2>3 DEF Add, TypeOK
<1> QED
  BY <1>4, <1>5, <1>6

LEMMA TypeNext ==
  TypeOK /\ [LifeNext]_lifeVars => TypeOK'
<1> SUFFICES ASSUME TypeOK, [LifeNext]_lifeVars
             PROVE  TypeOK'
  OBVIOUS
<1> USE DEF TypeOK, Places, Args, Queues, vars, spanVars, threadVars, sspVars
<1>1. ASSUME Start, UNCHANGED sspVars PROVE TypeOK'
  BY <1>1 DEF Start
<1>2. ASSUME NEW t \in Threads, Calls(t), UNCHANGED sspVars PROVE TypeOK'
  <2>1. ASSUME NEW label \in Places, NEW kvs \in Batches \cup {<<>>},
               NEW n \in Codes \cup Nat, Call(t, label, kvs, n)
        PROVE  TypeOK'
    <3>1. [kvs |-> kvs, n |-> n] \in Args
      OBVIOUS
    <3>2. pc' \in [Threads -> Places] /\ arg' \in [Threads -> Args]
      BY <2>1, <3>1 DEF Call, Goto
    <3> QED
      BY <2>1, <3>2, <1>2 DEF Call
  <2> QED
    <3>1. \A kvs \in Batches : kvs \in Batches \cup {<<>>}
      OBVIOUS
    <3>2. \A label \in {"SetAttributes", "SetStatus", "events", "links", "addChild", "end",
                        "panic"} : label \in Places
      BY DEF Places
    <3>3. 0 \in Codes \cup Nat /\ <<>> \in Batches \cup {<<>>}
      OBVIOUS
    <3> HIDE DEF Places
    <3> QED
      BY <1>2, <2>1, <3>1, <3>2, <3>3 DEF Calls
<1>3. ASSUME NEW t \in Threads, LateSetAttributes(t), UNCHANGED sspVars
      PROVE  TypeOK'
  BY <1>3 DEF LateSetAttributes, Return, Goto, NoArg
<1>4. ASSUME NEW t \in Threads, LateAdd(t), UNCHANGED sspVars PROVE TypeOK'
  <2>1. pc[t] \in Queues
    BY <1>4 DEF LateAdd
  <2>2. queue' \in [Queues -> [held : Seq(Nat), dropped : Nat]] /\ added' \in [Queues -> Nat]
    BY <1>4, <2>1, AddTypes DEF LateAdd
  <2> QED
    BY <1>4, <2>2 DEF LateAdd, Return, Goto, NoArg
<1>5. ASSUME NEW t \in Threads, LateSetStatus(t), UNCHANGED sspVars
      PROVE  TypeOK'
  BY <1>5 DEF LateSetStatus, Return, Goto, NoArg
<1>6. ASSUME NEW t \in Threads, LateAddChild(t), UNCHANGED sspVars
      PROVE  TypeOK'
  BY <1>6 DEF LateAddChild, Return, Goto, NoArg
<1>7. ASSUME NEW t \in Threads, Attributes(t), UNCHANGED sspVars PROVE TypeOK'
  BY <1>7 DEF Attributes
<1>8. ASSUME NEW t \in Threads, EndPanicEvent(t), UNCHANGED sspVars
      PROVE  TypeOK'
  <2>1. queue' \in [Queues -> [held : Seq(Nat), dropped : Nat]] /\ added' \in [Queues -> Nat]
    BY <1>8, AddTypes DEF EndPanicEvent, Queues
  <2> QED
    BY <1>8, <2>1 DEF EndPanicEvent, Goto
<1>9. ASSUME NEW t \in Threads, EndMark(t), UNCHANGED sspVars PROVE TypeOK'
  BY <1>9 DEF EndMark, Goto
<1>10. ASSUME NEW t \in Threads, Snapshot(t), UNCHANGED sspVars PROVE TypeOK'
  <2>1. IsSeq(snaps') /\ Len(snaps') \in Nat
    BY <1>10, AppendAny DEF Snapshot
  <2> QED
    BY <1>10, <2>1 DEF Snapshot, Goto
<1>11. ASSUME NEW t \in Threads, OnEnd(t) PROVE TypeOK'
  <2>1. t \in Enders
    BY EnderAssumption
  <2>2. arg[t].n \in Codes \cup Nat /\ NoArg \in Args
    BY DEF NoArg
  <2>3. pc' \in [Threads -> Places] /\ arg' \in [Threads -> Args]
    BY <1>11, <2>2 DEF OnEnd, Goto
  <2>4. Append(exported, arg[t].n) \in Seq(Codes \cup Nat)
    BY <2>2, AppendProperties
  <2>5. exported' \in Seq(Codes \cup Nat)
    BY <1>11, <2>4 DEF OnEnd, OnEndExports, OnEndIgnores
  <2> QED
    BY <1>11, <2>1, <2>3, <2>5 DEF OnEnd, OnEndExports, OnEndIgnores
<1>12. ASSUME NEW t \in Threads, Exported(t) PROVE TypeOK'
  BY <1>12 DEF Exported, ExportReturns, Return, Goto, NoArg
<1>13. ASSUME WorkerEndsSpan, UNCHANGED vars PROVE TypeOK'
  BY <1>13 DEF WorkerEndsSpan
<1>14. ASSUME WorkerOnEnd, UNCHANGED vars PROVE TypeOK'
  <2>1. 0 \in Codes \cup Nat
    OBVIOUS
  <2>2. Append(exported, 0) \in Seq(Codes \cup Nat)
    BY <2>1, AppendProperties
  <2> QED
    BY <1>14, <2>2 DEF WorkerOnEnd, OnEndExports, OnEndIgnores
<1>15. ASSUME WorkerExported, UNCHANGED vars PROVE TypeOK'
  BY <1>15 DEF WorkerExported, ExportReturns
<1>16. ASSUME WorkerStopped, UNCHANGED vars PROVE TypeOK'
  BY <1>16 DEF WorkerStopped
<1>17. ASSUME NEW p \in Stoppers, ShutdownCall(p), UNCHANGED vars
      PROVE  TypeOK'
  BY <1>17 DEF ShutdownCall
<1>18. ASSUME NEW p \in Stoppers, AfterOthers(p), UNCHANGED vars PROVE TypeOK'
  BY <1>18 DEF AfterOthers
<1>19. ASSUME NEW p \in Stoppers, TakeExporter(p), UNCHANGED vars
      PROVE  TypeOK'
  BY <1>19 DEF TakeExporter, Zeroed
<1>20. ASSUME NEW p \in Stoppers, Done(p), UNCHANGED vars PROVE TypeOK'
  BY <1>20 DEF Done
<1>21. ASSUME NEW p \in Stoppers, CtxDone(p), UNCHANGED vars PROVE TypeOK'
  BY <1>21 DEF CtxDone
<1>22. ASSUME UNCHANGED lifeVars PROVE TypeOK'
  BY <1>22 DEF lifeVars, vars, spanVars, threadVars, sspVars
<1> QED
  BY <1>1, <1>2, <1>3, <1>4, <1>5, <1>6, <1>7, <1>8, <1>9, <1>10, <1>11,
      <1>12, <1>13, <1>14, <1>15, <1>16, <1>17, <1>18, <1>19, <1>20, <1>21, <1>22
  DEF LifeNext, SpanNext, SspNext, WorkerNext, ShutdownNext

(* Every variable but the attributes' memory has its type: among them,     *)
(* the queues hold serial numbers, and exporterMu is free or held by a     *)
(* goroutine that ends spans.                                              *)
THEOREM TypeCorrect == Spec => []TypeOK
<1>1. LifeInit => TypeOK
  BY TypeInit
<1>2. TypeOK /\ [LifeNext]_lifeVars => TypeOK'
  BY TypeNext
<1> QED
  BY <1>1, <1>2, PTL DEF Spec

-----------------------------------------------------------------------------
(* The exporter. *)

LEMMA ProtectNext ==
  TypeOK /\ ProtectInv /\ [LifeNext]_lifeVars => ProtectInv'
<1> SUFFICES ASSUME TypeOK, ProtectInv, [LifeNext]_lifeVars
             PROVE  ProtectInv'
  OBVIOUS
<1> USE DEF ProtectInv, MuFree, TypeOK, sspVars
<1>1. ASSUME SpanNext, UNCHANGED sspVars PROVE ProtectInv'
  BY <1>1
<1>2. ASSUME NEW t \in Threads, OnEnd(t) PROVE ProtectInv'
  <2>1. t # NoProc /\ t # Goroutine
    BY EnderAssumption, ProcAssumption
  <2> QED
    BY <1>2, <2>1 DEF OnEnd, OnEndExports, OnEndIgnores
<1>3. ASSUME NEW t \in Threads, Exported(t) PROVE ProtectInv'
  BY <1>3 DEF Exported, ExportReturns
<1>4. ASSUME WorkerEndsSpan, UNCHANGED vars PROVE ProtectInv'
  BY <1>4 DEF WorkerEndsSpan
<1>5. ASSUME WorkerOnEnd, UNCHANGED vars PROVE ProtectInv'
  <2>1. Goroutine # NoProc
    BY ProcAssumption
  <2> QED
    BY <1>5, <2>1 DEF WorkerOnEnd, OnEndExports, OnEndIgnores
<1>6. ASSUME WorkerExported, UNCHANGED vars PROVE ProtectInv'
  BY <1>6 DEF WorkerExported, ExportReturns
<1>7. ASSUME WorkerStopped, UNCHANGED vars PROVE ProtectInv'
  BY <1>7 DEF WorkerStopped
<1>8. ASSUME NEW p \in Stoppers, ShutdownCall(p), UNCHANGED vars
      PROVE  ProtectInv'
  BY <1>8 DEF ShutdownCall
<1>9. ASSUME NEW p \in Stoppers, AfterOthers(p), UNCHANGED vars
      PROVE  ProtectInv'
  BY <1>9 DEF AfterOthers
<1>10. ASSUME NEW p \in Stoppers, TakeExporter(p), UNCHANGED vars
      PROVE  ProtectInv'
  BY <1>10 DEF TakeExporter, Zeroed
<1>11. ASSUME NEW p \in Stoppers, Done(p), UNCHANGED vars PROVE ProtectInv'
  BY <1>11 DEF Done
<1>12. ASSUME NEW p \in Stoppers, CtxDone(p), UNCHANGED vars PROVE ProtectInv'
  BY <1>12 DEF CtxDone
<1>13. ASSUME UNCHANGED lifeVars PROVE ProtectInv'
  BY <1>13 DEF lifeVars, vars, spanVars, threadVars, sspVars
<1> QED
  BY <1>1, <1>2, <1>3, <1>4, <1>5, <1>6, <1>7, <1>8, <1>9, <1>10, <1>11,
      <1>12, <1>13
  DEF LifeNext, SspNext, WorkerNext, ShutdownNext

(* The exporter is called by one goroutine at a time and never once        *)
(* Shutdown has taken it away (simple_span_processor.go, OnEnd and         *)
(* Shutdown).                                                              *)
THEOREM OneExportAtATime == Spec => []ExporterProtected
<1>1. LifeInit => TypeOK /\ ProtectInv
  BY TypeInit DEF LifeInit, SspInit, ProtectInv, MuFree
<1>2. TypeOK /\ ProtectInv /\ [LifeNext]_lifeVars => TypeOK' /\ ProtectInv'
  BY TypeNext, ProtectNext
<1>3. ProtectInv => ExporterProtected
  <2> SUFFICES ASSUME ProtectInv
               PROVE  Cardinality(exporting) <= 1 /\ (ExporterTold => exporting = {})
    BY DEF ExporterProtected
  <2>1. exporting = {} \/ exporting = {exporterMu}
    BY DEF ProtectInv
  <2>2. Cardinality({}) = 0 /\ Cardinality({exporterMu}) = 1
    BY FS_EmptySet, FS_Singleton
  <2> QED
    BY <2>1, <2>2 DEF ProtectInv, ExporterTold
<1> QED
  BY <1>1, <1>2, <1>3, PTL DEF Spec

-----------------------------------------------------------------------------
(* The queues of events and links. *)

(* One queue after Add.                                                    *)
LEMMA AddOne ==
  ASSUME TypeOK, QueueInv, NEW w \in Queues, Add(w)
  PROVE  /\ Len(queue'[w].held) + queue'[w].dropped = added'[w]
         /\ \A i \in DOMAIN queue'[w].held :
              queue'[w].held[i] = added'[w] - Len(queue'[w].held) + i
         /\ Capacity[w] = 0 => queue'[w].held = <<>>
         /\ Capacity[w] # 0 => queue'[w].held # <<>>
<1> DEFINE q == queue[w]
           x == added[w] + 1
<1>1. q.held \in Seq(Nat) /\ q.dropped \in Nat /\ added[w] \in Nat
  BY DEF TypeOK
<1>2. /\ Len(q.held) + q.dropped = added[w]
      /\ \A i \in DOMAIN q.held : q.held[i] = added[w] - Len(q.held) + i
      /\ Capacity[w] = 0 => q.held = <<>>
  BY DEF QueueInv
<1>3. added'[w] = x /\ x \in Nat /\ x = added[w] + 1
  BY <1>1 DEF Add, TypeOK
<1>4. Capacity[w] \in Int
  BY CapacityAssumption
<1>5. CASE Capacity[w] = 0
  <2>1. queue'[w].held = q.held /\ queue'[w].dropped = q.dropped + 1
    BY <1>5 DEF Add, TypeOK
  <2> QED
    BY <1>1, <1>2, <1>3, <1>5, <2>1
<1>6. CASE Capacity[w] # 0 /\ Len(q.held) = Capacity[w]
  <2>1. queue'[w].held = Append(Tail(q.held), x) /\ queue'[w].dropped = q.dropped + 1
    BY <1>6 DEF Add, TypeOK, Kept
  <2>2. q.held # <<>> /\ Len(q.held) > 0
    BY <1>1, <1>6, EmptySeq, LenProperties
  <2>3. /\ Tail(q.held) \in Seq(Nat) /\ Len(Tail(q.held)) = Len(q.held) - 1
        /\ \A i \in 1..Len(Tail(q.held)) : Tail(q.held)[i] = q.held[i + 1]
    BY <1>1, <2>2, HeadTailProperties
  <2> DEFINE tl == Tail(q.held)
             s == Append(tl, x)
  <2>4. /\ s \in Seq(Nat) /\ Len(s) = Len(q.held) /\ s[Len(q.held)] = x
        /\ \A i \in 1..(Len(q.held) - 1) : s[i] = tl[i]
    BY <1>1, <2>3, AppendProperties
  <2>5. \A i \in 1..Len(q.held) : s[i] = x - Len(q.held) + i
    <3> TAKE i \in 1..Len(q.held)
    <3>0. Len(q.held) \in Nat
      BY <1>1
    <3> HIDE DEF q, x, s
    <3>1. CASE i = Len(q.held)
      BY <1>3, <2>4, <3>0, <3>1
    <3>2. CASE i # Len(q.held)
      <4>1. i \in 1..(Len(q.held) - 1) /\ i + 1 \in DOMAIN q.held
        BY <1>1, <3>0, <3>2
      <4>2. s[i] = tl[i] /\ tl[i] = q.held[i + 1]
        BY <2>3, <2>4, <3>0, <4>1
      <4>3. q.held[i + 1] = added[w] - Len(q.held) + (i + 1)
        BY <1>2, <4>1
      <4>4. i \in Nat /\ added[w] \in Nat
        BY <1>1, <3>0
      <4>5. added[w] - Len(q.held) + (i + 1) = x - Len(q.held) + i
        BY <1>3, <3>0, <4>4
      <4> QED
        BY <4>2, <4>3, <4>5
    <3> QED
      BY <3>1, <3>2
  <2>6. s # <<>>
    BY <2>2, <2>4
  <2>7. queue'[w].held = s /\ DOMAIN s = 1..Len(q.held)
    BY <2>1, <2>4
  <2>8. Len(q.held) \in Nat
    BY <1>1
  <2> HIDE DEF q, x, s
  <2>9. Len(queue'[w].held) + queue'[w].dropped = added'[w]
    BY <1>1, <1>2, <1>3, <2>1, <2>4, <2>7, <2>8
  <2>10. \A i \in DOMAIN queue'[w].held :
           queue'[w].held[i] = added'[w] - Len(queue'[w].held) + i
    BY <1>3, <2>4, <2>5, <2>7
  <2> QED
    BY <1>6, <2>6, <2>7, <2>9, <2>10
<1>7. CASE Capacity[w] # 0 /\ Len(q.held) # Capacity[w]
  <2> DEFINE s == Append(q.held, x)
  <2>1. queue'[w].held = s /\ queue'[w].dropped = q.dropped
    BY <1>7 DEF Add, TypeOK
  <2>2. /\ s \in Seq(Nat) /\ Len(s) = Len(q.held) + 1 /\ s[Len(q.held) + 1] = x
        /\ \A i \in 1..Len(q.held) : s[i] = q.held[i]
    BY <1>1, AppendProperties
  <2>3. s # <<>>
    BY <1>1, <2>2
  <2>4. Len(q.held) \in Nat /\ DOMAIN s = 1..(Len(q.held) + 1) /\ DOMAIN q.held = 1..Len(q.held)
    BY <1>1, <2>2
  <2> HIDE DEF q, x, s
  <2>5. ASSUME NEW i \in DOMAIN s PROVE s[i] = x - Len(s) + i
    <3>1. CASE i = Len(q.held) + 1
      BY <1>3, <2>2, <2>4, <3>1
    <3>2. CASE i # Len(q.held) + 1
      <4>1. i \in DOMAIN q.held
        BY <2>4, <3>2
      <4>2. s[i] = q.held[i] /\ q.held[i] = added[w] - Len(q.held) + i
        BY <1>2, <2>2, <2>4, <4>1
      <4>3. i \in Nat /\ added[w] \in Nat /\ Len(s) = Len(q.held) + 1
        BY <1>1, <2>2, <2>4
      <4>4. added[w] - Len(q.held) + i = x - (Len(q.held) + 1) + i
        <5>1. \A a, l, k \in Nat : a - l + k = (a + 1) - (l + 1) + k
          OBVIOUS
        <5>2. x = added[w] + 1 /\ Len(q.held) \in Nat
          BY <1>3, <2>4
        <5> QED
          BY <4>3, <5>1, <5>2
      <4> QED
        BY <4>2, <4>3, <4>4
    <3> QED
      BY <3>1, <3>2
  <2>6. Len(s) + q.dropped = x
    <3>1. /\ q.dropped \in Nat /\ added[w] \in Nat /\ Len(s) = Len(q.held) + 1
          /\ Len(q.held) + q.dropped = added[w]
      BY <1>1, <1>2, <2>2
    <3> QED
      BY <1>3, <2>4, <3>1
  <2> QED
    BY <1>3, <1>7, <2>1, <2>3, <2>5, <2>6
<1> QED
  BY <1>5, <1>6, <1>7

LEMMA AddKeeps ==
  ASSUME TypeOK, QueueInv, NEW w \in Queues, Add(w)
  PROVE  QueueInv'
<1> SUFFICES ASSUME NEW v \in Queues
             PROVE  /\ Len(queue'[v].held) + queue'[v].dropped = added'[v]
                    /\ \A i \in DOMAIN queue'[v].held :
                         queue'[v].held[i] = added'[v] - Len(queue'[v].held) + i
                    /\ Capacity[v] = 0 => queue'[v].held = <<>>
                    /\ Capacity[v] # 0 /\ queue'[v].held = <<>> => added'[v] = 0
  BY DEF QueueInv
<1>1. CASE v = w
  BY <1>1, AddOne
<1>2. CASE v # w
  <2>1. queue'[v] = queue[v] /\ added'[v] = added[v]
    BY <1>2 DEF Add, TypeOK
  <2> QED
    BY <2>1 DEF QueueInv
<1> QED
  BY <1>1, <1>2

LEMMA QueueNext ==
  TypeOK /\ QueueInv /\ [LifeNext]_lifeVars => QueueInv'
<1> SUFFICES ASSUME TypeOK, QueueInv, [LifeNext]_lifeVars
             PROVE  QueueInv'
  OBVIOUS
<1>1. ASSUME Start, UNCHANGED sspVars PROVE QueueInv'
  BY <1>1 DEF QueueInv, spanVars, Start
<1>2. ASSUME NEW t \in Threads, Calls(t), UNCHANGED sspVars PROVE QueueInv'
  BY <1>2 DEF QueueInv, spanVars, Calls, Call
<1>3. ASSUME NEW t \in Threads, LateSetAttributes(t), UNCHANGED sspVars
      PROVE  QueueInv'
  BY <1>3 DEF QueueInv, spanVars, LateSetAttributes
<1>4. ASSUME NEW t \in Threads, LateAdd(t), UNCHANGED sspVars PROVE QueueInv'
  BY <1>4, AddKeeps DEF LateAdd
<1>5. ASSUME NEW t \in Threads, LateSetStatus(t), UNCHANGED sspVars
      PROVE  QueueInv'
  BY <1>5 DEF QueueInv, spanVars, LateSetStatus
<1>6. ASSUME NEW t \in Threads, LateAddChild(t), UNCHANGED sspVars
      PROVE  QueueInv'
  BY <1>6 DEF QueueInv, spanVars, LateAddChild
<1>7. ASSUME NEW t \in Threads, Attributes(t), UNCHANGED sspVars
      PROVE  QueueInv'
  BY <1>7 DEF QueueInv, spanVars, Attributes
<1>8. ASSUME NEW t \in Threads, EndPanicEvent(t), UNCHANGED sspVars
      PROVE  QueueInv'
  BY <1>8, AddKeeps DEF EndPanicEvent, Queues
<1>9. ASSUME NEW t \in Threads, EndMark(t), UNCHANGED sspVars PROVE QueueInv'
  BY <1>9 DEF QueueInv, spanVars, EndMark
<1>10. ASSUME NEW t \in Threads, Snapshot(t), UNCHANGED sspVars
      PROVE  QueueInv'
  BY <1>10 DEF QueueInv, spanVars, Snapshot
<1>11. ASSUME NEW t \in Threads, OnEnd(t) PROVE QueueInv'
  BY <1>11 DEF QueueInv, spanVars, OnEnd
<1>12. ASSUME NEW t \in Threads, Exported(t) PROVE QueueInv'
  BY <1>12 DEF QueueInv, spanVars, Exported
<1>13. ASSUME SspNext, UNCHANGED vars PROVE QueueInv'
  BY <1>13 DEF vars, spanVars, QueueInv
<1>14. ASSUME UNCHANGED lifeVars PROVE QueueInv'
  BY <1>14 DEF lifeVars, vars, spanVars, QueueInv
<1> QED
  BY <1>1, <1>2, <1>3, <1>4, <1>5, <1>6, <1>7, <1>8, <1>9, <1>10, <1>11,
      <1>12, <1>13, <1>14
  DEF LifeNext, SpanNext

LEMMA SnapsNext ==
  TypeOK /\ QueueInv /\ SnapsInv /\ [LifeNext]_lifeVars => SnapsInv'
<1> SUFFICES ASSUME TypeOK, QueueInv, SnapsInv, [LifeNext]_lifeVars
             PROVE  SnapsInv'
  OBVIOUS
<1>1. ASSUME Start, UNCHANGED sspVars PROVE SnapsInv'
  BY <1>1 DEF Start, SnapsInv
<1>2. ASSUME NEW t \in Threads, Calls(t), UNCHANGED sspVars PROVE SnapsInv'
  BY <1>2 DEF Calls, Call, SnapsInv
<1>3. ASSUME NEW t \in Threads, LateSetAttributes(t), UNCHANGED sspVars
      PROVE  SnapsInv'
  BY <1>3 DEF LateSetAttributes, SnapsInv
<1>4. ASSUME NEW t \in Threads, LateAdd(t), UNCHANGED sspVars PROVE SnapsInv'
  BY <1>4 DEF LateAdd, SnapsInv
<1>5. ASSUME NEW t \in Threads, LateSetStatus(t), UNCHANGED sspVars
      PROVE  SnapsInv'
  BY <1>5 DEF LateSetStatus, SnapsInv
<1>6. ASSUME NEW t \in Threads, LateAddChild(t), UNCHANGED sspVars
      PROVE  SnapsInv'
  BY <1>6 DEF LateAddChild, SnapsInv
<1>7. ASSUME NEW t \in Threads, Attributes(t), UNCHANGED sspVars
      PROVE  SnapsInv'
  BY <1>7 DEF Attributes, SnapsInv
<1>8. ASSUME NEW t \in Threads, EndPanicEvent(t), UNCHANGED sspVars
      PROVE  SnapsInv'
  BY <1>8 DEF EndPanicEvent, SnapsInv
<1>9. ASSUME NEW t \in Threads, EndMark(t), UNCHANGED sspVars PROVE SnapsInv'
  BY <1>9 DEF EndMark, SnapsInv
<1>10. ASSUME NEW t \in Threads, Snapshot(t), UNCHANGED sspVars
      PROVE  SnapsInv'
  <2> DEFINE u == Dedupe(Read(slice))
             s == [attrs |-> slice', keys |-> [i \in DOMAIN u |-> u[i].key],
                   dropped |-> dropped, held |-> [w \in Queues |-> queue[w].held],
                   lost |-> [w \in Queues |-> Reported(w)], added |-> added,
                   status |-> status, children |-> children]
  <2>1. snaps' = Append(snaps, s) /\ s.held = [w \in Queues |-> queue[w].held]
        /\ s.lost = [w \in Queues |-> Reported(w)] /\ s.added = added
    BY <1>10 DEF Snapshot
  <2> HIDE DEF s
  <2>2. IsSeq(snaps)
    BY DEF TypeOK
  <2>3. SnapInv(s)
    <3> SUFFICES ASSUME NEW w \in Queues, Capacity[w] # 0
                 PROVE  /\ Len(s.held[w]) + s.lost[w] = s.added[w]
                        /\ \A i \in DOMAIN s.held[w] :
                             s.held[w][i] = s.added[w] - Len(s.held[w]) + i
      BY DEF SnapInv
    <3>1. /\ s.held[w] = queue[w].held /\ s.added[w] = added[w]
          /\ s.lost[w] = Reported(w)
      BY <2>1
    <3>2. queue[w].held \in Seq(Nat) /\ queue[w].dropped \in Nat /\ added[w] \in Nat
      BY DEF TypeOK
    <3>3. Len(queue[w].held) + Reported(w) = added[w]
      BY <3>2 DEF QueueInv, Reported
    <3> QED
      BY <3>1, <3>3 DEF QueueInv
  <2> SUFFICES ASSUME NEW n \in DOMAIN snaps' PROVE SnapInv(snaps'[n])
    BY DEF SnapsInv
  <2>4. CASE n \in DOMAIN snaps
    <3>1. snaps'[n] = snaps[n]
      BY <2>1, <2>2, <2>4, AppendAny
    <3> QED
      BY <2>4, <3>1 DEF SnapsInv
  <2>5. CASE n \notin DOMAIN snaps
    <3>1. snaps'[n] = s
      BY <2>1, <2>2, <2>5, AppendAny
    <3> QED
      BY <2>3, <3>1
  <2> QED
    BY <2>4, <2>5
<1>11. ASSUME NEW t \in Threads, OnEnd(t) PROVE SnapsInv'
  BY <1>11 DEF OnEnd, SnapsInv
<1>12. ASSUME NEW t \in Threads, Exported(t) PROVE SnapsInv'
  BY <1>12 DEF Exported, SnapsInv
<1>13. ASSUME SspNext, UNCHANGED vars PROVE SnapsInv'
  BY <1>13 DEF vars, SnapsInv
<1>14. ASSUME UNCHANGED lifeVars PROVE SnapsInv'
  BY <1>14 DEF lifeVars, vars, SnapsInv
<1> QED
  BY <1>1, <1>2, <1>3, <1>4, <1>5, <1>6, <1>7, <1>8, <1>9, <1>10, <1>11,
      <1>12, <1>13, <1>14
  DEF LifeNext, SpanNext

(* Each queue of events or links holds the newest of what was added, in    *)
(* order, and counts the rest, and so does every snapshot of a queue that  *)
(* can hold any (evictedqueue.go, add; span.go, snapshot).                 *)
THEOREM NewestAreKept == Spec => []NewestKept
<1>1. LifeInit => TypeOK /\ QueueInv /\ SnapsInv
  BY TypeInit DEF LifeInit, Init, QueueInv, SnapsInv
<1>2. TypeOK /\ QueueInv /\ SnapsInv /\ [LifeNext]_lifeVars
        => TypeOK' /\ QueueInv' /\ SnapsInv'
  BY TypeNext, QueueNext, SnapsNext
<1>3. QueueInv /\ SnapsInv => NewestKept
  BY DEF QueueInv, SnapsInv, SnapInv, NewestKept
<1> QED
  BY <1>1, <1>2, <1>3, PTL DEF Spec

-----------------------------------------------------------------------------
(* Delivery. *)

LEMMA DeliveryNext ==
  TypeOK /\ DeliveryInv /\ [LifeNext]_lifeVars => DeliveryInv'
<1> SUFFICES ASSUME TypeOK, DeliveryInv, [LifeNext]_lifeVars
             PROVE  DeliveryInv'
  OBVIOUS
<1> USE DEF vars, spanVars, threadVars
<1>1. ASSUME Start, UNCHANGED sspVars PROVE DeliveryInv'
  BY <1>1 DEF DeliveryInv, TypeOK, Args, sspVars, Start, threadVars
<1>2. ASSUME NEW t \in Threads, Calls(t), UNCHANGED sspVars PROVE DeliveryInv'
  <2>1. ASSUME NEW label, NEW kvs, NEW n, Call(t, label, kvs, n)
        PROVE  DeliveryInv'
    <3>1. ended' = ended /\ snaps' = snaps
      BY <2>1 DEF Call
    <3>2. \A u \in Threads : pc[u] # "idle" => pc'[u] = pc[u] /\ arg'[u] = arg[u]
      BY <2>1 DEF Call, Goto, TypeOK
    <3> QED
      BY <1>2, <3>1, <3>2 DEF DeliveryInv, sspVars
  <2> QED
    BY <1>2, <2>1 DEF Calls
<1>3. ASSUME NEW t \in Threads, LateSetAttributes(t), UNCHANGED sspVars
      PROVE  DeliveryInv'
  BY <1>3 DEF DeliveryInv, TypeOK, Args, sspVars, LateSetAttributes, Return, Goto, NoArg
<1>4. ASSUME NEW t \in Threads, LateAdd(t), UNCHANGED sspVars
      PROVE  DeliveryInv'
  BY <1>4 DEF DeliveryInv, TypeOK, Args, sspVars, LateAdd, Return, Goto, NoArg, Queues
<1>5. ASSUME NEW t \in Threads, LateSetStatus(t), UNCHANGED sspVars
      PROVE  DeliveryInv'
  BY <1>5 DEF DeliveryInv, TypeOK, Args, sspVars, LateSetStatus, Return, Goto, NoArg
<1>6. ASSUME NEW t \in Threads, LateAddChild(t), UNCHANGED sspVars
      PROVE  DeliveryInv'
  BY <1>6 DEF DeliveryInv, TypeOK, Args, sspVars, LateAddChild, Return, Goto, NoArg
<1>7. ASSUME NEW t \in Threads, Attributes(t), UNCHANGED sspVars
      PROVE  DeliveryInv'
  BY <1>7 DEF DeliveryInv, TypeOK, Args, sspVars, Attributes
<1>8. ASSUME NEW t \in Threads, EndPanicEvent(t), UNCHANGED sspVars
      PROVE  DeliveryInv'
  BY <1>8 DEF DeliveryInv, TypeOK, Args, sspVars, EndPanicEvent, Goto
<1>9. ASSUME NEW t \in Threads, EndMark(t), UNCHANGED sspVars
      PROVE  DeliveryInv'
  BY <1>9 DEF DeliveryInv, TypeOK, Args, sspVars, EndMark, Goto
<1>10. ASSUME NEW t \in Threads, Snapshot(t), UNCHANGED sspVars
      PROVE  DeliveryInv'
  <2>1. PICK s : snaps' = Append(snaps, s)
    BY <1>10 DEF Snapshot
  <2>2. /\ pc[t] = "snapshot" /\ pc' = [pc EXCEPT ![t] = "OnEnd"]
        /\ arg' = [arg EXCEPT ![t].n = Len(snaps')] /\ ended' = ended
    BY <1>10 DEF Snapshot, Goto
  <2>3. IsSeq(snaps)
    BY DEF TypeOK
  <2>4. Len(snaps) \in Nat /\ DOMAIN snaps' = 1..(Len(snaps) + 1)
        /\ Len(snaps') = Len(snaps) + 1 /\ DOMAIN snaps = 1..Len(snaps)
    BY <2>1, <2>3, AppendAny
  <2>5. snaps' # <<>>
    BY <2>4
  <2>6. pc'[t] = "OnEnd" /\ arg'[t].n = Len(snaps) + 1
    BY <2>2, <2>4 DEF TypeOK, Args
  <2>7. \A u \in Threads : pc[u] = "OnEnd" => pc'[u] = "OnEnd" /\ arg'[u].n = arg[u].n
    BY <2>2 DEF TypeOK, Args
  <2>8. ASSUME NEW n \in DOMAIN snaps'
        PROVE  \/ \E i \in DOMAIN exported : exported[i] = n
               \/ \E u \in Threads : pc'[u] = "OnEnd" /\ arg'[u].n = n
               \/ ~exporter \/ ~Sampled
    <3>1. CASE n = Len(snaps) + 1
      BY <2>6, <3>1
    <3>2. CASE n # Len(snaps) + 1
      <4>1. n \in DOMAIN snaps
        BY <2>4, <3>2
      <4> QED
        BY <2>7, <4>1 DEF DeliveryInv
    <3> QED
      BY <3>1, <3>2
  <2> QED
    BY <1>10, <2>5, <2>8 DEF DeliveryInv, sspVars
<1>11. ASSUME NEW t \in Threads, OnEnd(t) PROVE DeliveryInv'
  <2>1. CASE OnEndExports(t, arg[t].n) /\ Goto(t, "export") /\ UNCHANGED arg
    <3> DEFINE x == arg[t].n
    <3>1. x \in Codes \cup Nat /\ exported \in Seq(Codes \cup Nat)
      BY DEF TypeOK, Args
    <3>2. exported' = Append(exported, x) /\ exporter' = exporter
      BY <2>1 DEF OnEndExports
    <3>3. \A i \in DOMAIN exported : i \in DOMAIN exported' /\ exported'[i] = exported[i]
      BY <3>1, <3>2, AppendProperties
    <3>4. \E i \in DOMAIN exported' : exported'[i] = x
      BY <3>1, <3>2, AppendProperties
    <3>5. \A u \in Threads : u # t => pc'[u] = pc[u]
      BY <2>1 DEF Goto, TypeOK
    <3> QED
      BY <1>11, <2>1, <3>2, <3>3, <3>4, <3>5 DEF OnEnd, DeliveryInv, spanVars
  <2>2. CASE OnEndIgnores /\ Goto(t, "idle") /\ arg' = [arg EXCEPT ![t] = NoArg]
    BY <1>11, <2>2 DEF OnEnd, OnEndIgnores, Goto, DeliveryInv, spanVars, TypeOK
  <2> QED
    BY <1>11, <2>1, <2>2 DEF OnEnd
<1>12. ASSUME NEW t \in Threads, Exported(t) PROVE DeliveryInv'
  BY <1>12 DEF DeliveryInv, TypeOK, Args, sspVars, Exported, ExportReturns, Return, Goto, NoArg, spanVars
<1>13. ASSUME WorkerEndsSpan, UNCHANGED vars PROVE DeliveryInv'
  BY <1>13 DEF WorkerEndsSpan, DeliveryInv
<1>14. ASSUME WorkerOnEnd, UNCHANGED vars PROVE DeliveryInv'
  <2>1. Append(exported, 0) \in Seq(Codes \cup Nat)
    BY AppendProperties DEF TypeOK
  <2>2. \A i \in DOMAIN exported :
          i \in DOMAIN Append(exported, 0) /\ Append(exported, 0)[i] = exported[i]
    BY AppendProperties DEF TypeOK
  <2> QED
    BY <1>14, <2>2 DEF WorkerOnEnd, OnEndExports, OnEndIgnores, DeliveryInv
<1>15. ASSUME WorkerExported, UNCHANGED vars PROVE DeliveryInv'
  BY <1>15 DEF WorkerExported, ExportReturns, DeliveryInv
<1>16. ASSUME WorkerStopped, UNCHANGED vars PROVE DeliveryInv'
  BY <1>16 DEF WorkerStopped, DeliveryInv
<1>17. ASSUME NEW p \in Stoppers, ShutdownCall(p), UNCHANGED vars
      PROVE  DeliveryInv'
  BY <1>17 DEF ShutdownCall, DeliveryInv
<1>18. ASSUME NEW p \in Stoppers, AfterOthers(p), UNCHANGED vars
      PROVE  DeliveryInv'
  BY <1>18 DEF AfterOthers, DeliveryInv
<1>19. ASSUME NEW p \in Stoppers, TakeExporter(p), UNCHANGED vars
      PROVE  DeliveryInv'
  BY <1>19 DEF TakeExporter, Zeroed, DeliveryInv
<1>20. ASSUME NEW p \in Stoppers, Done(p), UNCHANGED vars PROVE DeliveryInv'
  BY <1>20 DEF Done, DeliveryInv
<1>21. ASSUME NEW p \in Stoppers, CtxDone(p), UNCHANGED vars
      PROVE  DeliveryInv'
  BY <1>21 DEF CtxDone, DeliveryInv
<1>22. ASSUME UNCHANGED lifeVars PROVE DeliveryInv'
  BY <1>22 DEF DeliveryInv, lifeVars, vars, spanVars, threadVars, sspVars
<1> QED
  BY <1>1, <1>2, <1>3, <1>4, <1>5, <1>6, <1>7, <1>8, <1>9, <1>10, <1>11,
      <1>12, <1>13, <1>14, <1>15, <1>16, <1>17, <1>18, <1>19, <1>20, <1>21, <1>22
  DEF LifeNext, SpanNext, SspNext, WorkerNext, ShutdownNext

(* When a span has ended and its goroutines are done, every snapshot of it *)
(* has reached the exporter, and there is one, unless Shutdown took the    *)
(* exporter away (span.go, End; simple_span_processor.go, OnEnd).          *)
THEOREM EndedReachesExporter == Spec => []EndedIsExported
<1>1. LifeInit => TypeOK /\ DeliveryInv
  BY TypeInit DEF LifeInit, Init, DeliveryInv
<1>2. TypeOK /\ DeliveryInv /\ [LifeNext]_lifeVars => TypeOK' /\ DeliveryInv'
  BY TypeNext, DeliveryNext
<1>3. DeliveryInv => EndedIsExported
  BY DEF DeliveryInv, EndedIsExported
<1> QED
  BY <1>1, <1>2, <1>3, PTL DEF Spec

-----------------------------------------------------------------------------
(* Sequences of attributes, and the maps they stand for.                   *)

(* The key of Nil is in STRING, but the provers do not know it.            *)
Attribute == [key : STRING \cup {Nil.key}, val : Nat]

Entries == Seq(Attribute)

KeysIn(s) == {s[i].key : i \in DOMAIN s}

(* The map that a sequence of attributes stands for: Current is that of    *)
(* the span's slice.                                                       *)
MapOf(s) == [k \in KeysIn(s) |-> Truncated(s[LastOf(s, k)]).val]

(* Map m after a is put into it. *)
With(m, a) ==
  [k \in DOMAIN m \cup {a.key} |-> IF k = a.key THEN Truncated(a).val ELSE m[k]]

DistinctKeys(s) == \A i, j \in DOMAIN s : s[i].key = s[j].key => i = j

(* What the loops find: the first and the last place of a key. *)
LEMMA IndexOfProperties ==
  ASSUME NEW s \in Entries, NEW k
  PROVE  /\ IndexOf(s, k) \in 0..Len(s)
         /\ IndexOf(s, k) # 0 => s[IndexOf(s, k)].key = k
         /\ IndexOf(s, k) = 0 => k \notin KeysIn(s)
<1> DEFINE I == {i \in 1..Len(s) : s[i].key = k}
<1>1. IndexOf(s, k) = IF I # {} THEN Min(I) ELSE 0
  BY DEF IndexOf, SelectInSeq
<1>2. Len(s) \in Nat /\ DOMAIN s = 1..Len(s) /\ I \in SUBSET (1..Len(s))
  BY DEF Entries
<1>3. I # {} => Min(I) \in I
  <2> HIDE DEF I
  <2> QED BY <1>2, MinOfPositions
<1> QED BY <1>1, <1>2, <1>3 DEF KeysIn

LEMMA LastOfProperties ==
  ASSUME NEW s \in Entries, NEW k \in KeysIn(s)
  PROVE  /\ LastOf(s, k) \in DOMAIN s /\ s[LastOf(s, k)].key = k
         /\ \A j \in DOMAIN s : j > LastOf(s, k) => s[j].key # k
<1> DEFINE I == {i \in 1..Len(s) : s[i].key = k}
<1>1. Len(s) \in Nat /\ DOMAIN s = 1..Len(s) /\ I \in SUBSET (1..Len(s)) /\ I # {}
  BY DEF Entries, KeysIn
<1>2. Max(I) \in I /\ \A i \in I : i <= Max(I)
  <2> HIDE DEF I
  <2> QED BY <1>1, MaxOfPositions
<1>3. \E i \in DOMAIN s : s[i].key = k /\ \A j \in (i + 1)..Len(s) : s[j].key # k
  <2>1. \A j \in (Max(I) + 1)..Len(s) : s[j].key # k
    BY <1>1, <1>2
  <2> QED BY <1>1, <1>2, <2>1
<1>4. LastOf(s, k) \in DOMAIN s /\ s[LastOf(s, k)].key = k
      /\ \A j \in (LastOf(s, k) + 1)..Len(s) : s[j].key # k
  BY <1>3 DEF LastOf
<1> QED BY <1>1, <1>4

LEMMA LastOfUnique ==
  ASSUME NEW s \in Entries, NEW i \in DOMAIN s,
         \A j \in DOMAIN s : j > i => s[j].key # s[i].key
  PROVE  LastOf(s, s[i].key) = i /\ s[i].key \in KeysIn(s)
<1>1. s[i].key \in KeysIn(s)
  BY DEF KeysIn
<1>2. DOMAIN s = 1..Len(s)
  BY DEF Entries
<1> QED BY <1>1, <1>2, LastOfProperties

LEMMA TruncatedType ==
  ASSUME NEW a \in Attribute
  PROVE  /\ Truncated(a) \in Attribute /\ Truncated(a).key = a.key
         /\ Truncated(Truncated(a)) = Truncated(a)
BY LimitAssumption DEF Attribute, Truncated

(* Appending an attribute, or replacing the one with its key, puts it into *)
(* the map.                                                                *)
LEMMA MapOfAppend ==
  ASSUME NEW s \in Entries, NEW a \in Attribute
  PROVE  MapOf(Append(s, a)) = With(MapOf(s), a)
<1> DEFINE w == Append(s, a)
<1>1. /\ w \in Entries /\ Len(w) = Len(s) + 1 /\ w[Len(s) + 1] = a
      /\ DOMAIN w = 1..(Len(s) + 1) /\ DOMAIN s = 1..Len(s) /\ Len(s) \in Nat
      /\ \A i \in DOMAIN s : w[i] = s[i]
  BY DEF Entries
<1> HIDE DEF w
<1>2. KeysIn(w) = KeysIn(s) \cup {a.key}
  <2>1. KeysIn(w) \subseteq KeysIn(s) \cup {a.key}
    BY <1>1 DEF KeysIn
  <2>2. KeysIn(s) \subseteq KeysIn(w) /\ a.key \in KeysIn(w)
    BY <1>1 DEF KeysIn
  <2> QED BY <2>1, <2>2
<1>3. LastOf(w, a.key) = Len(s) + 1
  BY <1>1, LastOfUnique
<1>4. ASSUME NEW k \in KeysIn(s), k # a.key PROVE LastOf(w, k) = LastOf(s, k) /\ w[LastOf(w, k)] = s[LastOf(s, k)]
  <2> DEFINE i == LastOf(s, k)
  <2>1. i \in DOMAIN s /\ s[i].key = k /\ \A j \in DOMAIN s : j > i => s[j].key # k
    BY LastOfProperties
  <2> HIDE DEF i
  <2>2. i \in DOMAIN w /\ w[i] = s[i] /\ \A j \in DOMAIN w : j > i => w[j].key # w[i].key
    BY <1>1, <1>4, <2>1
  <2>3. LastOf(w, k) = i
    BY <1>1, <2>1, <2>2, LastOfUnique
  <2> QED BY <2>2, <2>3 DEF i
<1>5. MapOf(w) = With(MapOf(s), a)
  BY <1>1, <1>2, <1>3, <1>4 DEF MapOf, With
<1> QED BY <1>5 DEF w

LEMMA MapOfReplace ==
  ASSUME NEW s \in Entries, DistinctKeys(s), NEW n \in DOMAIN s,
         NEW a \in Attribute, s[n].key = a.key
  PROVE  /\ MapOf([s EXCEPT ![n] = a]) = With(MapOf(s), a)
         /\ DistinctKeys([s EXCEPT ![n] = a])
<1> DEFINE w == [s EXCEPT ![n] = a]
<1>1. /\ w \in Entries /\ DOMAIN w = DOMAIN s /\ w[n] = a
      /\ \A i \in DOMAIN s : i # n => w[i] = s[i]
      /\ \A i \in DOMAIN s : w[i].key = s[i].key
  BY DEF Entries
<1> HIDE DEF w
<1>2. KeysIn(w) = KeysIn(s) /\ a.key \in KeysIn(s)
  BY <1>1 DEF KeysIn
<1>3. DistinctKeys(w)
  BY <1>1 DEF DistinctKeys
<1>4. ASSUME NEW k \in KeysIn(s) PROVE LastOf(w, k) = LastOf(s, k) /\ LastOf(s, k) \in DOMAIN s /\ s[LastOf(s, k)].key = k
  BY <1>1, <1>2, <1>3, LastOfProperties DEF DistinctKeys
<1>5. LastOf(s, a.key) = n
  BY <1>2, <1>4 DEF DistinctKeys
<1>6. MapOf(w) = With(MapOf(s), a)
  <2>1. DOMAIN MapOf(w) = KeysIn(s) /\ DOMAIN With(MapOf(s), a) = KeysIn(s)
    BY <1>2 DEF MapOf, With
  <2>2. ASSUME NEW k \in KeysIn(s) PROVE MapOf(w)[k] = With(MapOf(s), a)[k]
    <3>1. CASE k = a.key
      BY <1>1, <1>2, <1>4, <1>5, <3>1 DEF MapOf, With
    <3>2. CASE k # a.key
      <4>1. LastOf(s, k) # n
        BY <1>4, <3>2
      <4> QED BY <1>1, <1>2, <1>4, <3>2, <4>1 DEF MapOf, With
    <3> QED BY <3>1, <3>2
  <2> QED BY <2>1, <2>2 DEF MapOf, With
<1> QED BY <1>3, <1>6 DEF w

-----------------------------------------------------------------------------
(* The loops of SetAttributes, addOverCapAttrs and dedupeAttrsFromRecord.  *)

(* w holds on to the keys of a prefix of s without duplicates. *)
KeepsKeys(s, w) ==
  \A p \in 0..Len(s) :
    (\A i, j \in 1..p : s[i].key = s[j].key => i = j) =>
      p <= Len(w) /\ \A i \in 1..p : w[i].key = s[i].key

(* What one step of a loop over attributes does to those it has: a         *)
(* replaces the one with its key, or is added behind.                      *)
Puts(u, a, w) ==
  /\ w \in Entries /\ DistinctKeys(w) /\ MapOf(w) = With(MapOf(u), a)
  /\ KeysIn(w) = KeysIn(u) \cup {a.key}
  /\ Len(w) \in {Len(u), Len(u) + 1} /\ (a.key \notin KeysIn(u) => Len(w) = Len(u) + 1 /\ w[Len(w)].key = a.key)
  /\ a.key \in KeysIn(u) => Len(w) = Len(u)
  /\ \A i \in DOMAIN u : w[i].key = u[i].key

LEMMA AppendPuts ==
  ASSUME NEW u \in Entries, DistinctKeys(u), NEW a \in Attribute,
         NEW b \in Attribute, b.key = a.key, Truncated(b) = Truncated(a),
         a.key \notin KeysIn(u)
  PROVE  Puts(u, a, Append(u, b))
<1> DEFINE w == Append(u, b)
<1>1. /\ w \in Entries /\ Len(w) = Len(u) + 1 /\ w[Len(u) + 1] = b
      /\ DOMAIN w = 1..(Len(u) + 1) /\ DOMAIN u = 1..Len(u) /\ Len(u) \in Nat
      /\ \A i \in DOMAIN u : w[i] = u[i]
  BY DEF Entries
<1>2. MapOf(w) = With(MapOf(u), b)
  BY MapOfAppend
<1>3. With(MapOf(u), b) = With(MapOf(u), a)
  BY DEF With
<1> HIDE DEF w
<1>4. DistinctKeys(w)
  BY <1>1 DEF DistinctKeys, KeysIn
<1>5. KeysIn(w) = KeysIn(u) \cup {a.key}
  <2>1. KeysIn(w) \subseteq KeysIn(u) \cup {a.key}
    BY <1>1 DEF KeysIn
  <2>2. KeysIn(u) \subseteq KeysIn(w) /\ a.key \in KeysIn(w)
    BY <1>1 DEF KeysIn
  <2> QED BY <2>1, <2>2
<1>6. Puts(u, a, w)
  BY <1>1, <1>2, <1>3, <1>4, <1>5 DEF Puts
<1> QED BY <1>6 DEF w

LEMMA ReplacePuts ==
  ASSUME NEW u \in Entries, DistinctKeys(u), NEW a \in Attribute,
         a.key \in KeysIn(u)
  PROVE  /\ IndexOf(u, a.key) # 0
         /\ Puts(u, a, [u EXCEPT ![IndexOf(u, a.key)] = a])
<1> DEFINE n == IndexOf(u, a.key)
           w == [u EXCEPT ![n] = a]
<1>1. n # 0 /\ n \in DOMAIN u /\ u[n].key = a.key
  <2>1. DOMAIN u = 1..Len(u) /\ Len(u) \in Nat
    BY DEF Entries
  <2> QED BY <2>1, IndexOfProperties
<1>2. /\ w \in Entries /\ Len(w) = Len(u) /\ DOMAIN w = DOMAIN u
      /\ \A i \in DOMAIN u : w[i].key = u[i].key
  BY <1>1 DEF Entries
<1>3. MapOf(w) = With(MapOf(u), a) /\ DistinctKeys(w)
  BY <1>1, MapOfReplace
<1>4. KeysIn(w) = KeysIn(u) \cup {a.key}
  <2> HIDE DEF w
  <2> QED BY <1>1, <1>2 DEF KeysIn
<1> HIDE DEF w
<1>5. Puts(u, a, w)
  BY <1>1, <1>2, <1>3, <1>4 DEF Puts
<1> QED BY <1>1, <1>5 DEF w

LEMMA UniquePuts ==
  ASSUME NEW u \in Entries, DistinctKeys(u), NEW a \in Attribute
  PROVE  Puts(u, a, Unique(u, a))
<1>1. CASE a.key \in KeysIn(u)
  BY <1>1, ReplacePuts DEF Unique
<1>2. CASE a.key \notin KeysIn(u)
  <2>1. IndexOf(u, a.key) = 0
    BY <1>2, IndexOfProperties DEF KeysIn, Entries
  <2> QED BY <1>2, <2>1, AppendPuts DEF Unique
<1> QED BY <1>1, <1>2

LEMMA UniqueType ==
  ASSUME NEW u \in Entries, NEW a \in Attribute
  PROVE  Unique(u, a) \in Entries
<1>1. IndexOf(u, a.key) \in 0..Len(u)
  BY IndexOfProperties
<1> QED BY <1>1 DEF Unique, Entries

(* The rounds of dedupeAttrsFromRecord. *)
DedupeStep == [p \in Entries \X Attribute |-> Unique(p[1], p[2])]

LEMMA DedupeRounds ==
  ASSUME NEW s \in Entries
  PROVE  \E g : Rounds(Entries, <<>>, DedupeStep, s, Dedupe(s), g)
<1> DEFINE none == <<>>
           Obeys(it) == it = [t \in SUBSET DOMAIN s |->
             IF t = {} THEN none ELSE Unique(it[t \ {Max(t)}], s[Max(t)])]
           it == CHOOSE f : Obeys(f)
<1>1. /\ Len(s) \in Nat /\ s \in Seq(Attribute) /\ none \in Entries
      /\ \A t \in SUBSET DOMAIN s : t # {} => s[Max(t)] \in Attribute
  <2>1. Len(s) \in Nat /\ DOMAIN s = 1..Len(s) /\ s \in Seq(Attribute) /\ none \in Entries
        /\ \A i \in 1..Len(s) : s[i] \in Attribute
    BY DEF Entries
  <2> HIDE DEF none, it, Obeys
  <2> QED BY <2>1, MaxOfPositions
<1>2. DedupeStep \in [Entries \X Attribute -> Entries]
  BY UniqueType DEF DedupeStep
<1>3. \A u \in Entries, a \in Attribute : DedupeStep[<<u, a>>] = Unique(u, a)
  BY DEF DedupeStep
<1>4. Dedupe(s) = it[DOMAIN s]
  BY DEF Dedupe, FoldLeft, MapThenFoldSet
<1> HIDE DEF none, it
<1>5. \E f : Obeys(f)
  <2> HIDE DEF Obeys
  <2>1. PICK f : Folds(Entries, none, DedupeStep, s, f)
    BY <1>1, <1>2, FoldExists
  <2>2. ASSUME NEW t \in SUBSET DOMAIN s, t # {}
        PROVE  f[t] = Unique(f[t \ {Max(t)}], s[Max(t)])
    <3>1. f[t \ {Max(t)}] \in Entries
      BY <2>1 DEF Folds
    <3> QED BY <1>1, <1>3, <2>1, <2>2, <3>1 DEF Folds
  <2>3. Obeys(f)
    BY <2>1, <2>2 DEF Folds, Obeys
  <2> QED BY <2>3
<1>6. Obeys(it)
  <2> HIDE DEF Obeys
  <2> QED BY <1>5 DEF it
<1>7. it[{}] = none
  BY <1>6
<1>8. ASSUME NEW t \in SUBSET DOMAIN s, t # {}, it[t \ {Max(t)}] \in Entries
      PROVE  it[t] = DedupeStep[<<it[t \ {Max(t)}], s[Max(t)]>>]
  BY <1>1, <1>3, <1>6, <1>8
<1> HIDE DEF Obeys
<1>9. \E g : Rounds(Entries, none, DedupeStep, s, it[DOMAIN s], g)
  BY <1>1, <1>2, <1>7, <1>8, FoldRounds
<1> QED BY <1>4, <1>9 DEF none

(* A prefix, one longer. *)
LEMMA PrefixGrows ==
  ASSUME NEW s \in Entries
  PROVE  /\ SubSeq(s, 1, 0) = <<>> /\ SubSeq(s, 1, Len(s)) = s
         /\ \A k \in 1..Len(s) : SubSeq(s, 1, k) = Append(SubSeq(s, 1, k - 1), s[k])
         /\ \A k \in 0..Len(s) : SubSeq(s, 1, k) \in Entries /\ Len(SubSeq(s, 1, k)) = k
<1> USE DEF Entries
<1>1. SubSeq(s, 1, 0) = <<>> /\ SubSeq(s, 1, Len(s)) = s
  OBVIOUS
<1>2. ASSUME NEW k \in 1..Len(s)
      PROVE  SubSeq(s, 1, k) = Append(SubSeq(s, 1, k - 1), s[k])
  <2>1. SubSeq(s, 1, k) \in Entries /\ Append(SubSeq(s, 1, k - 1), s[k]) \in Entries
    OBVIOUS
  <2>2. Len(SubSeq(s, 1, k)) = k /\ Len(Append(SubSeq(s, 1, k - 1), s[k])) = k
    OBVIOUS
  <2>3. ASSUME NEW i \in 1..k
        PROVE  SubSeq(s, 1, k)[i] = Append(SubSeq(s, 1, k - 1), s[k])[i]
    OBVIOUS
  <2> QED BY <2>1, <2>2, <2>3
<1>3. \A k \in 0..Len(s) : SubSeq(s, 1, k) \in Entries /\ Len(SubSeq(s, 1, k)) = k
  OBVIOUS
<1> QED BY <1>1, <1>2, <1>3

(* The length of a slice without duplicates is its number of keys. *)
LEMMA DistinctCount ==
  ASSUME NEW s \in Entries
  PROVE  /\ IsFiniteSet(KeysIn(s)) /\ Cardinality(KeysIn(s)) <= Len(s)
         /\ DistinctKeys(s) => Cardinality(KeysIn(s)) = Len(s)
<1> DEFINE keyAt == [i \in 1..Len(s) |-> s[i].key]
<1>1. Len(s) \in Nat /\ DOMAIN s = 1..Len(s)
  BY DEF Entries
<1>2. IsFiniteSet(1..Len(s)) /\ Cardinality(1..Len(s)) = Len(s)
  <2>1. 1 \in Int /\ Len(s) \in Int /\ Len(s) = IF 1 > Len(s) THEN 0 ELSE Len(s) - 1 + 1
    BY <1>1
  <2>2. Cardinality(1..Len(s)) = IF 1 > Len(s) THEN 0 ELSE Len(s) - 1 + 1
    BY <2>1, FS_Interval
  <2> QED BY <2>1, <2>2, FS_Interval
<1>3. keyAt \in Surjection(1..Len(s), KeysIn(s))
  BY <1>1 DEF Surjection, KeysIn
<1>4. IsFiniteSet(KeysIn(s)) /\ Cardinality(KeysIn(s)) <= Len(s)
  BY <1>2, <1>3, FS_Surjection
<1>5. ASSUME DistinctKeys(s) PROVE Cardinality(KeysIn(s)) = Len(s)
  <2>1. keyAt \in Injection(1..Len(s), KeysIn(s))
    BY <1>1, <1>5 DEF Injection, IsInjective, DistinctKeys, KeysIn
  <2> QED BY <1>2, <1>3, <2>1, FS_Surjection
<1> QED BY <1>4, <1>5

(* dedupeAttrsFromRecord keeps each key once, with its last value, and the *)
(* keys of what had no duplicates where they are.                          *)
LEMMA DedupeProperties ==
  ASSUME NEW s \in Entries
  PROVE  /\ Dedupe(s) \in Entries /\ DistinctKeys(Dedupe(s))
         /\ MapOf(Dedupe(s)) = MapOf(s)
         /\ Len(Dedupe(s)) <= Len(s) /\ KeepsKeys(s, Dedupe(s))
<1>1. PICK g : Rounds(Entries, <<>>, DedupeStep, s, Dedupe(s), g)
  BY DedupeRounds
<1> DEFINE Before(k) == SubSeq(s, 1, k)
           DistinctTo(p) == \A i, j \in 1..p : s[i].key = s[j].key => i = j
           Keeps(k) == \A p \in 0..Len(s) : DistinctTo(p) =>
             \A i \in 1..k : i <= p => i <= Len(g[k]) /\ g[k][i].key = s[i].key
           Good == {k \in 0..Len(s) :
             /\ g[k] \in Entries /\ DistinctKeys(g[k]) /\ MapOf(g[k]) = MapOf(Before(k))
             /\ Len(g[k]) <= k /\ Keeps(k)}
<1>2. /\ Len(s) \in Nat /\ \A i \in 1..Len(s) : s[i] \in Attribute
      /\ g[0] = <<>> /\ g[Len(s)] = Dedupe(s) /\ <<>> \in Entries
  BY <1>1 DEF Entries, Rounds
<1>3. \A k \in 1..Len(s) : g[k - 1] \in Entries => g[k] = Unique(g[k - 1], s[k])
  BY <1>1, <1>2 DEF Rounds, DedupeStep
<1>4. 0 \in Good
  <2>1. Before(0) = <<>>
    BY PrefixGrows
  <2>2. DistinctKeys(<<>>) /\ Len(<<>>) = 0
    BY DEF DistinctKeys
  <2>3. Keeps(0)
    OBVIOUS
  <2> HIDE DEF Before, Keeps
  <2> QED BY <1>2, <2>1, <2>2, <2>3
<1>5. ASSUME NEW k \in 1..Len(s), k - 1 \in Good PROVE k \in Good
  <2> DEFINE u == g[k - 1]
             a == s[k]
             w == g[k]
  <2>1. u \in Entries /\ DistinctKeys(u) /\ MapOf(u) = MapOf(Before(k - 1))
        /\ Len(u) <= k - 1 /\ Keeps(k - 1) /\ a \in Attribute /\ k \in 0..Len(s)
    BY <1>2, <1>5
  <2>2. Puts(u, a, w)
    BY <1>3, <2>1, UniquePuts
  <2>3. MapOf(Before(k)) = With(MapOf(Before(k - 1)), a)
    <3>1. Before(k) = Append(Before(k - 1), a) /\ Before(k - 1) \in Entries
      BY <1>2, PrefixGrows
    <3> HIDE DEF Before
    <3> QED BY <2>1, <3>1, MapOfAppend
  <2> HIDE DEF Before
  <2>4. Keeps(k)
    <3> SUFFICES ASSUME NEW p \in 0..Len(s), DistinctTo(p), NEW i \in 1..k, i <= p
                 PROVE  i <= Len(w) /\ w[i].key = s[i].key
      OBVIOUS
    <3>1. Len(u) \in Nat /\ DOMAIN u = 1..Len(u) /\ Len(w) \in Nat
      BY <2>1, <2>2 DEF Entries, Puts
    <3>2. CASE i <= k - 1
      <4>1. i <= Len(u) /\ u[i].key = s[i].key
        BY <2>1, <3>2
      <4>2. i \in DOMAIN u
        BY <3>1, <4>1
      <4>3. w[i].key = u[i].key /\ Len(w) \in {Len(u), Len(u) + 1}
        BY <2>2, <4>2 DEF Puts
      <4> QED BY <3>1, <4>1, <4>3
    <3>3. CASE i = k
      <4>1. \A j \in 1..(k - 1) : j <= Len(u) /\ u[j].key = s[j].key
        <5>1. \A j \in 1..(k - 1) : j <= p
          BY <3>3
        <5>2. \A j \in 1..(k - 1) : j <= p => j <= Len(u) /\ u[j].key = s[j].key
          BY <2>1
        <5> HIDE DEF u
        <5> QED BY <5>1, <5>2
      <4>2. Len(u) = k - 1
        <5>1. k - 1 \in 1..(k - 1) \/ k - 1 = 0
          BY <1>2
        <5>2. k - 1 \in 1..(k - 1) => k - 1 <= Len(u)
          BY <4>1
        <5>3. Len(u) <= k - 1 /\ k - 1 \in Nat
          BY <1>2, <2>1
        <5> HIDE DEF u
        <5> QED BY <3>1, <5>1, <5>2, <5>3
      <4>3. a.key \notin KeysIn(u)
        <5>1. ASSUME NEW j \in 1..(k - 1) PROVE u[j].key # a.key
          <6>1. j \in 1..p /\ k \in 1..p
            BY <3>3
          <6> QED BY <3>3, <4>1, <6>1
        <5> QED BY <3>1, <4>2, <5>1 DEF KeysIn
      <4> QED BY <2>2, <3>1, <3>3, <4>2, <4>3 DEF Puts
    <3> QED BY <3>2, <3>3
  <2> HIDE DEF Keeps
  <2>5. Len(w) \in {Len(u), Len(u) + 1} /\ w \in Entries /\ DistinctKeys(w) /\ MapOf(w) = MapOf(Before(k))
    BY <2>1, <2>2, <2>3 DEF Puts
  <2>6. Len(w) <= k
    BY <2>1, <2>5 DEF Entries
  <2> QED BY <2>1, <2>4, <2>5, <2>6
<1> HIDE DEF Good
<1>6. Len(s) \in Good
  <2>1. Len(s) \in 0..Len(s)
    BY <1>2
  <2> QED BY <1>2, <1>4, <1>5, <2>1, UpwardInduction
<1> USE DEF Good
<1>7. Before(Len(s)) = s
  BY PrefixGrows
<1> HIDE DEF Before
<1>8. KeepsKeys(s, Dedupe(s))
  <2> SUFFICES ASSUME NEW p \in 0..Len(s), DistinctTo(p)
               PROVE  p <= Len(Dedupe(s)) /\ \A i \in 1..p : Dedupe(s)[i].key = s[i].key
    BY DEF KeepsKeys
  <2>1. \A i \in 1..p : i <= Len(Dedupe(s)) /\ Dedupe(s)[i].key = s[i].key
    BY <1>2, <1>6
  <2>2. p \in 1..p \/ p = 0
    OBVIOUS
  <2>3. Len(Dedupe(s)) \in Nat
    BY <1>2, <1>6 DEF Entries
  <2> QED BY <2>1, <2>2, <2>3
<1> QED BY <1>2, <1>6, <1>7, <1>8

(* What the two loops of SetAttributes go on with. *)
Tally == [attrs : Entries, dropped : Nat]

LEMMA AddUnderCapProperties ==
  ASSUME NEW r \in Tally, NEW a \in Attribute
  PROVE  LET w == AddUnderCap(r, a)
         IN /\ w \in Tally
            /\ Valid(a) =>
                 w.dropped = r.dropped /\ w.attrs = Append(r.attrs, Truncated(a))
            /\ ~Valid(a) => w.dropped = r.dropped + 1 /\ w.attrs = r.attrs
<1>1. Truncated(a) \in Attribute
  BY TruncatedType
<1>2. CASE Valid(a)
  BY <1>1, <1>2 DEF AddUnderCap, Tally, Entries
<1>3. CASE ~Valid(a)
  BY <1>1, <1>3 DEF AddUnderCap, Tally, Entries
<1> QED BY <1>2, <1>3

LEMMA AddOverCapType ==
  ASSUME NEW r \in Tally, NEW a \in Attribute
  PROVE  AddOverCap(r, a) \in Tally
<1> DEFINE n == IndexOf(r.attrs, a.key)
<1>1. Truncated(a) \in Attribute /\ r.attrs \in Entries /\ r.dropped \in Nat
      /\ r = [attrs |-> r.attrs, dropped |-> r.dropped] /\ n \in 0..Len(r.attrs)
  BY TruncatedType, IndexOfProperties DEF Tally
<1> HIDE DEF n
<1>2. CASE Valid(a) /\ n # 0
  <2>1. AddOverCap(r, a) = [attrs |-> [r.attrs EXCEPT ![n] = a], dropped |-> r.dropped]
    BY <1>1, <1>2 DEF AddOverCap, n
  <2>2. [r.attrs EXCEPT ![n] = a] \in Entries
    BY <1>1, <1>2 DEF Entries
  <2> QED BY <1>1, <2>1, <2>2 DEF Tally
<1>3. CASE ~(Valid(a) /\ n # 0) /\ (~Valid(a) \/ Len(r.attrs) >= Limit)
  <2>1. AddOverCap(r, a) = [r EXCEPT !.dropped = @ + 1]
    BY <1>3 DEF AddOverCap, n
  <2> QED BY <1>1, <2>1 DEF Tally
<1>4. CASE ~(Valid(a) /\ n # 0) /\ ~(~Valid(a) \/ Len(r.attrs) >= Limit)
  <2>1. AddOverCap(r, a) = [r EXCEPT !.attrs = Append(@, Truncated(a))]
    BY <1>4 DEF AddOverCap, n
  <2>2. Append(r.attrs, Truncated(a)) \in Entries
    BY <1>1 DEF Entries
  <2> QED BY <1>1, <2>1, <2>2 DEF Tally
<1> QED BY <1>2, <1>3, <1>4

(* Without duplicates, addOverCapAttrs puts an attribute when its key is   *)
(* there or there is room, and counts it otherwise.                        *)
LEMMA AddOverCapProperties ==
  ASSUME NEW r \in Tally, DistinctKeys(r.attrs), NEW a \in Attribute
  PROVE  LET w == AddOverCap(r, a)
             puts == Valid(a) /\ (a.key \in KeysIn(r.attrs) \/ Len(r.attrs) < Limit)
         IN /\ puts => w.dropped = r.dropped /\ Puts(r.attrs, a, w.attrs)
            /\ ~puts => w.dropped = r.dropped + 1 /\ w.attrs = r.attrs
<1> DEFINE n == IndexOf(r.attrs, a.key)
<1>1. Truncated(a) \in Attribute /\ r.attrs \in Entries /\ r.dropped \in Nat
      /\ r = [attrs |-> r.attrs, dropped |-> r.dropped]
      /\ Truncated(a).key = a.key /\ Truncated(Truncated(a)) = Truncated(a)
  BY TruncatedType DEF Tally
<1>2. n # 0 <=> a.key \in KeysIn(r.attrs)
  <2>1. DOMAIN r.attrs = 1..Len(r.attrs) /\ Len(r.attrs) \in Nat
    BY <1>1 DEF Entries
  <2>2. n \in 0..Len(r.attrs) /\ (n # 0 => r.attrs[n].key = a.key) /\ (n = 0 => a.key \notin KeysIn(r.attrs))
    BY <1>1, IndexOfProperties
  <2> HIDE DEF n
  <2>3. n # 0 => n \in DOMAIN r.attrs
    BY <2>1, <2>2
  <2> QED BY <2>2, <2>3 DEF KeysIn
<1>3. Len(r.attrs) \in Nat /\ Limit \in Int
  BY <1>1, LimitAssumption DEF Entries
<1>4. CASE Valid(a) /\ n # 0
  <2>1. AddOverCap(r, a) = [attrs |-> [r.attrs EXCEPT ![n] = a], dropped |-> r.dropped]
    BY <1>1, <1>4 DEF AddOverCap
  <2>2. Puts(r.attrs, a, [r.attrs EXCEPT ![n] = a])
    BY <1>1, <1>2, <1>4, ReplacePuts
  <2> QED BY <1>2, <1>4, <2>1, <2>2
<1>5. CASE ~(Valid(a) /\ n # 0) /\ (~Valid(a) \/ Len(r.attrs) >= Limit)
  <2>1. AddOverCap(r, a) = [r EXCEPT !.dropped = @ + 1]
    BY <1>5 DEF AddOverCap
  <2>2. AddOverCap(r, a).dropped = r.dropped + 1 /\ AddOverCap(r, a).attrs = r.attrs
    BY <1>1, <2>1
  <2> QED BY <1>2, <1>3, <1>5, <2>2
<1>6. CASE ~(Valid(a) /\ n # 0) /\ ~(~Valid(a) \/ Len(r.attrs) >= Limit)
  <2>1. AddOverCap(r, a) = [r EXCEPT !.attrs = Append(@, Truncated(a))]
    BY <1>6 DEF AddOverCap
  <2>2. AddOverCap(r, a).dropped = r.dropped /\ AddOverCap(r, a).attrs = Append(r.attrs, Truncated(a))
    BY <1>1, <2>1
  <2>3. Puts(r.attrs, a, Append(r.attrs, Truncated(a)))
    BY <1>1, <1>2, <1>6, AppendPuts
  <2> QED BY <1>2, <1>3, <1>6, <2>2, <2>3
<1> QED BY <1>4, <1>5, <1>6

(* The rounds of SetAttributes's own loop. *)
UnderCapStep == [p \in Tally \X Attribute |-> AddUnderCap(p[1], p[2])]

LEMMA UnderCapRounds ==
  ASSUME NEW s \in Entries, NEW base \in Tally
  PROVE  \E g : Rounds(Tally, base, UnderCapStep, s, FoldLeft(AddUnderCap, base, s), g)
<1> DEFINE Obeys(it) == it = [t \in SUBSET DOMAIN s |->
             IF t = {} THEN base ELSE AddUnderCap(it[t \ {Max(t)}], s[Max(t)])]
           it == CHOOSE f : Obeys(f)
<1>1. /\ Len(s) \in Nat /\ s \in Seq(Attribute)
      /\ \A t \in SUBSET DOMAIN s : t # {} => s[Max(t)] \in Attribute
  <2>1. Len(s) \in Nat /\ DOMAIN s = 1..Len(s) /\ s \in Seq(Attribute)
        /\ \A i \in 1..Len(s) : s[i] \in Attribute
    BY DEF Entries
  <2> HIDE DEF it, Obeys
  <2> QED BY <2>1, MaxOfPositions
<1>2. UnderCapStep \in [Tally \X Attribute -> Tally]
  BY AddUnderCapProperties DEF UnderCapStep
<1>3. \A u \in Tally, a \in Attribute : UnderCapStep[<<u, a>>] = AddUnderCap(u, a)
  BY DEF UnderCapStep
<1>4. FoldLeft(AddUnderCap, base, s) = it[DOMAIN s]
  BY DEF FoldLeft, MapThenFoldSet
<1> HIDE DEF it
<1>5. \E f : Obeys(f)
  <2> HIDE DEF Obeys
  <2>1. PICK f : Folds(Tally, base, UnderCapStep, s, f)
    BY <1>1, <1>2, FoldExists
  <2>2. ASSUME NEW t \in SUBSET DOMAIN s, t # {}
        PROVE  f[t] = AddUnderCap(f[t \ {Max(t)}], s[Max(t)])
    <3>1. f[t \ {Max(t)}] \in Tally
      BY <2>1 DEF Folds
    <3> QED BY <1>1, <1>3, <2>1, <2>2, <3>1 DEF Folds
  <2>3. Obeys(f)
    BY <2>1, <2>2 DEF Folds, Obeys
  <2> QED BY <2>3
<1>6. Obeys(it)
  <2> HIDE DEF Obeys
  <2> QED BY <1>5 DEF it
<1>7. it[{}] = base
  BY <1>6
<1>8. ASSUME NEW t \in SUBSET DOMAIN s, t # {}, it[t \ {Max(t)}] \in Tally
      PROVE  it[t] = UnderCapStep[<<it[t \ {Max(t)}], s[Max(t)]>>]
  BY <1>1, <1>3, <1>6, <1>8
<1> HIDE DEF Obeys
<1>9. \E g : Rounds(Tally, base, UnderCapStep, s, it[DOMAIN s], g)
  BY <1>1, <1>2, <1>7, <1>8, FoldRounds
<1> QED BY <1>4, <1>9

(* The rounds of addOverCapAttrs's loop. *)
OverCapStep == [p \in Tally \X Attribute |-> AddOverCap(p[1], p[2])]

LEMMA OverCapRounds ==
  ASSUME NEW s \in Entries, NEW base \in Tally
  PROVE  \E g : Rounds(Tally, base, OverCapStep, s, FoldLeft(AddOverCap, base, s), g)
<1> DEFINE Obeys(it) == it = [t \in SUBSET DOMAIN s |->
             IF t = {} THEN base ELSE AddOverCap(it[t \ {Max(t)}], s[Max(t)])]
           it == CHOOSE f : Obeys(f)
<1>1. /\ Len(s) \in Nat /\ s \in Seq(Attribute)
      /\ \A t \in SUBSET DOMAIN s : t # {} => s[Max(t)] \in Attribute
  <2>1. Len(s) \in Nat /\ DOMAIN s = 1..Len(s) /\ s \in Seq(Attribute)
        /\ \A i \in 1..Len(s) : s[i] \in Attribute
    BY DEF Entries
  <2> HIDE DEF it, Obeys
  <2> QED BY <2>1, MaxOfPositions
<1>2. OverCapStep \in [Tally \X Attribute -> Tally]
  BY AddOverCapType DEF OverCapStep
<1>3. \A u \in Tally, a \in Attribute : OverCapStep[<<u, a>>] = AddOverCap(u, a)
  BY DEF OverCapStep
<1>4. FoldLeft(AddOverCap, base, s) = it[DOMAIN s]
  BY DEF FoldLeft, MapThenFoldSet
<1> HIDE DEF it
<1>5. \E f : Obeys(f)
  <2> HIDE DEF Obeys
  <2>1. PICK f : Folds(Tally, base, OverCapStep, s, f)
    BY <1>1, <1>2, FoldExists
  <2>2. ASSUME NEW t \in SUBSET DOMAIN s, t # {}
        PROVE  f[t] = AddOverCap(f[t \ {Max(t)}], s[Max(t)])
    <3>1. f[t \ {Max(t)}] \in Tally
      BY <2>1 DEF Folds
    <3> QED BY <1>1, <1>3, <2>1, <2>2, <3>1 DEF Folds
  <2>3. Obeys(f)
    BY <2>1, <2>2 DEF Folds, Obeys
  <2> QED BY <2>3
<1>6. Obeys(it)
  <2> HIDE DEF Obeys
  <2> QED BY <1>5 DEF it
<1>7. it[{}] = base
  BY <1>6
<1>8. ASSUME NEW t \in SUBSET DOMAIN s, t # {}, it[t \ {Max(t)}] \in Tally
      PROVE  it[t] = OverCapStep[<<it[t \ {Max(t)}], s[Max(t)]>>]
  BY <1>1, <1>3, <1>6, <1>8
<1> HIDE DEF Obeys
<1>9. \E g : Rounds(Tally, base, OverCapStep, s, it[DOMAIN s], g)
  BY <1>1, <1>2, <1>7, <1>8, FoldRounds
<1> QED BY <1>4, <1>9

-----------------------------------------------------------------------------
(* The promises of SpanAttributes, one attribute at a time.                *)

(* What SpanAttributes lets in, counts and keeps of s, as functions of the *)
(* keys D and the map m that are there.                                    *)
ValidKeys(s) == {s[i].key : i \in {j \in DOMAIN s : Valid(s[j])}}

NewKeys(D, s) == ValidKeys(s) \ D

Room(D, s) == Limit < 0 \/ Cardinality(D) + Cardinality(NewKeys(D, s)) < Limit

LetIn(D, s) ==
  {k \in NewKeys(D, s) :
     \/ Limit < 0
     \/ \E i \in DOMAIN s :
          s[i].key = k /\ Cardinality(D) + Cardinality(NewKeys(D, SubSeq(s, 1, i - 1))) < Limit}

Result(m, s) ==
  [k \in DOMAIN m \cup LetIn(DOMAIN m, s) |->
     IF k \in ValidKeys(s) THEN Truncated(s[LastOf(s, k)]).val ELSE m[k]]

Lost(D, s) == {i \in DOMAIN s : ~Valid(s[i]) \/ s[i].key \notin D \cup LetIn(D, s)}

LEMMA AppendKnown ==
  ASSUME NEW s \in Entries, NEW a \in Attribute
  PROVE  LET w == Append(s, a)
         IN /\ w \in Entries /\ Len(w) = Len(s) + 1 /\ w[Len(s) + 1] = a
            /\ DOMAIN w = 1..(Len(s) + 1) /\ DOMAIN s = 1..Len(s) /\ Len(s) \in Nat
            /\ \A i \in DOMAIN s : w[i] = s[i]
            /\ \A i \in DOMAIN w : SubSeq(w, 1, i - 1) = SubSeq(s, 1, i - 1)
BY DEF Entries

LEMMA ValidKeysFinite ==
  ASSUME NEW s \in Entries
  PROVE  /\ ValidKeys(s) \subseteq KeysIn(s) /\ IsFiniteSet(ValidKeys(s))
         /\ \A D : /\ IsFiniteSet(NewKeys(D, s))
                   /\ Cardinality(NewKeys(D, s)) \in Nat
                   /\ Cardinality(NewKeys(D, s)) <= Len(s)
<1>1. ValidKeys(s) \subseteq KeysIn(s)
  BY DEF ValidKeys, KeysIn
<1>2. IsFiniteSet(KeysIn(s)) /\ Cardinality(KeysIn(s)) <= Len(s) /\ Len(s) \in Nat
  BY DistinctCount DEF Entries
<1>3. IsFiniteSet(ValidKeys(s))
  BY <1>1, <1>2, FS_Subset
<1>4. ASSUME NEW D
      PROVE  /\ IsFiniteSet(NewKeys(D, s)) /\ Cardinality(NewKeys(D, s)) \in Nat
             /\ Cardinality(NewKeys(D, s)) <= Len(s)
  <2>1. NewKeys(D, s) \in SUBSET KeysIn(s)
    BY <1>1 DEF NewKeys
  <2>2. IsFiniteSet(NewKeys(D, s)) /\ Cardinality(NewKeys(D, s)) <= Cardinality(KeysIn(s))
    BY <1>2, <2>1, FS_Subset
  <2>3. Cardinality(NewKeys(D, s)) \in Nat /\ Cardinality(KeysIn(s)) \in Nat
    BY <1>2, <2>2, FS_CardinalityType
  <2> QED BY <1>2, <2>2, <2>3
<1> QED BY <1>1, <1>3, <1>4

(* While there is room, every new key has been let in. *)
LEMMA RoomLetsIn ==
  ASSUME NEW s \in Entries, NEW D, IsFiniteSet(D), Room(D, s)
  PROVE  LetIn(D, s) = NewKeys(D, s)
<1>1. SUFFICES ASSUME NEW k \in NewKeys(D, s), ~(Limit < 0) PROVE k \in LetIn(D, s)
  BY DEF LetIn
<1>2. PICK i \in DOMAIN s : s[i].key = k
  BY DEF NewKeys, ValidKeys
<1>3. i \in 1..Len(s) /\ Len(s) \in Nat /\ i - 1 \in 0..Len(s)
  BY DEF Entries
<1> DEFINE p == SubSeq(s, 1, i - 1)
<1>4. p \in Entries
  BY <1>3, PrefixGrows
<1>5. NewKeys(D, p) \in SUBSET NewKeys(D, s)
  <2>1. DOMAIN p \subseteq DOMAIN s /\ \A j \in DOMAIN p : p[j] = s[j]
    BY <1>3 DEF Entries
  <2> HIDE DEF p
  <2> QED BY <2>1 DEF NewKeys, ValidKeys
<1> HIDE DEF p
<1>6. Cardinality(NewKeys(D, p)) <= Cardinality(NewKeys(D, s))
      /\ Cardinality(NewKeys(D, s)) \in Nat /\ Cardinality(NewKeys(D, p)) \in Nat
  BY <1>4, <1>5, ValidKeysFinite, FS_Subset
<1>7. Cardinality(D) \in Nat /\ Limit \in Int
  BY FS_CardinalityType, LimitAssumption
<1>8. Cardinality(D) + Cardinality(NewKeys(D, p)) < Limit
  BY <1>1, <1>6, <1>7 DEF Room
<1> QED BY <1>1, <1>2, <1>8 DEF LetIn, p

LEMMA AppendKeys ==
  ASSUME NEW s \in Entries, NEW a \in Attribute
  PROVE  /\ ValidKeys(Append(s, a)) = IF Valid(a) THEN ValidKeys(s) \cup {a.key} ELSE ValidKeys(s)
         /\ \A D : NewKeys(D, Append(s, a)) =
                     IF Valid(a) /\ a.key \notin D THEN NewKeys(D, s) \cup {a.key} ELSE NewKeys(D, s)
<1> DEFINE w == Append(s, a)
<1>1. /\ w \in Entries /\ w[Len(s) + 1] = a
      /\ DOMAIN w = 1..(Len(s) + 1) /\ DOMAIN s = 1..Len(s) /\ Len(s) \in Nat
      /\ \A i \in DOMAIN s : w[i] = s[i]
  BY AppendKnown
<1> HIDE DEF w
<1>2. ASSUME NEW k PROVE k \in ValidKeys(w) <=> k \in ValidKeys(s) \/ (Valid(a) /\ k = a.key)
  <2>1. ASSUME k \in ValidKeys(w) PROVE k \in ValidKeys(s) \/ (Valid(a) /\ k = a.key)
    BY <1>1, <2>1 DEF ValidKeys
  <2>2. ASSUME k \in ValidKeys(s) PROVE k \in ValidKeys(w)
    BY <1>1, <2>2 DEF ValidKeys
  <2>3. ASSUME Valid(a) PROVE a.key \in ValidKeys(w)
    <3>1. Len(s) + 1 \in DOMAIN w
      BY <1>1
    <3> QED BY <1>1, <2>3, <3>1 DEF ValidKeys
  <2> QED BY <2>1, <2>2, <2>3
<1>3. ValidKeys(w) = IF Valid(a) THEN ValidKeys(s) \cup {a.key} ELSE ValidKeys(s)
  BY <1>2
<1>4. \A D : NewKeys(D, w) =
                     IF Valid(a) /\ a.key \notin D THEN NewKeys(D, s) \cup {a.key} ELSE NewKeys(D, s)
  BY <1>3 DEF NewKeys
<1> QED BY <1>3, <1>4 DEF w

LEMMA AppendLetIn ==
  ASSUME NEW s \in Entries, NEW a \in Attribute, NEW D, IsFiniteSet(D)
  PROVE  LetIn(D, Append(s, a)) =
           IF Valid(a) /\ a.key \notin D /\ Room(D, s) THEN LetIn(D, s) \cup {a.key} ELSE LetIn(D, s)
<1> DEFINE w == Append(s, a)
<1>1. /\ w \in Entries /\ w[Len(s) + 1] = a
      /\ DOMAIN w = 1..(Len(s) + 1) /\ DOMAIN s = 1..Len(s) /\ Len(s) \in Nat
      /\ \A i \in DOMAIN s : w[i] = s[i]
      /\ \A i \in DOMAIN w : SubSeq(w, 1, i - 1) = SubSeq(s, 1, i - 1)
  BY AppendKnown
<1>2. NewKeys(D, w) = IF Valid(a) /\ a.key \notin D THEN NewKeys(D, s) \cup {a.key} ELSE NewKeys(D, s)
  BY AppendKeys
<1>3. SubSeq(w, 1, Len(s)) = s
  <2>1. SubSeq(w, 1, (Len(s) + 1) - 1) = SubSeq(s, 1, (Len(s) + 1) - 1) /\ (Len(s) + 1) - 1 = Len(s)
    BY <1>1
  <2> QED BY <2>1, PrefixGrows
<1> HIDE DEF w
<1> DEFINE Early(v, k, i) ==
      v[i].key = k /\ Cardinality(D) + Cardinality(NewKeys(D, SubSeq(v, 1, i - 1))) < Limit
<1>4. ASSUME NEW k, NEW i \in DOMAIN s PROVE Early(w, k, i) <=> Early(s, k, i)
  <2>1. w[i] = s[i] /\ SubSeq(w, 1, i - 1) = SubSeq(s, 1, i - 1)
    BY <1>1
  <2> QED BY <2>1
<1>5. \A k : Early(w, k, Len(s) + 1) <=>
               k = a.key /\ Cardinality(D) + Cardinality(NewKeys(D, s)) < Limit
  <2>1. (Len(s) + 1) - 1 = Len(s)
    BY <1>1
  <2> QED BY <1>1, <1>3, <2>1
<1>6. \A i : i \in DOMAIN w <=> i \in DOMAIN s \/ i = Len(s) + 1
  BY <1>1
<1>7. \A v, k : k \in LetIn(D, v) <=>
                  k \in NewKeys(D, v) /\ (Limit < 0 \/ \E i \in DOMAIN v : Early(v, k, i))
  BY DEF LetIn
<1> HIDE DEF Early
<1>8. ASSUME NEW k PROVE k \in LetIn(D, w) <=>
        k \in LetIn(D, s) \/ (k = a.key /\ Valid(a) /\ a.key \notin D /\ Room(D, s))
  <2>1. (\E i \in DOMAIN w : Early(w, k, i)) <=>
          (\E i \in DOMAIN s : Early(s, k, i))
            \/ (k = a.key /\ Cardinality(D) + Cardinality(NewKeys(D, s)) < Limit)
    BY <1>4, <1>5, <1>6
  <2>2. k \in LetIn(D, w) <=>
          /\ k \in NewKeys(D, s) \/ (k = a.key /\ Valid(a) /\ a.key \notin D)
          /\ \/ Limit < 0 \/ \E i \in DOMAIN s : Early(s, k, i)
             \/ k = a.key /\ Room(D, s)
    BY <1>2, <1>7, <2>1 DEF Room
  <2>3. Limit < 0 => Room(D, s)
    BY DEF Room
  <2>4. k \in NewKeys(D, s) /\ Room(D, s) => k \in LetIn(D, s)
    BY RoomLetsIn
  <2>5. (\E i \in DOMAIN s : Early(s, k, i)) /\ k = a.key /\ Valid(a) => k \in ValidKeys(s)
    <3>1. ASSUME NEW i \in DOMAIN s, Early(s, k, i), k = a.key, Valid(a) PROVE k \in ValidKeys(s)
      <4>1. s[i].key = a.key /\ Valid(s[i])
        BY <3>1 DEF Early, Valid
      <4> QED BY <3>1, <4>1 DEF ValidKeys
    <3> QED BY <3>1
  <2>6. k \in LetIn(D, s) <=> k \in NewKeys(D, s) /\ (Limit < 0 \/ \E i \in DOMAIN s : Early(s, k, i))
    BY <1>7
  <2>7. k \in NewKeys(D, s) <=> k \in ValidKeys(s) /\ k \notin D
    BY DEF NewKeys
  <2> QED BY <2>2, <2>3, <2>4, <2>5, <2>6, <2>7
<1>9. LetIn(D, w) = IF Valid(a) /\ a.key \notin D /\ Room(D, s) THEN LetIn(D, s) \cup {a.key} ELSE LetIn(D, s)
  BY <1>8
<1> QED BY <1>9 DEF w

(* One attribute more: it is put when its key is there or there is room,   *)
(* and it is lost otherwise.                                               *)
LEMMA AppendResult ==
  ASSUME NEW s \in Entries, NEW a \in Attribute, NEW m, IsFiniteSet(DOMAIN m)
  PROVE  LET w == Append(s, a)
             D == DOMAIN m
             puts == Valid(a) /\ (a.key \in D \cup LetIn(D, s) \/ Room(D, s))
         IN /\ puts => Result(m, w) = With(Result(m, s), a) /\ Lost(D, w) = Lost(D, s)
            /\ ~puts => Result(m, w) = Result(m, s) /\ Lost(D, w) = Lost(D, s) \cup {Len(s) + 1}
<1> DEFINE w == Append(s, a)
           D == DOMAIN m
           puts == Valid(a) /\ (a.key \in D \cup LetIn(D, s) \/ Room(D, s))
           LastVal(v, k) == Truncated(v[LastOf(v, k)]).val
<1>1. /\ w \in Entries /\ w[Len(s) + 1] = a
      /\ DOMAIN w = 1..(Len(s) + 1) /\ DOMAIN s = 1..Len(s) /\ Len(s) \in Nat
      /\ \A i \in DOMAIN s : w[i] = s[i]
  BY AppendKnown
<1>2. /\ ValidKeys(w) = IF Valid(a) THEN ValidKeys(s) \cup {a.key} ELSE ValidKeys(s)
      /\ LetIn(D, w) = IF Valid(a) /\ a.key \notin D /\ Room(D, s) THEN LetIn(D, s) \cup {a.key} ELSE LetIn(D, s)
  BY AppendKeys, AppendLetIn
<1>3. a.key \in ValidKeys(s) /\ Room(D, s) => a.key \in D \cup LetIn(D, s)
  BY RoomLetsIn DEF NewKeys
<1> HIDE DEF w, D
<1>4. LastOf(w, a.key) = Len(s) + 1 /\ LastVal(w, a.key) = Truncated(a).val
  <2>1. Len(s) + 1 \in DOMAIN w /\ \A j \in DOMAIN w : j > Len(s) + 1 => w[j].key # a.key
    BY <1>1
  <2> QED BY <1>1, <2>1, LastOfUnique
<1>5. ASSUME NEW k \in ValidKeys(s), k # a.key PROVE LastVal(w, k) = LastVal(s, k)
  <2> DEFINE i == LastOf(s, k)
  <2>1. i \in DOMAIN s /\ s[i].key = k /\ \A j \in DOMAIN s : j > i => s[j].key # k
    BY LastOfProperties, ValidKeysFinite
  <2> HIDE DEF i
  <2>2. i \in DOMAIN w /\ w[i] = s[i] /\ \A j \in DOMAIN w : j > i => w[j].key # w[i].key
    BY <1>1, <1>5, <2>1
  <2>3. LastOf(w, k) = i
    BY <1>1, <2>1, <2>2, LastOfUnique
  <2> QED BY <2>2, <2>3 DEF i
<1>6. ASSUME NEW v PROVE
        /\ DOMAIN Result(m, v) = D \cup LetIn(D, v)
        /\ \A k \in D \cup LetIn(D, v) :
             Result(m, v)[k] = IF k \in ValidKeys(v) THEN LastVal(v, k) ELSE m[k]
        /\ Result(m, v) = [k \in D \cup LetIn(D, v) |-> Result(m, v)[k]]
  BY DEF Result, D
<1> HIDE DEF LastVal
<1>7. ASSUME puts PROVE Result(m, w) = With(Result(m, s), a)
  <2>1. D \cup LetIn(D, w) = D \cup LetIn(D, s) \cup {a.key}
    BY <1>2, <1>7
  <2>2. ValidKeys(w) = ValidKeys(s) \cup {a.key}
    BY <1>2, <1>7
  <2>3. ASSUME NEW k \in D \cup LetIn(D, s), k # a.key PROVE Result(m, w)[k] = Result(m, s)[k]
    <3>1. k \in D \cup LetIn(D, w)
      BY <2>1
    <3>2. Result(m, w)[k] = IF k \in ValidKeys(w) THEN LastVal(w, k) ELSE m[k]
      BY <1>6, <3>1
    <3>3. Result(m, s)[k] = IF k \in ValidKeys(s) THEN LastVal(s, k) ELSE m[k]
      BY <1>6
    <3> QED BY <1>5, <2>2, <2>3, <3>2, <3>3
  <2>4. Result(m, w)[a.key] = Truncated(a).val
    <3>1. a.key \in D \cup LetIn(D, w) /\ a.key \in ValidKeys(w)
      BY <2>1, <2>2
    <3>2. Result(m, w)[a.key] = LastVal(w, a.key)
      BY <1>6, <3>1
    <3> QED BY <1>4, <3>2
  <2>5. DOMAIN Result(m, s) = D \cup LetIn(D, s)
    BY <1>6
  <2>6. With(Result(m, s), a) = [k \in D \cup LetIn(D, w) |->
           IF k = a.key THEN Truncated(a).val ELSE Result(m, s)[k]]
    BY <2>1, <2>5 DEF With
  <2>7. \A k \in D \cup LetIn(D, w) :
          Result(m, w)[k] = IF k = a.key THEN Truncated(a).val ELSE Result(m, s)[k]
    BY <2>1, <2>3, <2>4
  <2>8. Result(m, w) = [k \in D \cup LetIn(D, w) |-> Result(m, w)[k]]
    BY <1>6
  <2> QED BY <2>6, <2>7, <2>8
<1>8. ASSUME ~puts PROVE Result(m, w) = Result(m, s)
  <2>1. LetIn(D, w) = LetIn(D, s)
    BY <1>2, <1>8
  <2>2. ASSUME NEW k \in D \cup LetIn(D, s) PROVE Result(m, w)[k] = Result(m, s)[k]
    <3>1. Result(m, w)[k] = IF k \in ValidKeys(w) THEN LastVal(w, k) ELSE m[k]
      BY <1>6, <2>1
    <3>2. Result(m, s)[k] = IF k \in ValidKeys(s) THEN LastVal(s, k) ELSE m[k]
      BY <1>6
    <3>3. k \in ValidKeys(w) <=> k \in ValidKeys(s)
      BY <1>2, <1>8
    <3>4. k \in ValidKeys(s) => k # a.key
      <4>1. ASSUME NEW i \in DOMAIN s, Valid(s[i]), s[i].key = a.key PROVE Valid(a)
        BY <4>1 DEF Valid
      <4> QED BY <1>8, <4>1 DEF ValidKeys
    <3> QED BY <1>5, <3>1, <3>2, <3>3, <3>4
  <2>3. Result(m, w) = [k \in D \cup LetIn(D, w) |-> Result(m, w)[k]]
        /\ Result(m, s) = [k \in D \cup LetIn(D, s) |-> Result(m, s)[k]]
    BY <1>6
  <2> QED BY <2>1, <2>2, <2>3
<1>9. ASSUME NEW i \in DOMAIN s PROVE i \in Lost(D, w) <=> i \in Lost(D, s)
  <2>1. i \in DOMAIN w /\ w[i] = s[i]
    BY <1>1
  <2>2. i \in Lost(D, w) <=> ~Valid(s[i]) \/ s[i].key \notin D \cup LetIn(D, w)
    BY <2>1 DEF Lost
  <2>3. i \in Lost(D, s) <=> ~Valid(s[i]) \/ s[i].key \notin D \cup LetIn(D, s)
    BY DEF Lost
  <2>4. Valid(s[i]) => s[i].key \in ValidKeys(s)
    BY DEF ValidKeys
  <2> QED BY <1>2, <1>3, <2>2, <2>3, <2>4
<1>10. Len(s) + 1 \in Lost(D, w) <=> ~puts
  <2>1. Len(s) + 1 \in DOMAIN w
    BY <1>1
  <2>2. Len(s) + 1 \in Lost(D, w) <=> ~Valid(a) \/ a.key \notin D \cup LetIn(D, w)
    BY <1>1, <2>1 DEF Lost
  <2> QED BY <1>2, <2>2
<1>11. \A i : (i \in Lost(D, w) => i \in DOMAIN s \/ i = Len(s) + 1) /\ (i \in Lost(D, s) => i \in DOMAIN s)
  BY <1>1 DEF Lost
<1>12. Len(s) + 1 \notin DOMAIN s
  BY <1>1
<1>13. puts => Lost(D, w) = Lost(D, s)
  BY <1>9, <1>10, <1>11, <1>12
<1>14. ~puts => Lost(D, w) = Lost(D, s) \cup {Len(s) + 1}
  BY <1>9, <1>10, <1>11, <1>12
<1> QED BY <1>7, <1>8, <1>13, <1>14 DEF w, D

LEMMA NothingLetIn ==
  ASSUME NEW D, NEW m, m = [k \in DOMAIN m |-> m[k]]
  PROVE  /\ NewKeys(D, <<>>) = {} /\ LetIn(D, <<>>) = {} /\ Lost(D, <<>>) = {}
         /\ Result(m, <<>>) = m
<1>1. DOMAIN <<>> = {}
  OBVIOUS
<1>2. ValidKeys(<<>>) = {}
  BY <1>1 DEF ValidKeys
<1>3. NewKeys(D, <<>>) = {} /\ LetIn(D, <<>>) = {} /\ Lost(D, <<>>) = {} /\ LetIn(DOMAIN m, <<>>) = {}
  BY <1>1, <1>2 DEF NewKeys, LetIn, Lost
<1>4. Result(m, <<>>) = [k \in DOMAIN m |-> m[k]]
  BY <1>2, <1>3 DEF Result
<1> QED BY <1>3, <1>4

(* There is room as long as fewer than Limit keys are held: every key that *)
(* is new takes a place until there is none.                               *)
LEMMA LetInCount ==
  ASSUME NEW s \in Entries, NEW D, IsFiniteSet(D), Limit > 0, Cardinality(D) <= Limit
  PROVE  \A k \in 0..Len(s) :
           LET held == D \cup LetIn(D, SubSeq(s, 1, k))
           IN Room(D, SubSeq(s, 1, k)) <=> Cardinality(held) < Limit
<1> DEFINE p(k) == SubSeq(s, 1, k)
           held(k) == D \cup LetIn(D, p(k))
           new(k) == Cardinality(NewKeys(D, p(k)))
           Good == {k \in 0..Len(s) :
             /\ IsFiniteSet(held(k))
             /\ Cardinality(held(k)) = IF Cardinality(D) + new(k) <= Limit
                                       THEN Cardinality(D) + new(k) ELSE Limit}
<1>1. Len(s) \in Nat /\ Limit \in Nat /\ Cardinality(D) \in Nat
      /\ \A i \in 1..Len(s) : s[i] \in Attribute
  BY LimitAssumption, FS_CardinalityType DEF Entries
<1>2. \A k \in 0..Len(s) : p(k) \in Entries /\ new(k) \in Nat /\ IsFiniteSet(NewKeys(D, p(k)))
  BY PrefixGrows, ValidKeysFinite
<1>3. 0 \in Good
  <2>1. p(0) = <<>>
    BY PrefixGrows
  <2> HIDE DEF p
  <2>2. NewKeys(D, p(0)) = {} /\ LetIn(D, p(0)) = {}
    <3> DEFINE m == [k \in {} |-> k]
    <3>1. m = [k \in DOMAIN m |-> m[k]]
      OBVIOUS
    <3> HIDE DEF m
    <3> QED BY <2>1, <3>1, NothingLetIn
  <2>3. held(0) = D /\ new(0) = 0
    BY <2>2, FS_EmptySet
  <2> HIDE DEF held, new
  <2> QED BY <1>1, <2>3
<1>4. ASSUME NEW k \in 1..Len(s), k - 1 \in Good PROVE k \in Good
  <2> DEFINE a == s[k]
             q == p(k - 1)
  <2>1. p(k) = Append(q, a) /\ k - 1 \in 0..Len(s) /\ k \in 0..Len(s) /\ a \in Attribute /\ q \in Entries
    BY <1>1, <1>2, PrefixGrows
  <2>2. /\ IsFiniteSet(held(k - 1)) /\ new(k - 1) \in Nat /\ new(k) \in Nat
        /\ Cardinality(held(k - 1)) = IF Cardinality(D) + new(k - 1) <= Limit
                                      THEN Cardinality(D) + new(k - 1) ELSE Limit
    BY <1>2, <1>4, <2>1
  <2> HIDE DEF p
  <2>3. NewKeys(D, p(k)) = IF Valid(a) /\ a.key \notin D THEN NewKeys(D, q) \cup {a.key} ELSE NewKeys(D, q)
    <3> HIDE DEF a, q
    <3> QED BY <2>1, AppendKeys
  <2>4. LetIn(D, p(k)) = IF Valid(a) /\ a.key \notin D /\ Room(D, q) THEN LetIn(D, q) \cup {a.key} ELSE LetIn(D, q)
    <3> HIDE DEF a, q
    <3> QED BY <2>1, AppendLetIn
  <2>5. Room(D, q) <=> Cardinality(D) + new(k - 1) < Limit
    BY <1>1 DEF Room
  <2>6. LetIn(D, q) \subseteq NewKeys(D, q) /\ (Room(D, q) => LetIn(D, q) = NewKeys(D, q))
    <3> HIDE DEF q
    <3> QED BY <2>1, RoomLetsIn DEF LetIn
  <2>7. CASE Valid(a) /\ a.key \notin D /\ Room(D, q)
    <3>1. held(k) = held(k - 1) \cup {a.key} /\ NewKeys(D, p(k)) = NewKeys(D, q) \cup {a.key}
      BY <2>3, <2>4, <2>7
    <3>2. a.key \in held(k - 1) <=> a.key \in NewKeys(D, q)
      BY <2>6, <2>7
    <3>3. /\ IsFiniteSet(held(k))
          /\ Cardinality(held(k)) = IF a.key \in held(k - 1) THEN Cardinality(held(k - 1)) ELSE Cardinality(held(k - 1)) + 1
      <4> DEFINE old == held(k - 1)
                 x == a.key
      <4>1. IsFiniteSet(old) /\ held(k) = old \cup {x}
        BY <2>2, <3>1
      <4> HIDE DEF held, old, x
      <4>2. IsFiniteSet(held(k)) /\ Cardinality(held(k)) = IF x \in old THEN Cardinality(old) ELSE Cardinality(old) + 1
        BY <4>1, FS_AddElement
      <4> QED BY <4>2 DEF old, x
    <3>4. new(k) = IF a.key \in NewKeys(D, q) THEN new(k - 1) ELSE new(k - 1) + 1
      BY <1>2, <2>1, <3>1, FS_AddElement
    <3> HIDE DEF held, new
    <3> QED BY <1>1, <2>1, <2>2, <2>5, <2>7, <3>2, <3>3, <3>4
  <2>8. CASE Valid(a) /\ a.key \notin D /\ ~Room(D, q)
    <3>1. held(k) = held(k - 1) /\ NewKeys(D, p(k)) = NewKeys(D, q) \cup {a.key}
      BY <2>3, <2>4, <2>8
    <3>2. new(k) = IF a.key \in NewKeys(D, q) THEN new(k - 1) ELSE new(k - 1) + 1
      BY <1>2, <2>1, <3>1, FS_AddElement
    <3> HIDE DEF held, new
    <3> QED BY <1>1, <2>1, <2>2, <2>5, <2>8, <3>1, <3>2
  <2>9. CASE ~(Valid(a) /\ a.key \notin D)
    <3>1. held(k) = held(k - 1) /\ NewKeys(D, p(k)) = NewKeys(D, q)
      BY <2>3, <2>4, <2>9
    <3>2. new(k) = new(k - 1)
      BY <3>1
    <3> HIDE DEF held, new
    <3> QED BY <1>1, <2>1, <2>2, <3>1, <3>2
  <2> QED BY <2>7, <2>8, <2>9
<1> HIDE DEF Good
<1>5. \A k \in 0..Len(s) : k \in Good
  BY <1>1, <1>3, <1>4, UpwardInduction
<1>6. ASSUME NEW k \in 0..Len(s) PROVE Room(D, p(k)) <=> Cardinality(held(k)) < Limit
  <2>1. new(k) \in Nat /\ Cardinality(held(k)) = IF Cardinality(D) + new(k) <= Limit
                                       THEN Cardinality(D) + new(k) ELSE Limit
    BY <1>2, <1>5 DEF Good
  <2>2. Room(D, p(k)) <=> Cardinality(D) + new(k) < Limit
    BY <1>1 DEF Room
  <2> HIDE DEF held, new, p
  <2> QED BY <1>1, <2>1, <2>2
<1> QED BY <1>6

-----------------------------------------------------------------------------
(* The loops keep those promises.                                          *)

TruncatedAll(kvs) == [i \in DOMAIN kvs |-> Truncated(kvs[i])]

LEMMA TruncatedAllProperties ==
  ASSUME NEW kvs \in Entries
  PROVE  /\ TruncatedAll(kvs) \in Entries /\ Len(TruncatedAll(kvs)) = Len(kvs)
         /\ \A i \in 1..Len(kvs) :
              /\ kvs[i] \in Attribute /\ TruncatedAll(kvs)[i] = Truncated(kvs[i])
              /\ Truncated(TruncatedAll(kvs)[i]) = TruncatedAll(kvs)[i]
              /\ TruncatedAll(kvs)[i].key = kvs[i].key
              /\ \A m : With(m, TruncatedAll(kvs)[i]) = With(m, kvs[i])
<1> DEFINE tk == TruncatedAll(kvs)
<1>1. DOMAIN kvs = 1..Len(kvs) /\ Len(kvs) \in Nat /\ \A i \in 1..Len(kvs) : kvs[i] \in Attribute
  BY DEF Entries
<1>2. ASSUME NEW i \in 1..Len(kvs)
      PROVE  /\ tk[i] = Truncated(kvs[i]) /\ tk[i] \in Attribute
             /\ Truncated(tk[i]) = tk[i] /\ tk[i].key = kvs[i].key
  BY <1>1, TruncatedType DEF TruncatedAll
<1>3. tk \in Entries /\ Len(tk) = Len(kvs)
  BY <1>1, <1>2 DEF Entries, TruncatedAll
<1>4. ASSUME NEW i \in 1..Len(kvs), NEW m PROVE With(m, tk[i]) = With(m, kvs[i])
  <2>1. Truncated(tk[i]).val = Truncated(kvs[i]).val /\ tk[i].key = kvs[i].key
    BY <1>2
  <2> HIDE DEF tk
  <2> QED BY <2>1 DEF With
<1> QED BY <1>1, <1>2, <1>3, <1>4

(* What a loop over kvs that started on s has after k rounds: the map and  *)
(* the count that are promised, and every key of s in its place.           *)
After(s, kvs, k, r) ==
  LET p == SubSeq(TruncatedAll(kvs), 1, k)
      D == KeysIn(s)
  IN /\ r \in Tally
     /\ MapOf(r.attrs) = Result(MapOf(s), p)
     /\ r.dropped = Cardinality(Lost(D, p))
     /\ Len(s) <= Len(r.attrs) /\ Len(r.attrs) <= Len(s) + k
     /\ \A i \in DOMAIN s : r.attrs[i].key = s[i].key

LEMMA AfterNothing ==
  ASSUME NEW s \in Entries, NEW kvs \in Entries
  PROVE  /\ After(s, kvs, 0, [attrs |-> s, dropped |-> 0])
         /\ IsFiniteSet(KeysIn(s)) /\ DOMAIN MapOf(s) = KeysIn(s)
<1>1. SubSeq(TruncatedAll(kvs), 1, 0) = <<>>
  BY TruncatedAllProperties, PrefixGrows
<1>2. DOMAIN MapOf(s) = KeysIn(s) /\ MapOf(s) = [k \in DOMAIN MapOf(s) |-> MapOf(s)[k]]
  BY DEF MapOf
<1>3. Result(MapOf(s), <<>>) = MapOf(s) /\ Lost(KeysIn(s), <<>>) = {}
  BY <1>2, NothingLetIn
<1>4. Cardinality({}) = 0 /\ Len(s) \in Nat /\ IsFiniteSet(KeysIn(s))
  BY FS_EmptySet, DistinctCount DEF Entries
<1>5. [attrs |-> s, dropped |-> 0] \in Tally
  BY DEF Tally
<1> DEFINE r == [attrs |-> s, dropped |-> 0]
<1>6. r.attrs = s /\ r.dropped = 0
  OBVIOUS
<1> HIDE DEF r
<1>7. After(s, kvs, 0, r)
  <2>1. r \in Tally /\ MapOf(r.attrs) = Result(MapOf(s), <<>>)
        /\ r.dropped = Cardinality(Lost(KeysIn(s), <<>>))
    BY <1>3, <1>4, <1>5, <1>6 DEF r
  <2>2. Len(s) <= Len(r.attrs) /\ Len(r.attrs) <= Len(s) + 0
        /\ \A i \in DOMAIN s : r.attrs[i].key = s[i].key
    BY <1>4, <1>6
  <2> QED BY <1>1, <2>1, <2>2 DEF After
<1> QED BY <1>2, <1>4, <1>7 DEF r

LEMMA AfterOneMore ==
  ASSUME NEW s \in Entries, NEW kvs \in Entries, NEW k \in 1..Len(kvs),
         NEW r, After(s, kvs, k - 1, r), NEW w \in Tally,
         LET a == kvs[k]
             p == SubSeq(TruncatedAll(kvs), 1, k - 1)
             D == KeysIn(s)
             puts == Valid(a) /\ (a.key \in D \cup LetIn(D, p) \/ Room(D, p))
         IN /\ puts => /\ w.dropped = r.dropped /\ MapOf(w.attrs) = With(MapOf(r.attrs), a)
                       /\ Len(w.attrs) \in {Len(r.attrs), Len(r.attrs) + 1}
                       /\ \A i \in DOMAIN r.attrs : w.attrs[i].key = r.attrs[i].key
            /\ ~puts => w.dropped = r.dropped + 1 /\ w.attrs = r.attrs
  PROVE  After(s, kvs, k, w)
<1> DEFINE tk == TruncatedAll(kvs)
           p == SubSeq(tk, 1, k - 1)
           q == SubSeq(tk, 1, k)
           m == MapOf(s)
           D == KeysIn(s)
           puts(a) == Valid(a) /\ (a.key \in D \cup LetIn(D, p) \/ Room(D, p))
<1>1. /\ tk \in Entries /\ Len(tk) = Len(kvs) /\ tk[k] \in Attribute /\ kvs[k] \in Attribute
      /\ tk[k].key = kvs[k].key /\ \A f : With(f, tk[k]) = With(f, kvs[k])
      /\ Len(kvs) \in Nat
  <2>1. tk \in Entries /\ Len(tk) = Len(kvs)
    BY TruncatedAllProperties
  <2>2. kvs[k] \in Attribute /\ tk[k] = Truncated(kvs[k]) /\ tk[k].key = kvs[k].key
    BY TruncatedAllProperties
  <2>3. \A f : With(f, tk[k]) = With(f, kvs[k])
    BY TruncatedAllProperties
  <2>4. Len(kvs) \in Nat
    BY DEF Entries
  <2> HIDE DEF tk
  <2> QED BY <2>1, <2>2, <2>3, <2>4, TruncatedType
<1>2. q = Append(p, tk[k]) /\ p \in Entries /\ Len(p) = k - 1
  <2>1. k \in 1..Len(tk) /\ k - 1 \in 0..Len(tk)
    BY <1>1
  <2> QED BY <1>1, <2>1, PrefixGrows
<1>3. DOMAIN m = D /\ IsFiniteSet(D)
  BY DistinctCount DEF MapOf
<1>4. puts(kvs[k]) <=> puts(tk[k])
  BY <1>1 DEF Valid
<1>5. /\ puts(tk[k]) => Result(m, q) = With(Result(m, p), tk[k]) /\ Lost(D, q) = Lost(D, p)
      /\ ~puts(tk[k]) => Result(m, q) = Result(m, p) /\ Lost(D, q) = Lost(D, p) \cup {k}
  <2>1. Len(p) + 1 = k
    BY <1>1, <1>2
  <2> HIDE DEF tk, p, q, m, D
  <2> QED BY <1>1, <1>2, <1>3, <2>1, AppendResult
<1>6. IsFiniteSet(Lost(D, p)) /\ k \notin Lost(D, p)
  <2>1. Lost(D, p) \in SUBSET (1..(k - 1))
    <3>1. DOMAIN p = 1..(k - 1)
      BY <1>1, <1>2 DEF Entries
    <3> HIDE DEF p
    <3> QED BY <3>1 DEF Lost
  <2>2. IsFiniteSet(1..(k - 1))
    BY <1>1, FS_Interval
  <2>3. k \notin 1..(k - 1)
    BY <1>1
  <2> HIDE DEF p, D
  <2> QED BY <2>1, <2>2, <2>3, FS_Subset
<1>7. Cardinality(Lost(D, p) \cup {k}) = Cardinality(Lost(D, p)) + 1
  <2> HIDE DEF p, D
  <2> QED BY <1>6, FS_AddElement
<1>8. /\ r \in Tally /\ MapOf(r.attrs) = Result(m, p) /\ r.dropped = Cardinality(Lost(D, p))
      /\ Len(s) <= Len(r.attrs) /\ Len(r.attrs) <= Len(s) + (k - 1)
      /\ \A i \in DOMAIN s : r.attrs[i].key = s[i].key
  BY DEF After
<1>9. Len(s) \in Nat /\ Len(r.attrs) \in Nat /\ DOMAIN s = 1..Len(s) /\ DOMAIN r.attrs = 1..Len(r.attrs)
  BY <1>8 DEF Entries, Tally
<1> HIDE DEF tk, p, q, m, D
<1>10. ASSUME puts(kvs[k]) PROVE After(s, kvs, k, w)
  <2>1. /\ w.dropped = r.dropped /\ MapOf(w.attrs) = With(MapOf(r.attrs), kvs[k])
        /\ Len(w.attrs) \in {Len(r.attrs), Len(r.attrs) + 1}
        /\ \A i \in DOMAIN r.attrs : w.attrs[i].key = r.attrs[i].key
    BY <1>10 DEF p, D, tk
  <2>2. MapOf(w.attrs) = Result(m, q) /\ w.dropped = Cardinality(Lost(D, q))
    BY <1>1, <1>4, <1>5, <1>8, <1>10, <2>1
  <2>3. Len(s) <= Len(w.attrs) /\ Len(w.attrs) <= Len(s) + k /\ \A i \in DOMAIN s : w.attrs[i].key = s[i].key
    BY <1>1, <1>8, <1>9, <2>1
  <2> QED BY <2>2, <2>3 DEF After, tk, q, m, D
<1>11. ASSUME ~puts(kvs[k]) PROVE After(s, kvs, k, w)
  <2>1. w.dropped = r.dropped + 1 /\ w.attrs = r.attrs
    BY <1>11 DEF p, D, tk
  <2>2. MapOf(w.attrs) = Result(m, q) /\ w.dropped = Cardinality(Lost(D, q))
    BY <1>4, <1>5, <1>7, <1>8, <1>11, <2>1
  <2>3. Len(s) <= Len(w.attrs) /\ Len(w.attrs) <= Len(s) + k /\ \A i \in DOMAIN s : w.attrs[i].key = s[i].key
    BY <1>1, <1>8, <1>9, <2>1
  <2> QED BY <2>2, <2>3 DEF After, tk, q, m, D
<1> QED BY <1>10, <1>11

(* SetAttributes's own loop does so when all of kvs fits, and              *)
(* addOverCapAttrs's when nothing of s is there twice.                     *)
LEMMA AddUnderCapLoop ==
  ASSUME NEW s \in Entries, NEW kvs \in Entries,
         Limit < 0 \/ Len(s) + Len(kvs) <= Limit
  PROVE  After(s, kvs, Len(kvs), FoldLeft(AddUnderCap, [attrs |-> s, dropped |-> 0], kvs))
<1> DEFINE base == [attrs |-> s, dropped |-> 0]
           last == FoldLeft(AddUnderCap, base, kvs)
<1>1. base \in Tally /\ After(s, kvs, 0, base)
  BY AfterNothing DEF Tally
<1>2. /\ Len(s) \in Nat /\ Len(kvs) \in Nat /\ \A i \in 1..Len(kvs) : kvs[i] \in Attribute
      /\ Limit \in Int
  BY LimitAssumption DEF Entries
<1> HIDE DEF base
<1>3. PICK g : Rounds(Tally, base, UnderCapStep, kvs, last, g)
  BY <1>1, UnderCapRounds
<1>4. /\ g[0] = base /\ g[Len(kvs)] = last
      /\ \A k \in 1..Len(kvs) : g[k - 1] \in Tally /\ g[k] = AddUnderCap(g[k - 1], kvs[k])
  <2>1. /\ g[0] = base /\ g[Len(kvs)] = last /\ g \in [0..Len(kvs) -> Tally]
        /\ \A k \in 1..Len(kvs) : g[k] = UnderCapStep[<<g[k - 1], kvs[k]>>]
    BY <1>3 DEF Rounds
  <2>2. \A r \in Tally, a \in Attribute : UnderCapStep[<<r, a>>] = AddUnderCap(r, a)
    BY DEF UnderCapStep
  <2> HIDE DEF last
  <2>3. \A k \in 1..Len(kvs) : g[k - 1] \in Tally
    BY <1>2, <2>1
  <2> QED BY <1>2, <2>1, <2>2, <2>3
<1> HIDE DEF last
<1> DEFINE Fine == {k \in 0..Len(kvs) : After(s, kvs, k, g[k])}
<1>5. 0 \in Fine
  BY <1>1, <1>2, <1>4
<1>6. ASSUME NEW k \in 1..Len(kvs), k - 1 \in Fine PROVE k \in Fine
  <2> DEFINE r == g[k - 1]
             w == g[k]
             a == kvs[k]
             p == SubSeq(TruncatedAll(kvs), 1, k - 1)
             D == KeysIn(s)
  <2>1. r \in Tally /\ w = AddUnderCap(r, a) /\ a \in Attribute /\ After(s, kvs, k - 1, r) /\ k \in 0..Len(kvs)
    BY <1>2, <1>4, <1>6
  <2>2. Room(D, p)
    <3>1. Cardinality(D) \in Nat /\ Cardinality(D) <= Len(s)
      BY DistinctCount, FS_CardinalityType
    <3>2. p \in Entries /\ Len(p) = k - 1
      <4>1. k - 1 \in 0..Len(TruncatedAll(kvs)) /\ TruncatedAll(kvs) \in Entries
        BY <1>2, TruncatedAllProperties
      <4> QED BY <4>1, PrefixGrows
    <3> HIDE DEF p, D
    <3>3. Cardinality(NewKeys(D, p)) \in Nat /\ Cardinality(NewKeys(D, p)) <= k - 1
      BY <3>2, ValidKeysFinite
    <3> QED BY <1>2, <3>1, <3>3 DEF Room
  <2>3. w \in Tally
        /\ (Valid(a) => w.dropped = r.dropped /\ w.attrs = Append(r.attrs, Truncated(a)))
        /\ (~Valid(a) => w.dropped = r.dropped + 1 /\ w.attrs = r.attrs)
    <3> HIDE DEF r, w, a
    <3> QED BY <2>1, AddUnderCapProperties
  <2>4. ASSUME Valid(a)
        PROVE  /\ MapOf(w.attrs) = With(MapOf(r.attrs), a)
               /\ Len(w.attrs) \in {Len(r.attrs), Len(r.attrs) + 1}
               /\ \A i \in DOMAIN r.attrs : w.attrs[i].key = r.attrs[i].key
    <3>1. r.attrs \in Entries /\ Truncated(a) \in Attribute
          /\ Truncated(a).key = a.key /\ Truncated(Truncated(a)) = Truncated(a)
      BY <2>1, TruncatedType DEF Tally
    <3> HIDE DEF r, w, a
    <3>2. With(MapOf(r.attrs), Truncated(a)) = With(MapOf(r.attrs), a)
      BY <3>1 DEF With
    <3>3. MapOf(w.attrs) = With(MapOf(r.attrs), Truncated(a))
      BY <2>3, <2>4, <3>1, MapOfAppend
    <3>4. /\ Len(Append(r.attrs, Truncated(a))) = Len(r.attrs) + 1
          /\ \A i \in DOMAIN r.attrs : Append(r.attrs, Truncated(a))[i] = r.attrs[i]
      BY <3>1 DEF Entries
    <3> QED BY <2>3, <2>4, <3>2, <3>3, <3>4
  <2> HIDE DEF r, w, p, D
  <2>5. After(s, kvs, k, w)
    BY <2>1, <2>2, <2>3, <2>4, AfterOneMore DEF p, D
  <2> QED BY <2>1, <2>5 DEF w
<1> HIDE DEF Fine
<1>7. Len(kvs) \in Fine
  <2>1. Len(kvs) \in 0..Len(kvs)
    BY <1>2
  <2> QED BY <1>2, <1>5, <1>6, <2>1, UpwardInduction
<1> QED BY <1>4, <1>7 DEF Fine, last, base

LEMMA AddOverCapLoop ==
  ASSUME NEW s \in Entries, DistinctKeys(s), NEW kvs \in Entries,
         Limit > 0, Len(s) <= Limit
  PROVE  LET r == FoldLeft(AddOverCap, [attrs |-> s, dropped |-> 0], kvs)
         IN After(s, kvs, Len(kvs), r) /\ Len(r.attrs) <= Limit
<1> DEFINE base == [attrs |-> s, dropped |-> 0]
           last == FoldLeft(AddOverCap, base, kvs)
<1>1. base \in Tally /\ After(s, kvs, 0, base) /\ base.attrs = s
  BY AfterNothing DEF Tally
<1>2. /\ Len(s) \in Nat /\ Len(kvs) \in Nat /\ \A i \in 1..Len(kvs) : kvs[i] \in Attribute
      /\ Limit \in Int
  BY LimitAssumption DEF Entries
<1> HIDE DEF base
<1>3. PICK g : Rounds(Tally, base, OverCapStep, kvs, last, g)
  BY <1>1, OverCapRounds
<1>4. /\ g[0] = base /\ g[Len(kvs)] = last
      /\ \A k \in 1..Len(kvs) : g[k - 1] \in Tally /\ g[k] = AddOverCap(g[k - 1], kvs[k])
  <2>1. /\ g[0] = base /\ g[Len(kvs)] = last /\ g \in [0..Len(kvs) -> Tally]
        /\ \A k \in 1..Len(kvs) : g[k] = OverCapStep[<<g[k - 1], kvs[k]>>]
    BY <1>3 DEF Rounds
  <2>2. \A r \in Tally, a \in Attribute : OverCapStep[<<r, a>>] = AddOverCap(r, a)
    BY DEF OverCapStep
  <2> HIDE DEF last
  <2>3. \A k \in 1..Len(kvs) : g[k - 1] \in Tally
    BY <1>2, <2>1
  <2> QED BY <1>2, <2>1, <2>2, <2>3
<1> HIDE DEF last
<1> DEFINE Fine == {k \in 0..Len(kvs) :
             After(s, kvs, k, g[k]) /\ DistinctKeys(g[k].attrs) /\ Len(g[k].attrs) <= Limit}
<1>5. 0 \in Fine
  BY <1>1, <1>2, <1>4
<1>6. ASSUME NEW k \in 1..Len(kvs), k - 1 \in Fine PROVE k \in Fine
  <2> DEFINE r == g[k - 1]
             w == g[k]
             a == kvs[k]
             p == SubSeq(TruncatedAll(kvs), 1, k - 1)
             D == KeysIn(s)
             puts == Valid(a) /\ (a.key \in KeysIn(r.attrs) \/ Len(r.attrs) < Limit)
  <2>1. /\ r \in Tally /\ w = AddOverCap(r, a) /\ a \in Attribute /\ After(s, kvs, k - 1, r)
        /\ k \in 0..Len(kvs) /\ DistinctKeys(r.attrs) /\ Len(r.attrs) <= Limit
    BY <1>2, <1>4, <1>6
  <2>2. r.attrs \in Entries /\ Len(r.attrs) \in Nat
    BY <2>1 DEF Tally, Entries
  <2>3. KeysIn(r.attrs) = D \cup LetIn(D, p)
    <3>1. MapOf(r.attrs) = Result(MapOf(s), p)
      BY <2>1 DEF After
    <3>2. DOMAIN MapOf(r.attrs) = KeysIn(r.attrs) /\ DOMAIN MapOf(s) = D
      BY DEF MapOf
    <3> HIDE DEF r, D, p
    <3>3. DOMAIN Result(MapOf(s), p) = D \cup LetIn(D, p)
      BY <3>2 DEF Result
    <3> QED BY <3>1, <3>2, <3>3
  <2>4. Room(D, p) <=> Len(r.attrs) < Limit
    <3>1. TruncatedAll(kvs) \in Entries /\ k - 1 \in 0..Len(TruncatedAll(kvs))
      BY <1>2, TruncatedAllProperties
    <3>2. IsFiniteSet(D) /\ Cardinality(D) <= Limit
      <4>1. Cardinality(D) = Len(s) /\ IsFiniteSet(D)
        BY DistinctCount
      <4> QED BY <1>2, <4>1
    <3>3. Room(D, p) <=> Cardinality(D \cup LetIn(D, p)) < Limit
      BY <3>1, <3>2, LetInCount
    <3>4. Cardinality(KeysIn(r.attrs)) = Len(r.attrs)
      BY <2>1, <2>2, DistinctCount
    <3> HIDE DEF r, D, p
    <3> QED BY <2>3, <3>3, <3>4
  <2>5. puts <=> Valid(a) /\ (a.key \in D \cup LetIn(D, p) \/ Room(D, p))
    BY <2>3, <2>4
  <2>6. /\ w \in Tally
        /\ puts => w.dropped = r.dropped /\ Puts(r.attrs, a, w.attrs)
        /\ ~puts => w.dropped = r.dropped + 1 /\ w.attrs = r.attrs
    <3> HIDE DEF r, w, a
    <3> QED BY <2>1, AddOverCapType, AddOverCapProperties
  <2> HIDE DEF r, w, p, D
  <2>7. After(s, kvs, k, w)
    <3>1. puts => /\ MapOf(w.attrs) = With(MapOf(r.attrs), a)
                  /\ Len(w.attrs) \in {Len(r.attrs), Len(r.attrs) + 1}
                  /\ \A i \in DOMAIN r.attrs : w.attrs[i].key = r.attrs[i].key
      BY <2>6 DEF Puts
    <3> HIDE DEF puts
    <3> QED BY <2>1, <2>5, <2>6, <3>1, AfterOneMore DEF p, D
  <2>8. DistinctKeys(w.attrs) /\ Len(w.attrs) <= Limit
    <3>1. CASE puts
      <4>1. Puts(r.attrs, a, w.attrs)
        BY <2>6, <3>1
      <4>2. /\ DistinctKeys(w.attrs) /\ Len(w.attrs) \in {Len(r.attrs), Len(r.attrs) + 1}
            /\ (a.key \in KeysIn(r.attrs) => Len(w.attrs) = Len(r.attrs))
        BY <4>1 DEF Puts
      <4> QED BY <1>2, <2>1, <2>2, <3>1, <4>2
    <3>2. CASE ~puts
      BY <2>1, <2>6, <3>2
    <3> QED BY <3>1, <3>2
  <2> QED BY <2>1, <2>7, <2>8 DEF w
<1> HIDE DEF Fine
<1>7. Len(kvs) \in Fine
  <2>1. Len(kvs) \in 0..Len(kvs)
    BY <1>2
  <2> QED BY <1>2, <1>5, <1>6, <2>1, UpwardInduction
<1> QED BY <1>4, <1>7 DEF Fine, last, base

-----------------------------------------------------------------------------
(* The array of the span's slice, and what snapshots share of it.          *)

LEMMA OverwriteProperties ==
  ASSUME NEW cells \in Entries, NEW s \in Entries, Len(s) <= Len(cells)
  PROVE  /\ Overwrite(cells, s) \in Entries /\ Len(Overwrite(cells, s)) = Len(cells)
         /\ \A i \in 1..Len(cells) :
              Overwrite(cells, s)[i] = IF i <= Len(s) THEN s[i] ELSE cells[i]
         /\ SubSeq(Overwrite(cells, s), 1, Len(s)) = s
<1> DEFINE rest == SubSeq(cells, Len(s) + 1, Len(cells))
           w == s \o rest
<1>1. /\ Len(s) \in Nat /\ Len(cells) \in Nat /\ rest \in Entries
      /\ Len(rest) = Len(cells) - Len(s)
      /\ \A i \in 1..Len(rest) : rest[i] = cells[Len(s) + i]
  BY DEF Entries
<1> HIDE DEF rest
<1>2. /\ w \in Entries /\ Len(w) = Len(cells)
      /\ \A i \in 1..Len(cells) : w[i] = IF i <= Len(s) THEN s[i] ELSE rest[i - Len(s)]
  BY <1>1 DEF Entries
<1> HIDE DEF w
<1>3. ASSUME NEW i \in 1..Len(cells) PROVE w[i] = IF i <= Len(s) THEN s[i] ELSE cells[i]
  <2>1. CASE i <= Len(s)
    BY <1>2, <2>1
  <2>2. CASE ~(i <= Len(s))
    <3>1. i - Len(s) \in 1..Len(rest) /\ Len(s) + (i - Len(s)) = i
      BY <1>1, <2>2
    <3>2. rest[i - Len(s)] = cells[Len(s) + (i - Len(s))]
      BY <1>1, <3>1
    <3>3. w[i] = rest[i - Len(s)]
      BY <1>2, <2>2
    <3> QED BY <2>2, <3>1, <3>2, <3>3
  <2> QED BY <2>1, <2>2
<1>4. SubSeq(w, 1, Len(s)) = s
  BY <1>1, <1>2 DEF Entries
<1> QED BY <1>2, <1>3, <1>4 DEF Overwrite, w, rest

LEMMA CellsProperties ==
  ASSUME NEW s \in Entries, NEW cap \in Nat, Len(s) <= cap
  PROVE  /\ Cells(s, cap) \in Entries /\ Len(Cells(s, cap)) = cap
         /\ SubSeq(Cells(s, cap), 1, Len(s)) = s
<1> DEFINE rest == [i \in 1..(cap - Len(s)) |-> Nil]
           w == s \o rest
<1>1. Len(s) \in Nat /\ rest \in Entries /\ Len(rest) = cap - Len(s)
  <2> DEFINE n == cap - Len(s)
  <2>1. Len(s) \in Nat /\ n \in Nat
    BY DEF Entries
  <2>2. Nil \in Attribute
    BY DEF Attribute, Nil
  <2> HIDE DEF n
  <2>3. [i \in 1..n |-> Nil] \in Seq(Attribute) /\ Len([i \in 1..n |-> Nil]) = n
    BY <2>1, <2>2
  <2> QED BY <2>1, <2>3 DEF n, Entries
<1> HIDE DEF rest
<1>2. w \in Entries /\ Len(w) = cap /\ SubSeq(w, 1, Len(s)) = s
  BY <1>1 DEF Entries
<1> QED BY <1>2 DEF Cells, w, rest

(* The slice is a part of an array and holds at most Limit attributes. *)
SliceInv ==
  /\ mem \in Seq(Entries)
  /\ slice \in [arr : 1..Len(mem), len : Nat] /\ slice.len <= Len(mem[slice.arr])
  /\ Limit >= 0 => slice.len <= Limit

(* A slice of an array of m that a snapshot has, when the span's is cur:   *)
(* it has no key twice, and the span's reaches as far in the same array.   *)
View(m, cur, arr, len) ==
  /\ arr \in 1..Len(m) /\ len \in Nat /\ len <= Len(m[arr])
  /\ \A i, j \in 1..len : m[arr][i].key = m[arr][j].key => i = j
  /\ arr = cur.arr => len <= cur.len

(* What to adds to from, which holds on to the keys of the slice. *)
Grows(from, need, to) ==
  /\ from \in Entries /\ to \in Entries /\ need \in Nat
  /\ Len(from) <= slice.len /\ KeepsKeys(Read(slice), from)
  /\ Len(from) <= Len(to) /\ Len(to) <= Len(from) + need
  /\ \A i \in DOMAIN from : to[i].key = from[i].key

LEMMA ReadSlice ==
  ASSUME SliceInv
  PROVE  /\ Read(slice) \in Entries /\ Len(Read(slice)) = slice.len
         /\ mem[slice.arr] \in Entries /\ slice.len \in Nat /\ slice.arr \in 1..Len(mem)
         /\ \A i \in 1..slice.len : Read(slice)[i] = mem[slice.arr][i]
BY DEF SliceInv, Read, Entries

(* Store makes to what the slice holds and moves no key of a view. *)
LEMMA StoreProperties ==
  ASSUME SliceInv, NEW from, NEW need, NEW to, Grows(from, need, to), Store(from, need, to)
  PROVE  /\ mem' \in Seq(Entries) /\ slice' \in [arr : 1..Len(mem'), len : Nat]
         /\ slice'.len = Len(to) /\ Len(to) <= Len(mem'[slice'.arr])
         /\ SubSeq(mem'[slice'.arr], 1, slice'.len) = to
         /\ \A arr, len : View(mem, slice, arr, len) =>
              /\ View(mem', slice', arr, len)
              /\ \A i \in 1..len : mem'[arr][i].key = mem[arr][i].key
<1> DEFINE A == slice.arr
           old == mem[A]
           cells == Overwrite(old, from)
           inPlace == Overwrite(cells, to)
<1>1. /\ mem \in Seq(Entries) /\ A \in 1..Len(mem) /\ Len(mem) \in Nat /\ slice.len \in Nat
      /\ old \in Entries /\ Len(old) \in Nat /\ slice.len <= Len(old)
      /\ slice = [arr |-> A, len |-> slice.len]
      /\ \A a \in 1..Len(mem) : mem[a] \in Entries /\ Len(mem[a]) \in Nat
  BY DEF SliceInv, Entries
<1>2. /\ from \in Entries /\ to \in Entries /\ need \in Nat /\ Len(from) \in Nat /\ Len(to) \in Nat
      /\ Len(from) <= slice.len /\ Len(from) <= Len(to) /\ Len(to) <= Len(from) + need
      /\ DOMAIN from = 1..Len(from) /\ \A i \in 1..Len(from) : to[i].key = from[i].key
  BY DEF Grows, Entries
<1>3. /\ cells \in Entries /\ Len(cells) = Len(old)
      /\ \A i \in 1..Len(old) : cells[i] = IF i <= Len(from) THEN from[i] ELSE old[i]
  BY <1>1, <1>2, OverwriteProperties
<1> HIDE DEF cells
<1>4. ASSUME NEW len \in Nat, len <= slice.len,
             \A i, j \in 1..len : old[i].key = old[j].key => i = j
      PROVE  len <= Len(from) /\ \A i \in 1..len : from[i].key = old[i].key
  <2>1. Read(slice) \in Entries /\ Len(Read(slice)) = slice.len
        /\ \A i \in 1..slice.len : Read(slice)[i] = old[i]
    BY ReadSlice
  <2>2. KeepsKeys(Read(slice), from) /\ len \in 0..Len(Read(slice))
    BY <1>1, <1>4, <2>1 DEF Grows
  <2>3. \A i \in 1..len : Read(slice)[i] = old[i]
    BY <1>1, <1>4, <2>1
  <2>4. \A i, j \in 1..len : Read(slice)[i].key = Read(slice)[j].key => i = j
    BY <1>4, <2>3
  <2> HIDE DEF old
  <2>5. len <= Len(from) /\ \A i \in 1..len : from[i].key = Read(slice)[i].key
    BY <2>2, <2>4 DEF KeepsKeys
  <2> QED BY <2>3, <2>5
<1>5. CASE Len(cells) - Len(from) >= need
  <2>1. Len(to) <= Len(cells)
    BY <1>1, <1>2, <1>3, <1>5
  <2>2. /\ inPlace \in Entries /\ Len(inPlace) = Len(old) /\ SubSeq(inPlace, 1, Len(to)) = to
        /\ \A i \in 1..Len(old) : inPlace[i] = IF i <= Len(to) THEN to[i] ELSE cells[i]
    BY <1>2, <1>3, <2>1, OverwriteProperties
  <2>3. mem' = [mem EXCEPT ![A] = inPlace] /\ slice' = [slice EXCEPT !.len = Len(to)]
    BY <1>5 DEF Store, cells
  <2> HIDE DEF inPlace, old, A
  <2>4. /\ mem' \in Seq(Entries) /\ Len(mem') = Len(mem) /\ mem'[A] = inPlace
        /\ \A a \in 1..Len(mem) : a # A => mem'[a] = mem[a]
        /\ slice'.arr = A /\ slice'.len = Len(to) /\ slice' = [arr |-> A, len |-> Len(to)]
    BY <1>1, <2>2, <2>3
  <2>5. ASSUME NEW arr, NEW len, View(mem, slice, arr, len)
        PROVE  View(mem', slice', arr, len) /\ \A i \in 1..len : mem'[arr][i].key = mem[arr][i].key
    <3>1. /\ arr \in 1..Len(mem) /\ len \in Nat /\ len <= Len(mem[arr])
          /\ \A i, j \in 1..len : mem[arr][i].key = mem[arr][j].key => i = j
          /\ arr = A => len <= slice.len
      BY <2>5 DEF View, A
    <3>2. CASE arr # A
      <4>1. mem'[arr] = mem[arr] /\ arr # slice'.arr
        BY <2>4, <3>1, <3>2
      <4> QED BY <2>4, <3>1, <4>1 DEF View
    <3>3. CASE arr = A
      <4>1. len <= Len(from) /\ \A i \in 1..len : from[i].key = mem[arr][i].key
        BY <1>4, <3>1, <3>3 DEF old
      <4>2. \A i \in 1..len : inPlace[i].key = mem[arr][i].key
        <5>1. ASSUME NEW i \in 1..len PROVE inPlace[i].key = mem[arr][i].key
          <6>1. i \in 1..Len(old) /\ i \in 1..Len(from) /\ i <= Len(to)
            BY <1>1, <1>2, <3>1, <3>3, <4>1 DEF old
          <6>2. inPlace[i] = to[i] /\ to[i].key = from[i].key
            BY <1>2, <2>2, <6>1
          <6> QED BY <4>1, <6>2
        <5> QED BY <5>1
      <4>3. len <= Len(to) /\ len <= Len(inPlace)
        BY <1>1, <1>2, <2>1, <2>2, <1>3, <3>1, <4>1
      <4> QED BY <2>4, <3>1, <3>3, <4>2, <4>3 DEF View
    <3> QED BY <3>2, <3>3
  <2>6. Len(to) <= Len(inPlace)
    BY <1>3, <2>1, <2>2
  <2> QED BY <1>1, <1>2, <2>2, <2>4, <2>5, <2>6
<1>6. CASE ~(Len(cells) - Len(from) >= need)
  <2>1. PICK slack \in 0..MaxSlack :
          /\ mem' = Append([mem EXCEPT ![A] = cells], Cells(to, Len(from) + need + slack))
          /\ slice' = [arr |-> Len(mem) + 1, len |-> Len(to)]
    BY <1>6 DEF Store, cells
  <2> DEFINE cap == Len(from) + need + slack
             new == Cells(to, cap)
             kept == [mem EXCEPT ![A] = cells]
  <2>2. cap \in Nat /\ Len(to) <= cap
    BY <1>2, <2>1, BoundAssumption
  <2>3. new \in Entries /\ Len(new) = cap /\ SubSeq(new, 1, Len(to)) = to
    <3> HIDE DEF cap
    <3> QED BY <1>2, <2>2, CellsProperties
  <2>4. mem' = Append(kept, new)
    BY <2>1
  <2> HIDE DEF new, cap, old, A
  <2>5. kept \in Seq(Entries) /\ Len(kept) = Len(mem) /\ kept[A] = cells
        /\ \A a \in 1..Len(mem) : a # A => kept[a] = mem[a]
    BY <1>1, <1>3
  <2> HIDE DEF kept
  <2>6. /\ mem' \in Seq(Entries) /\ Len(mem') = Len(mem) + 1 /\ mem'[Len(mem) + 1] = new
        /\ \A a \in 1..Len(mem) : mem'[a] = kept[a]
    BY <1>1, <2>3, <2>4, <2>5
  <2>7. slice'.arr = Len(mem) + 1 /\ slice'.len = Len(to) /\ slice' = [arr |-> Len(mem) + 1, len |-> Len(to)]
    BY <2>1
  <2>8. ASSUME NEW arr, NEW len, View(mem, slice, arr, len)
        PROVE  View(mem', slice', arr, len) /\ \A i \in 1..len : mem'[arr][i].key = mem[arr][i].key
    <3>1. /\ arr \in 1..Len(mem) /\ len \in Nat /\ len <= Len(mem[arr])
          /\ \A i, j \in 1..len : mem[arr][i].key = mem[arr][j].key => i = j
          /\ arr = A => len <= slice.len
      BY <2>8 DEF View, A
    <3>2. arr # slice'.arr /\ arr \in 1..Len(mem') /\ mem'[arr] = kept[arr]
      BY <1>1, <2>6, <2>7, <3>1
    <3>3. CASE arr # A
      <4>1. mem'[arr] = mem[arr]
        BY <2>5, <3>1, <3>2, <3>3
      <4> QED BY <3>1, <3>2, <4>1 DEF View
    <3>4. CASE arr = A
      <4>1. len <= Len(from) /\ \A i \in 1..len : from[i].key = mem[arr][i].key
        BY <1>4, <3>1, <3>4 DEF old
      <4>2. \A i \in 1..len : cells[i].key = mem[arr][i].key
        <5>1. ASSUME NEW i \in 1..len PROVE cells[i].key = mem[arr][i].key
          <6>1. i \in 1..Len(old) /\ i <= Len(from)
            BY <1>1, <1>2, <3>1, <3>4, <4>1 DEF old
          <6> QED BY <1>3, <4>1, <6>1
        <5> QED BY <5>1
      <4>3. mem'[arr] = cells /\ len <= Len(cells)
        BY <1>3, <2>5, <3>1, <3>2, <3>4 DEF old
      <4> QED BY <3>1, <3>2, <4>2, <4>3 DEF View
    <3> QED BY <3>3, <3>4
  <2> QED BY <1>1, <1>2, <2>2, <2>3, <2>6, <2>7, <2>8
<1> QED BY <1>5, <1>6

(* A critical section leaves every view as it was, and does to the map and *)
(* the count what is promised of attributes kvs.                           *)
ViewsKept ==
  \A arr, len : View(mem, slice, arr, len) =>
    /\ View(mem', slice', arr, len)
    /\ \A i \in 1..len : mem'[arr][i].key = mem[arr][i].key

LEMMA StoreKeeps ==
  ASSUME SliceInv, NEW from, NEW need, NEW to, Grows(from, need, to), Store(from, need, to),
         Limit >= 0 => Len(to) <= Limit
  PROVE  SliceInv' /\ Read(slice)' = to /\ slice'.len = Len(to) /\ ViewsKept
<1>1. /\ mem' \in Seq(Entries) /\ slice' \in [arr : 1..Len(mem'), len : Nat]
      /\ slice'.len = Len(to) /\ Len(to) <= Len(mem'[slice'.arr])
      /\ SubSeq(mem'[slice'.arr], 1, slice'.len) = to
  BY StoreProperties
<1>2. ViewsKept
  BY StoreProperties DEF ViewsKept
<1>3. SliceInv'
  BY <1>1 DEF SliceInv
<1>4. Read(slice)' = to
  BY <1>1 DEF Read
<1> QED BY <1>1, <1>2, <1>3, <1>4

(* With a limit of 0 nothing is let in and everything is counted. *)
LEMMA NothingLost ==
  ASSUME NEW s \in Entries, Len(s) = 0, Limit = 0, NEW p \in Entries
  PROVE  /\ Result(MapOf(s), p) = MapOf(s)
         /\ Cardinality(Lost(KeysIn(s), p)) = Len(p)
<1>1. /\ DOMAIN s = {} /\ DOMAIN p = 1..Len(p) /\ Len(p) \in Nat
  BY DEF Entries
<1>2. KeysIn(s) = {}
  BY <1>1 DEF KeysIn
<1>3. DOMAIN MapOf(s) = {}
  BY <1>2 DEF MapOf
<1>4. LetIn({}, p) = {}
  <2>1. ASSUME NEW k \in LetIn({}, p) PROVE FALSE
    <3>1. PICK i \in DOMAIN p : Cardinality({}) + Cardinality(NewKeys({}, SubSeq(p, 1, i - 1))) < Limit
      BY <2>1 DEF LetIn
    <3>2. SubSeq(p, 1, i - 1) \in Entries
      <4>1. i - 1 \in 0..Len(p)
        BY <1>1
      <4> QED BY <4>1, PrefixGrows
    <3>3. Cardinality(NewKeys({}, SubSeq(p, 1, i - 1))) \in Nat /\ Cardinality({}) = 0
      BY <3>2, ValidKeysFinite, FS_EmptySet
    <3> QED BY <3>1, <3>3
  <2> QED BY <2>1
<1>5. Lost({}, p) = 1..Len(p)
  BY <1>1, <1>4 DEF Lost
<1>6. Cardinality(1..Len(p)) = Len(p)
  <2>1. Cardinality(1..Len(p)) = IF 1 > Len(p) THEN 0 ELSE Len(p) - 1 + 1
    BY <1>1, FS_Interval
  <2> QED BY <1>1, <2>1
<1>7. Result(MapOf(s), p) = MapOf(s)
  <2>1. Result(MapOf(s), p) = [k \in {} |->
           IF k \in ValidKeys(p) THEN Truncated(p[LastOf(p, k)]).val ELSE MapOf(s)[k]]
    BY <1>3, <1>4 DEF Result
  <2>2. MapOf(s) = [k \in {} |-> MapOf(s)[k]]
    BY <1>2 DEF MapOf
  <2> QED BY <2>1, <2>2
<1> QED BY <1>2, <1>5, <1>6, <1>7

(* SetAttributes, whichever way it takes. *)
LEMMA SetAttributesProperties ==
  ASSUME SliceInv, NEW kvs \in Entries, SetAttributes(kvs)
  PROVE  /\ SliceInv' /\ ViewsKept
         /\ MapOf(Read(slice)') = Result(MapOf(Read(slice)), TruncatedAll(kvs))
         /\ dropped' = dropped + Cardinality(Lost(KeysIn(Read(slice)), TruncatedAll(kvs)))
<1> DEFINE s == Read(slice)
           u == Dedupe(s)
           n == Len(kvs)
           tk == TruncatedAll(kvs)
           over == FoldLeft(AddOverCap, [attrs |-> u, dropped |-> 0], kvs)
           under == FoldLeft(AddUnderCap, [attrs |-> s, dropped |-> 0], kvs)
<1>1. /\ s \in Entries /\ Len(s) = slice.len /\ slice.len \in Nat /\ n \in Nat /\ Limit \in Int
      /\ Limit >= 0 => slice.len <= Limit
  BY ReadSlice, LimitAssumption DEF SliceInv, Entries
<1>2. tk \in Entries /\ Len(tk) = n /\ SubSeq(tk, 1, n) = tk
  BY TruncatedAllProperties, PrefixGrows
<1>3. /\ u \in Entries /\ DistinctKeys(u) /\ MapOf(u) = MapOf(s) /\ Len(u) <= Len(s)
      /\ KeepsKeys(s, u) /\ KeysIn(u) = KeysIn(s) /\ Len(u) \in Nat
  <2>1. u \in Entries /\ DistinctKeys(u) /\ MapOf(u) = MapOf(s) /\ Len(u) <= Len(s) /\ KeepsKeys(s, u)
    BY <1>1, DedupeProperties
  <2>2. DOMAIN MapOf(u) = KeysIn(u) /\ DOMAIN MapOf(s) = KeysIn(s)
    BY DEF MapOf
  <2> HIDE DEF u, s
  <2> QED BY <2>1, <2>2 DEF Entries
<1>4. CASE Limit = 0
  <2>1. mem' = mem /\ slice' = slice /\ dropped' = dropped + n
    BY <1>4 DEF SetAttributes
  <2>2. Len(s) = 0
    BY <1>1, <1>4
  <2>3. Result(MapOf(s), tk) = MapOf(s) /\ Cardinality(Lost(KeysIn(s), tk)) = n
    <3> HIDE DEF s, tk
    <3> QED BY <1>1, <1>2, <1>4, <2>2, NothingLost
  <2>4. SliceInv' /\ Read(slice)' = s
    BY <2>1 DEF SliceInv, Read
  <2>5. ViewsKept
    BY <2>1 DEF ViewsKept
  <2> QED BY <2>1, <2>3, <2>4, <2>5
<1>5. CASE Limit # 0 /\ OverLimit(n)
  <2>1. Store(u, MinOf(n + Len(u), Limit), over.attrs) /\ dropped' = dropped + over.dropped
    BY <1>5 DEF SetAttributes
  <2>2. Limit > 0 /\ Len(u) <= Limit
    <3>1. Limit > 0
      BY <1>1, <1>5 DEF OverLimit
    <3> HIDE DEF u, s
    <3> QED BY <1>1, <1>3, <3>1
  <2>3. After(u, kvs, n, over) /\ Len(over.attrs) <= Limit
    <3> HIDE DEF u
    <3> QED BY <1>3, <2>2, AddOverCapLoop
  <2> DEFINE need == MinOf(n + Len(u), Limit)
             to == over.attrs
  <2> HIDE DEF over, u, s, tk, n
  <2>4. /\ to \in Entries /\ Len(to) \in Nat /\ Len(u) <= Len(to) /\ Len(to) <= Len(u) + n
        /\ MapOf(to) = Result(MapOf(s), tk) /\ over.dropped = Cardinality(Lost(KeysIn(s), tk))
        /\ \A i \in DOMAIN u : to[i].key = u[i].key
    <3>1. /\ over \in Tally /\ MapOf(to) = Result(MapOf(u), SubSeq(tk, 1, n))
          /\ over.dropped = Cardinality(Lost(KeysIn(u), SubSeq(tk, 1, n)))
          /\ Len(u) <= Len(to) /\ Len(to) <= Len(u) + n
          /\ \A i \in DOMAIN u : to[i].key = u[i].key
      BY <2>3 DEF After, tk
    <3>2. to \in Entries /\ Len(to) \in Nat
      BY <3>1 DEF Tally, Entries
    <3> QED BY <1>2, <1>3, <3>1, <3>2
  <2>5. need \in Nat /\ Len(to) <= need
    BY <1>1, <1>3, <2>2, <2>3, <2>4 DEF MinOf
  <2> HIDE DEF need, to
  <2>6. Grows(u, need, to)
    <3>1. Len(to) <= Len(u) + need
      BY <1>3, <2>4, <2>5
    <3> QED BY <1>1, <1>3, <2>4, <2>5, <3>1 DEF Grows, s
  <2>7. SliceInv' /\ Read(slice)' = to /\ ViewsKept
    BY <2>1, <2>3, <2>6, StoreKeeps DEF need, to
  <2> QED BY <2>1, <2>4, <2>7 DEF s, tk
<1>6. CASE Limit # 0 /\ ~OverLimit(n)
  <2>1. Store(s, slice.len + n, under.attrs) /\ dropped' = dropped + under.dropped
    BY <1>6 DEF SetAttributes
  <2>2. Limit < 0 \/ Len(s) + n <= Limit
    BY <1>1, <1>6 DEF OverLimit
  <2>3. After(s, kvs, n, under)
    <3> HIDE DEF s
    <3> QED BY <1>1, <2>2, AddUnderCapLoop
  <2> DEFINE need == slice.len + n
             to == under.attrs
  <2> HIDE DEF under, u, s, tk, n
  <2>4. /\ to \in Entries /\ Len(to) \in Nat /\ Len(s) <= Len(to) /\ Len(to) <= Len(s) + n
        /\ MapOf(to) = Result(MapOf(s), tk) /\ under.dropped = Cardinality(Lost(KeysIn(s), tk))
        /\ \A i \in DOMAIN s : to[i].key = s[i].key
    <3>1. /\ under \in Tally /\ MapOf(to) = Result(MapOf(s), SubSeq(tk, 1, n))
          /\ under.dropped = Cardinality(Lost(KeysIn(s), SubSeq(tk, 1, n)))
          /\ Len(s) <= Len(to) /\ Len(to) <= Len(s) + n
          /\ \A i \in DOMAIN s : to[i].key = s[i].key
      BY <2>3 DEF After, tk
    <3>2. to \in Entries /\ Len(to) \in Nat
      BY <3>1 DEF Tally, Entries
    <3> QED BY <1>2, <3>1, <3>2
  <2>5. need \in Nat /\ Len(to) <= need /\ (Limit >= 0 => Len(to) <= Limit)
    BY <1>1, <1>6, <2>2, <2>4
  <2>6. KeepsKeys(s, s)
    BY <1>1 DEF KeepsKeys
  <2> HIDE DEF need, to
  <2>7. Grows(s, need, to)
    <3>1. Len(to) <= Len(s) + need /\ Len(s) <= slice.len
      BY <1>1, <2>4, <2>5
    <3> QED BY <1>1, <2>4, <2>5, <2>6, <3>1 DEF Grows, s
  <2>8. SliceInv' /\ Read(slice)' = to /\ ViewsKept
    BY <2>1, <2>5, <2>7, StoreKeeps DEF need, to
  <2> QED BY <2>1, <2>4, <2>8 DEF s, tk
<1> QED BY <1>4, <1>5, <1>6

(* Removing duplicates in place changes nothing that is read. *)
LEMMA DedupeInPlace ==
  ASSUME SliceInv, Store(Dedupe(Read(slice)), 0, Dedupe(Read(slice)))
  PROVE  /\ SliceInv' /\ ViewsKept
         /\ Read(slice)' = Dedupe(Read(slice)) /\ slice'.len = Len(Dedupe(Read(slice)))
         /\ MapOf(Read(slice)') = MapOf(Read(slice))
<1> DEFINE s == Read(slice)
           u == Dedupe(s)
<1>1. /\ s \in Entries /\ Len(s) = slice.len /\ slice.len \in Nat /\ Limit \in Int
      /\ Limit >= 0 => slice.len <= Limit
  BY ReadSlice, LimitAssumption DEF SliceInv
<1>2. /\ u \in Entries /\ MapOf(u) = MapOf(s) /\ Len(u) <= Len(s) /\ KeepsKeys(s, u)
  BY <1>1, DedupeProperties
<1>3. Len(u) \in Nat
  BY <1>2 DEF Entries
<1> HIDE DEF u
<1>4. Grows(u, 0, u)
  BY <1>1, <1>2, <1>3 DEF Grows
<1>5. Limit >= 0 => Len(u) <= Limit
  <2> HIDE DEF s
  <2> QED BY <1>1, <1>2, <1>3
<1>6. Store(u, 0, u)
  BY DEF u
<1>7. SliceInv' /\ Read(slice)' = u /\ slice'.len = Len(u) /\ ViewsKept
  BY <1>4, <1>5, <1>6, StoreKeeps
<1> QED BY <1>2, <1>7 DEF u

-----------------------------------------------------------------------------
(* The steps of a span.                                                    *)

BatchesUsed == Batches \cup {StartBatches[j] : j \in DOMAIN StartBatches}

(* What SetAttributes is called with. *)
CallInv ==
  /\ starting \in Seq(BatchesUsed)
  /\ \A t \in Threads : pc[t] = "SetAttributes" => arg[t].kvs \in Batches

(* A snapshot's slice still has the keys it was taken with. *)
ShareInv ==
  \A n \in DOMAIN snaps :
    LET s == snaps[n]
        v == s.attrs
    IN /\ View(mem, slice, v.arr, v.len)
       /\ s.keys = [i \in 1..v.len |-> mem[v.arr][i].key]
       /\ Limit >= 0 => v.len <= Limit

AttrInv == SliceInv /\ CallInv /\ ShareInv

LEMMA BatchesAreEntries == BatchesUsed \subseteq Entries
<1> DEFINE Source == [key : STRING, val : Nat]
<1>1. Batches \subseteq Seq(Source) /\ StartBatches \in Seq(Seq(Source))
  BY BatchAssumption
<1>2. Source \subseteq Attribute
  BY DEF Attribute
<1> HIDE DEF Source
<1>3. Seq(Source) \subseteq Entries
  BY <1>2 DEF Entries
<1> QED BY <1>1, <1>3 DEF BatchesUsed

(* Views that are kept keep what snapshots have. *)
LEMMA ShareKept ==
  ASSUME ShareInv, ViewsKept, UNCHANGED snaps PROVE ShareInv'
<1> SUFFICES ASSUME NEW n \in DOMAIN snaps,
                    NEW s, s = snaps[n], NEW v, v = s.attrs
             PROVE  /\ View(mem', slice', v.arr, v.len)
                    /\ s.keys = [i \in 1..v.len |-> mem'[v.arr][i].key]
                    /\ Limit >= 0 => v.len <= Limit
  BY DEF ShareInv
<1>1. /\ View(mem, slice, v.arr, v.len)
      /\ s.keys = [i \in 1..v.len |-> mem[v.arr][i].key]
      /\ Limit >= 0 => v.len <= Limit
  BY DEF ShareInv
<1>2. View(mem', slice', v.arr, v.len)
      /\ \A i \in 1..v.len : mem'[v.arr][i].key = mem[v.arr][i].key
  BY <1>1 DEF ViewsKept
<1> QED BY <1>1, <1>2

(* A snapshot removes the duplicates and becomes one more view. *)
LEMMA SnapshotShares ==
  ASSUME TypeOK, SliceInv, ShareInv, NEW t \in Threads, Snapshot(t)
  PROVE  SliceInv' /\ ShareInv' /\ MapOf(Read(slice)') = MapOf(Read(slice))
<1> DEFINE u == Dedupe(Read(slice))
           s == [attrs |-> slice', keys |-> [i \in DOMAIN u |-> u[i].key],
                 dropped |-> dropped, held |-> [w \in Queues |-> queue[w].held],
                 lost |-> [w \in Queues |-> Reported(w)], added |-> added,
                 status |-> status, children |-> children]
<1>1. /\ snaps' = Append(snaps, s)
      /\ s.attrs = slice' /\ s.keys = [i \in DOMAIN u |-> u[i].key]
  BY DEF Snapshot
<1>2. Store(u, 0, u)
  BY DEF Snapshot
<1> HIDE DEF s
<1>3. IsSeq(snaps)
  BY DEF TypeOK
<1>4. /\ SliceInv' /\ ViewsKept /\ Read(slice)' = u /\ slice'.len = Len(u)
      /\ MapOf(Read(slice)') = MapOf(Read(slice))
  BY <1>2, DedupeInPlace
<1>5. u \in Entries /\ DistinctKeys(u)
  BY ReadSlice, DedupeProperties
<1>6. DOMAIN u = 1..Len(u) /\ Len(u) \in Nat
  BY <1>5 DEF Entries
<1> HIDE DEF u
<1>7. \A i \in 1..slice'.len : mem'[slice'.arr][i] = u[i]
  <2>1. mem' \in Seq(Entries) /\ slice'.arr \in 1..Len(mem') /\ slice'.len \in Nat
        /\ slice'.len <= Len(mem'[slice'.arr])
    BY <1>4 DEF SliceInv
  <2>2. mem'[slice'.arr] \in Entries
    BY <2>1
  <2>3. SubSeq(mem'[slice'.arr], 1, slice'.len) = u
    BY <1>4 DEF Read
  <2>4. \A i \in 1..slice'.len : SubSeq(mem'[slice'.arr], 1, slice'.len)[i] = mem'[slice'.arr][i]
    BY <2>1, <2>2 DEF Entries
  <2> QED BY <2>3, <2>4
<1>8. /\ View(mem', slice', slice'.arr, slice'.len)
      /\ s.keys = [i \in 1..slice'.len |-> mem'[slice'.arr][i].key]
      /\ Limit >= 0 => slice'.len <= Limit
  <2>1. \A i, j \in 1..slice'.len : mem'[slice'.arr][i].key = mem'[slice'.arr][j].key => i = j
    BY <1>4, <1>5, <1>6, <1>7 DEF DistinctKeys
  <2>2. s.keys = [i \in 1..slice'.len |-> mem'[slice'.arr][i].key]
    BY <1>1, <1>4, <1>6, <1>7
  <2> QED BY <1>4, <2>1, <2>2 DEF View, SliceInv
<1>9. ASSUME NEW n \in DOMAIN snaps'
      PROVE  LET x == snaps'[n]
                 v == x.attrs
             IN /\ View(mem', slice', v.arr, v.len)
                /\ x.keys = [i \in 1..v.len |-> mem'[v.arr][i].key]
                /\ Limit >= 0 => v.len <= Limit
  <2>1. CASE n \in DOMAIN snaps
    <3>1. snaps'[n] = snaps[n]
      BY <1>1, <1>3, <2>1, AppendAny
    <3> DEFINE x == snaps[n]
               v == x.attrs
    <3>2. /\ View(mem, slice, v.arr, v.len)
          /\ x.keys = [i \in 1..v.len |-> mem[v.arr][i].key]
          /\ Limit >= 0 => v.len <= Limit
      BY <2>1 DEF ShareInv
    <3> HIDE DEF x, v
    <3>3. View(mem', slice', v.arr, v.len)
          /\ \A i \in 1..v.len : mem'[v.arr][i].key = mem[v.arr][i].key
      BY <1>4, <3>2 DEF ViewsKept
    <3>4. x.keys = [i \in 1..v.len |-> mem'[v.arr][i].key]
      BY <3>2, <3>3
    <3> QED BY <3>1, <3>2, <3>3, <3>4 DEF x, v
  <2>2. CASE n \notin DOMAIN snaps
    <3>1. snaps'[n] = s
      BY <1>1, <1>3, <2>2, AppendAny
    <3> QED BY <1>1, <1>8, <3>1
  <2> QED BY <2>1, <2>2
<1>10. ShareInv'
  BY <1>9 DEF ShareInv
<1> QED BY <1>4, <1>10

LEMMA CallNext ==
  TypeOK /\ CallInv /\ [LifeNext]_lifeVars => CallInv'
<1> SUFFICES ASSUME TypeOK, CallInv, [LifeNext]_lifeVars PROVE CallInv'
  OBVIOUS
<1>1. ASSUME Start, UNCHANGED sspVars PROVE CallInv'
  <2>1. starting' = Tail(starting) /\ starting # <<>> /\ UNCHANGED <<pc, arg>>
    BY <1>1 DEF Start, threadVars
  <2>2. starting' \in Seq(BatchesUsed)
    BY <2>1 DEF CallInv
  <2> QED BY <2>1, <2>2 DEF CallInv
<1>2. ASSUME NEW t \in Threads, Calls(t), UNCHANGED sspVars PROVE CallInv'
  <2>1. ASSUME NEW label, NEW kvs, NEW n, Call(t, label, kvs, n),
               label = "SetAttributes" => kvs \in Batches
        PROVE  CallInv'
    <3>1. CASE ended
      BY <2>1, <3>1 DEF Call, CallInv
    <3>2. CASE ~ended
      <4>1. /\ starting' = starting /\ pc' = [pc EXCEPT ![t] = label]
            /\ arg' = [arg EXCEPT ![t] = [kvs |-> kvs, n |-> n]]
        BY <2>1, <3>2 DEF Call, Goto
      <4>2. pc \in [Threads -> Places] /\ arg \in [Threads -> Args]
        BY DEF TypeOK
      <4>3. ASSUME NEW x \in Threads, pc'[x] = "SetAttributes" PROVE arg'[x].kvs \in Batches
        <5>1. CASE x = t
          BY <2>1, <4>1, <4>2, <4>3, <5>1
        <5>2. CASE x # t
          BY <4>1, <4>2, <4>3, <5>2 DEF CallInv
        <5> QED BY <5>1, <5>2
      <4> QED BY <4>1, <4>3 DEF CallInv
    <3> QED BY <3>1, <3>2
  <2> QED BY <1>2, <2>1 DEF Calls
<1>3. ASSUME NEW t \in Threads, UNCHANGED starting,
             \/ UNCHANGED <<pc, arg>>
             \/ \E l \in Places \ {"SetAttributes"} :
                  Goto(t, l) /\ \A x \in Threads : x # t => arg'[x] = arg[x]
      PROVE  CallInv'
  <2>1. CASE UNCHANGED <<pc, arg>>
    BY <1>3, <2>1 DEF CallInv
  <2>2. ASSUME NEW l \in Places \ {"SetAttributes"}, Goto(t, l),
               \A x \in Threads : x # t => arg'[x] = arg[x]
        PROVE  CallInv'
    BY <1>3, <2>2 DEF CallInv, Goto, TypeOK
  <2> QED BY <1>3, <2>1, <2>2
<1>4. ASSUME NEW t \in Threads, Return(t) PROVE
        Goto(t, "idle") /\ \A x \in Threads : x # t => arg'[x] = arg[x]
  BY <1>4 DEF Return, TypeOK
<1>5. "idle" \in Places \ {"SetAttributes"} /\ "end" \in Places \ {"SetAttributes"}
      /\ "snapshot" \in Places \ {"SetAttributes"} /\ "OnEnd" \in Places \ {"SetAttributes"}
      /\ "export" \in Places \ {"SetAttributes"}
  BY DEF Places
<1>6. ASSUME NEW t \in Threads,
             \/ LateSetAttributes(t) \/ LateAdd(t) \/ LateSetStatus(t) \/ LateAddChild(t)
      PROVE  CallInv'
  BY <1>3, <1>4, <1>5, <1>6 DEF LateSetAttributes, LateAdd, LateSetStatus, LateAddChild
<1>7. ASSUME NEW t \in Threads, Attributes(t) PROVE CallInv'
  BY <1>3, <1>7 DEF Attributes
<1>8. ASSUME NEW t \in Threads, EndPanicEvent(t) \/ EndMark(t) PROVE CallInv'
  BY <1>3, <1>5, <1>8 DEF EndPanicEvent, EndMark
<1>9. ASSUME NEW t \in Threads, Snapshot(t) PROVE CallInv'
  <2>1. \A x \in Threads : x # t => arg'[x] = arg[x]
    BY <1>9 DEF Snapshot, TypeOK
  <2> QED BY <1>3, <1>5, <1>9, <2>1 DEF Snapshot
<1>10. ASSUME NEW t \in Threads, OnEnd(t) PROVE CallInv'
  <2>1. UNCHANGED starting /\ \/ Goto(t, "export") /\ UNCHANGED arg
                              \/ Goto(t, "idle") /\ arg' = [arg EXCEPT ![t] = NoArg]
    BY <1>10 DEF OnEnd
  <2>2. \A x \in Threads : x # t => arg'[x] = arg[x]
    BY <2>1 DEF TypeOK
  <2> QED BY <1>3, <1>5, <2>1, <2>2
<1>11. ASSUME NEW t \in Threads, Exported(t) PROVE CallInv'
  BY <1>3, <1>4, <1>5, <1>11 DEF Exported
<1>12. ASSUME UNCHANGED vars PROVE CallInv'
  BY <1>12 DEF vars, threadVars, CallInv
<1> QED BY <1>1, <1>2, <1>6, <1>7, <1>8, <1>9, <1>10, <1>11, <1>12 DEF LifeNext, SpanNext, lifeVars

(* Only these steps touch the attributes or the snapshots. *)
AttrStep(t) == LateSetAttributes(t) \/ Attributes(t) \/ Snapshot(t)

LEMMA OtherSteps ==
  ASSUME [LifeNext]_lifeVars
  PROVE  \/ Start \/ \E t \in Threads : AttrStep(t)
         \/ UNCHANGED <<mem, slice, dropped, snaps>>
<1>1. ASSUME NEW t \in Threads,
             \/ Calls(t) \/ LateAdd(t) \/ LateSetStatus(t) \/ LateAddChild(t)
             \/ EndPanicEvent(t) \/ EndMark(t) \/ OnEnd(t) \/ Exported(t)
      PROVE  UNCHANGED <<mem, slice, dropped, snaps>>
  BY <1>1 DEF Calls, Call, LateAdd, LateSetStatus, LateAddChild, EndPanicEvent,
              EndMark, OnEnd, Exported, spanVars
<1>2. ASSUME UNCHANGED vars PROVE UNCHANGED <<mem, slice, dropped, snaps>>
  BY <1>2 DEF vars, spanVars
<1> QED BY <1>1, <1>2 DEF LifeNext, SpanNext, lifeVars, AttrStep

LEMMA AttrNext ==
  TypeOK /\ AttrInv /\ [LifeNext]_lifeVars => AttrInv'
<1> SUFFICES ASSUME TypeOK, AttrInv, [LifeNext]_lifeVars PROVE SliceInv' /\ ShareInv'
  BY CallNext DEF AttrInv
<1> USE DEF AttrInv
<1>1. ASSUME NEW kvs \in BatchesUsed, SetAttributes(kvs), UNCHANGED snaps
      PROVE  SliceInv' /\ ShareInv'
  <2>1. kvs \in Entries
    BY BatchesAreEntries
  <2>2. SliceInv' /\ ViewsKept
    BY <1>1, <2>1, SetAttributesProperties
  <2> QED BY <1>1, <2>2, ShareKept
<1>2. CASE Start
  <2>1. Head(starting) \in BatchesUsed
    BY <1>2 DEF Start, CallInv
  <2> QED BY <1>1, <1>2, <2>1 DEF Start
<1>3. ASSUME NEW t \in Threads, AttrStep(t) PROVE SliceInv' /\ ShareInv'
  <2>1. CASE LateSetAttributes(t)
    <3>1. arg[t].kvs \in BatchesUsed
      BY <2>1 DEF LateSetAttributes, CallInv, BatchesUsed
    <3> QED BY <1>1, <2>1, <3>1 DEF LateSetAttributes
  <2>2. CASE Attributes(t)
    <3>1. SliceInv' /\ ViewsKept
      BY <2>2, DedupeInPlace DEF Attributes
    <3> QED BY <2>2, <3>1, ShareKept DEF Attributes
  <2>3. CASE Snapshot(t)
    BY <2>3, SnapshotShares
  <2> QED BY <1>3, <2>1, <2>2, <2>3 DEF AttrStep
<1>4. CASE UNCHANGED <<mem, slice, dropped, snaps>>
  BY <1>4 DEF SliceInv, ShareInv
<1> QED BY <1>2, <1>3, <1>4, OtherSteps

LEMMA AttrInit == LifeInit => AttrInv
<1> SUFFICES ASSUME LifeInit PROVE AttrInv
  OBVIOUS
<1>1. /\ starting = StartBatches /\ mem = << <<>> >> /\ slice = [arr |-> 1, len |-> 0]
      /\ pc = [t \in Threads |-> "idle"] /\ snaps = <<>>
  BY DEF LifeInit, Init
<1>2. <<>> \in Entries
  BY DEF Entries
<1>3. SliceInv
  BY <1>1, <1>2, LimitAssumption DEF SliceInv
<1>4. starting \in Seq(BatchesUsed)
  <2>1. \E S : StartBatches \in Seq(S)
    BY BatchAssumption
  <2> QED BY <1>1, <2>1 DEF BatchesUsed
<1>5. CallInv
  BY <1>1, <1>4 DEF CallInv
<1>6. ShareInv
  BY <1>1 DEF ShareInv
<1> QED BY <1>3, <1>5, <1>6 DEF AttrInv

LEMMA AttrKeysStable == AttrInv => SnapshotKeysStable
<1> SUFFICES ASSUME SliceInv, ShareInv, NEW n \in DOMAIN snaps
             PROVE  LET s == snaps[n]
                    IN /\ [i \in 1..s.attrs.len |-> Read(s.attrs)[i].key] = s.keys
                       /\ \A i, j \in DOMAIN s.keys : s.keys[i] = s.keys[j] => i = j
                       /\ Limit >= 0 => Len(s.keys) <= Limit
  BY DEF AttrInv, SnapshotKeysStable
<1> DEFINE s == snaps[n]
           v == s.attrs
<1>1. /\ View(mem, slice, v.arr, v.len)
      /\ s.keys = [i \in 1..v.len |-> mem[v.arr][i].key]
      /\ Limit >= 0 => v.len <= Limit
  BY DEF ShareInv
<1>2. /\ v.arr \in 1..Len(mem) /\ v.len \in Nat /\ v.len <= Len(mem[v.arr])
      /\ \A i, j \in 1..v.len : mem[v.arr][i].key = mem[v.arr][j].key => i = j
      /\ mem[v.arr] \in Entries
  BY <1>1 DEF View, SliceInv
<1> HIDE DEF v
<1>3. \A i \in 1..v.len : Read(v)[i] = mem[v.arr][i]
  BY <1>2 DEF Read, Entries
<1> HIDE DEF s
<1>4. [i \in 1..v.len |-> Read(v)[i].key] = s.keys
  BY <1>1, <1>3
<1>5. Len(s.keys) = v.len
  BY <1>1, <1>2
<1> QED BY <1>1, <1>2, <1>4, <1>5 DEF v, s

(* What a processor received at OnEnd keeps its keys, each once and at     *)
(* most Limit, whatever late calls and getters do to the array it shares   *)
(* with the span (span.go, snapshot).                                      *)
THEOREM SnapshotKeysAreStable == Spec => []SnapshotKeysStable
<1>1. LifeInit => TypeOK /\ AttrInv
  BY TypeInit, AttrInit
<1>2. TypeOK /\ AttrInv /\ [LifeNext]_lifeVars => TypeOK' /\ AttrInv'
  BY TypeNext, AttrNext
<1>3. AttrInv => SnapshotKeysStable
  BY AttrKeysStable
<1> QED BY <1>1, <1>2, <1>3, PTL DEF Spec

-----------------------------------------------------------------------------
(* What SetAttributes does is the step Set of SpanAttributes. *)
LEMMA ResultIsSet ==
  ASSUME SliceInv, NEW kvs \in BatchesUsed,
         MapOf(Read(slice)') = Result(MapOf(Read(slice)), TruncatedAll(kvs)),
         dropped' = dropped + Cardinality(Lost(KeysIn(Read(slice)), TruncatedAll(kvs)))
  PROVE  Map!Next
<1> DEFINE tk == TruncatedAll(kvs)
           m == MapOf(Read(slice))
           D == DOMAIN m
<1>1. kvs \in Entries /\ Read(slice) \in Entries
  BY BatchesAreEntries, ReadSlice
<1>2. tk \in Entries /\ Len(tk) = Len(kvs) /\ \A i \in 1..Len(kvs) : Truncated(tk[i]) = tk[i]
  BY <1>1, TruncatedAllProperties
<1>3. tk \in AllBatches
  BY DEF AllBatches, TruncatedAll, BatchesUsed
<1>4. Current = m /\ Current' = MapOf(Read(slice)') /\ D = KeysIn(Read(slice))
  BY DEF Current, MapOf, KeysIn
<1> HIDE DEF tk, m
<1>5. \A p : Map!KeysOf(p) = ValidKeys(p)
  BY DEF Map!KeysOf, Map!Valid, ValidKeys, Valid
<1>6. Map!Admitted(tk) = LetIn(D, tk)
  <2>1. \A S : Map!Cardinality(S) = Cardinality(S)
    BY DEF Map!Cardinality, Cardinality
  <2>2. \A i : Map!NewBefore(tk, i) = Cardinality(NewKeys(D, SubSeq(tk, 1, i - 1)))
    <3>1. \A i : Map!NewBefore(tk, i) = Map!Cardinality(Map!KeysOf(SubSeq(tk, 1, i - 1)) \ DOMAIN Current)
      BY DEF Map!NewBefore
    <3> QED BY <1>4, <1>5, <2>1, <3>1 DEF NewKeys
  <2>3. Map!Admitted(tk) =
          {k \in Map!KeysOf(tk) \ DOMAIN Current :
             \/ Limit < 0
             \/ \E i \in DOMAIN tk :
                  /\ tk[i].key = k
                  /\ Map!Cardinality(DOMAIN Current) + Map!NewBefore(tk, i) < Limit}
    BY DEF Map!Admitted
  <2> QED BY <1>4, <1>5, <2>1, <2>2, <2>3 DEF LetIn, NewKeys
<1>7. ASSUME NEW k \in ValidKeys(tk) PROVE Map!LastValue(tk, k) = Truncated(tk[LastOf(tk, k)]).val
  <2> DEFINE I == {i \in 1..Len(tk) : tk[i].key = k}
  <2>1. Len(tk) \in Nat /\ DOMAIN tk = 1..Len(tk) /\ k \in KeysIn(tk)
    BY <1>2, ValidKeysFinite DEF Entries
  <2>2. Map!LastValue(tk, k) = tk[IF I # {} THEN Max(I) ELSE 0].val
    BY DEF Map!LastValue, Map!SelectLastInSeq, Map!Max, Max
  <2>3. I # {} /\ I \in SUBSET (1..Len(tk))
    BY <2>1 DEF KeysIn
  <2>4. Max(I) \in I /\ \A i \in I : i <= Max(I)
    <3> HIDE DEF I
    <3> QED BY <2>1, <2>3, MaxOfPositions
  <2>5. /\ Max(I) \in DOMAIN tk /\ tk[Max(I)].key = k
        /\ \A j \in DOMAIN tk : j > Max(I) => tk[j].key # tk[Max(I)].key
    <3>1. ASSUME NEW j \in DOMAIN tk, j > Max(I), tk[j].key = tk[Max(I)].key PROVE FALSE
      BY <2>1, <2>4, <3>1
    <3> QED BY <2>1, <2>4, <3>1
  <2> HIDE DEF I
  <2>6. LastOf(tk, k) = Max(I)
    <3> DEFINE x == Max(I)
    <3>1. /\ x \in DOMAIN tk /\ tk[x].key = k
          /\ \A j \in DOMAIN tk : j > x => tk[j].key # tk[x].key
      BY <2>5
    <3> HIDE DEF x
    <3>2. LastOf(tk, tk[x].key) = x
      BY <1>2, <3>1, LastOfUnique
    <3> QED BY <3>1, <3>2 DEF x
  <2>7. Truncated(tk[Max(I)]) = tk[Max(I)]
    BY <1>2, <2>1, <2>5
  <2> QED BY <2>2, <2>3, <2>6, <2>7
<1>8. Current' = [k \in D \cup LetIn(D, tk) |->
                    IF k \in ValidKeys(tk) THEN Map!LastValue(tk, k) ELSE m[k]]
  <2>1. Current' = Result(m, tk)
    BY <1>4 DEF tk, m
  <2>2. Result(m, tk) = [k \in D \cup LetIn(D, tk) |->
                    IF k \in ValidKeys(tk) THEN Truncated(tk[LastOf(tk, k)]).val ELSE m[k]]
    BY DEF Result
  <2> HIDE DEF D
  <2> QED BY <1>7, <2>1, <2>2
<1>9. dropped' = dropped + Cardinality({i \in DOMAIN tk : ~Map!Valid(tk[i]) \/ tk[i].key \notin D \cup LetIn(D, tk)})
  BY <1>4 DEF Lost, Map!Valid, Valid, tk, m
<1>10. Map!Set(tk)
  <2>1. DOMAIN Current = D
    BY <1>4
  <2> DEFINE keys == D \cup LetIn(D, tk)
             out == {i \in DOMAIN tk : ~Map!Valid(tk[i]) \/ tk[i].key \notin keys}
  <2>2. Map!Set(tk) <=>
          /\ Current' = [k \in keys |-> IF k \in Map!KeysOf(tk) THEN Map!LastValue(tk, k) ELSE Current[k]]
          /\ dropped' = dropped + Map!Cardinality(out)
    BY <1>6, <2>1 DEF Map!Set
  <2>3. Map!Cardinality(out) = Cardinality(out)
    BY DEF Map!Cardinality, Cardinality
  <2> HIDE DEF out
  <2>4. dropped' = dropped + Map!Cardinality(out)
    BY <1>9, <2>3 DEF out
  <2> QED BY <1>4, <1>5, <1>8, <2>2, <2>4
<1> QED BY <1>3, <1>10 DEF Map!Next

LEMMA MapNext ==
  AttrInv /\ [LifeNext]_lifeVars => [Map!Next]_(Map!vars)
<1> SUFFICES ASSUME AttrInv, [LifeNext]_lifeVars PROVE [Map!Next]_(Map!vars)
  OBVIOUS
<1> USE DEF AttrInv
<1>1. ASSUME NEW kvs \in BatchesUsed, SetAttributes(kvs) PROVE Map!Next
  <2>1. kvs \in Entries
    BY BatchesAreEntries
  <2> QED BY <1>1, <2>1, SetAttributesProperties, ResultIsSet
<1>2. CASE Start
  <2>1. Head(starting) \in BatchesUsed
    BY <1>2 DEF Start, CallInv
  <2> QED BY <1>1, <1>2, <2>1 DEF Start
<1>3. Current = MapOf(Read(slice)) /\ Current' = MapOf(Read(slice)')
  BY DEF Current, MapOf, KeysIn
<1>4. ASSUME NEW t \in Threads, AttrStep(t) PROVE [Map!Next]_(Map!vars)
  <2>1. CASE LateSetAttributes(t)
    <3>1. arg[t].kvs \in BatchesUsed
      BY <2>1 DEF LateSetAttributes, CallInv, BatchesUsed
    <3> QED BY <1>1, <2>1, <3>1 DEF LateSetAttributes
  <2>2. CASE Attributes(t) \/ Snapshot(t)
    <3>1. MapOf(Read(slice)') = MapOf(Read(slice)) /\ dropped' = dropped
      BY <2>2, DedupeInPlace DEF Attributes, Snapshot
    <3> QED BY <1>3, <3>1 DEF Map!vars
  <2> QED BY <1>4, <2>1, <2>2 DEF AttrStep
<1>5. CASE UNCHANGED <<mem, slice, dropped, snaps>>
  BY <1>5 DEF Map!vars, Current, Read
<1> QED BY <1>2, <1>4, <1>5, OtherSteps

LEMMA MapInit == LifeInit => Map!Init
<1> SUFFICES ASSUME LifeInit PROVE Map!Init
  OBVIOUS
<1>1. mem = << <<>> >> /\ slice = [arr |-> 1, len |-> 0] /\ dropped = 0
  BY DEF LifeInit, Init
<1>2. Read(slice) = <<>>
  BY <1>1 DEF Read
<1>3. Current = [k \in {} |-> Truncated(Read(slice)[LastOf(Read(slice), k)]).val]
  BY <1>2 DEF Current
<1>4. Current = <<>>
  BY <1>3
<1> QED BY <1>1, <1>4 DEF Map!Init

(* The attributes of a span are the map that the comments promise: it      *)
(* reads the last value of each key, admits keys up to the limit and       *)
(* counts every other attribute (span.go, SetAttributes, addOverCapAttrs   *)
(* and dedupeAttrsFromRecord).                                             *)
THEOREM AttributesAreAMap == Spec => ImplementsMap
<1>1. LifeInit => TypeOK /\ AttrInv /\ Map!Init
  BY TypeInit, AttrInit, MapInit
<1>2. TypeOK /\ AttrInv /\ [LifeNext]_lifeVars => TypeOK' /\ AttrInv'
  BY TypeNext, AttrNext
<1>3. AttrInv /\ [LifeNext]_lifeVars => [Map!Next]_(Map!vars)
  BY MapNext
<1> QED BY <1>1, <1>2, <1>3, PTL DEF Spec, ImplementsMap, Map!Spec
==============================================================================
