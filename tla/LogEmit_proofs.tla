---------------------------- MODULE LogEmit_proofs ----------------------------
(***************************************************************************)
(* Theorems about LogEmit.  For every ring size the ring is consistent and *)
(* implements the queue that drops the oldest record.  For all limits and  *)
(* arguments a record and its clones implement the maps of LogAttributes:  *)
(* first what one pass over the attributes does, then what it makes of the *)
(* map, the records in memory, and the invariant that no array is shared.  *)
(***************************************************************************)
EXTENDS LogEmit, SequenceLemmas, FiniteSetTheorems, SequenceTheorems, TLAPS

-----------------------------------------------------------------------------
(* Moving around the ring. *)

LEMMA AheadInRing ==
  ASSUME NEW i \in Cells, NEW n \in 0..QueueSize
  PROVE  Ahead(i, n) \in Cells
BY SizeAssumption DEF Ahead, Cells

LEMMA AheadNext ==
  ASSUME NEW i \in Cells, NEW n \in 0..QueueSize - 1
  PROVE  /\ Ahead(i, n + 1) = After(Ahead(i, n))
         /\ Ahead(After(i), n) = Ahead(i, n + 1)
         /\ After(i) \in Cells
BY SizeAssumption DEF Ahead, After, Cells

LEMMA AheadAround ==
  ASSUME NEW i \in Cells
  PROVE  Ahead(i, QueueSize) = i /\ Ahead(i, 0) = i
BY SizeAssumption DEF Ahead, Cells

LEMMA AheadAdd ==
  ASSUME NEW i \in Cells, NEW m \in Nat, NEW n \in Nat, m + n <= QueueSize
  PROVE  Ahead(Ahead(i, m), n) = Ahead(i, m + n)
BY SizeAssumption DEF Ahead, Cells

LEMMA AheadInjective ==
  ASSUME NEW i \in Cells, NEW m \in 0..QueueSize - 1, NEW n \in 0..QueueSize - 1,
         m # n
  PROVE  Ahead(i, m) # Ahead(i, n)
BY SizeAssumption DEF Ahead, Cells

(* What a walk over n cells that hold records collects. *)
LEMMA Walk ==
  ASSUME NEW c, NEW i \in Cells, NEW n \in 0..QueueSize,
         \A k \in 1..n : c[Ahead(i, k - 1)] \in Records
  PROVE  LET s == [k \in 1..n |-> c[Ahead(i, k - 1)]]
         IN  s \in Seq(Records) /\ Len(s) = n
<1> DEFINE s == [k \in 1..n |-> c[Ahead(i, k - 1)]]
<1>1. n \in Nat
  BY SizeAssumption
<1>2. s \in [1..n -> Records]
  OBVIOUS
<1> QED BY <1>1, <1>2

-----------------------------------------------------------------------------
(* The ring is consistent. *)

LEMMA InitRingOK == Init => RingOK
BY SizeAssumption, BoundAssumption DEF Init, RingOK, Cells, Ahead

LEMMA EnqueueRingOK ==
  ASSUME RingOK, NEW r \in Records, Enqueue(r)
  PROVE  RingOK'
<1> USE SizeAssumption, BoundAssumption
<1>1. /\ read \in Cells /\ write \in Cells /\ len \in 0..QueueSize
      /\ write = Ahead(read, len)
  BY DEF RingOK
<1>2. cell' \in [Cells -> Records \cup {Zero}]
  BY DEF RingOK, Enqueue
<1>3. dropped' \in 0..MaxDropped
  BY DEF RingOK, Enqueue
<1>4. write' = After(write) /\ write' \in Cells
  <2>1. After(write) \in Cells
    BY <1>1, AheadNext
  <2> QED BY <2>1 DEF Enqueue
<1>5. \A k \in 0..QueueSize - 1 :
        cell'[Ahead(read, k)] = IF k = len THEN r
                                ELSE IF len = QueueSize /\ k = 0 THEN r
                                ELSE cell[Ahead(read, k)]
  <2> TAKE k \in 0..QueueSize - 1
  <2>1. Ahead(read, k) \in Cells
    BY <1>1, AheadInRing
  <2>2. cell' = [cell EXCEPT ![write] = r] /\ cell \in [Cells -> Records \cup {Zero}]
    BY DEF Enqueue, RingOK
  <2>3. CASE len = QueueSize
    <3>1. write = Ahead(read, 0)
      BY <1>1, <2>3, AheadAround
    <3>2. k # 0 => Ahead(read, k) # write
      BY <1>1, <3>1, AheadInjective
    <3> QED BY <2>1, <2>2, <2>3, <3>1, <3>2
  <2>4. CASE len # QueueSize
    <3>1. k # len => Ahead(read, k) # write
      BY <1>1, <2>4, AheadInjective
    <3> QED BY <1>1, <2>1, <2>2, <2>4, <3>1
  <2> QED BY <2>3, <2>4
<1>6. CASE len < QueueSize
  <2>1. len' = len + 1 /\ read' = read
    BY <1>6 DEF Enqueue
  <2>2. write' = Ahead(read', len')
    BY <1>1, <1>4, <1>6, <2>1, AheadNext
  <2>3. \A i \in 1..len' : cell'[Ahead(read', i - 1)] \in Records
    <3> TAKE i \in 1..len'
    <3>1. i - 1 \in 0..QueueSize - 1 /\ (i - 1 = len \/ i \in 1..len)
      BY <1>1, <1>6, <2>1
    <3>2. i \in 1..len => cell[Ahead(read, i - 1)] \in Records
      BY DEF RingOK
    <3> QED BY <1>1, <1>5, <1>6, <2>1, <3>1, <3>2
  <2> QED BY <1>1, <1>2, <1>3, <1>4, <1>6, <2>1, <2>2, <2>3 DEF RingOK
<1>7. CASE len = QueueSize
  <2>1. len' = len /\ read' = After(read)
    BY <1>7 DEF Enqueue, NewOldest
  <2>2. read' \in Cells /\ write' = Ahead(read', len')
    <3>1. write = read
      BY <1>1, <1>7, AheadAround
    <3>2. read' \in Cells
      BY <1>1, <2>1, AheadNext
    <3> QED BY <1>4, <1>7, <2>1, <3>1, <3>2, AheadAround
  <2>3. \A i \in 1..len' : cell'[Ahead(read', i - 1)] \in Records
    <3> TAKE i \in 1..len'
    <3>1. i - 1 \in 0..QueueSize - 1
      BY <1>7, <2>1
    <3>2. Ahead(read', i - 1) = Ahead(read, i)
      BY <1>1, <2>1, <3>1, AheadNext
    <3>3. CASE i = QueueSize
      <4>1. Ahead(read, i) = Ahead(read, 0)
        BY <1>1, <3>3, AheadAround
      <4> QED BY <1>5, <1>7, <3>2, <4>1
    <3>4. CASE i # QueueSize
      <4>1. i \in 0..QueueSize - 1 /\ i + 1 \in 1..len
        BY <1>7, <2>1, <3>4
      <4>2. cell[Ahead(read, (i + 1) - 1)] \in Records
        BY <4>1 DEF RingOK
      <4>3. cell[Ahead(read, i)] \in Records
        BY <4>1, <4>2
      <4> QED BY <1>5, <1>7, <3>2, <4>1, <4>3
    <3> QED BY <3>3, <3>4
  <2> QED BY <1>1, <1>2, <1>3, <1>4, <2>1, <2>2, <2>3 DEF RingOK
<1> QED BY <1>1, <1>6, <1>7

(* TryDequeue, when its records are accepted, and Flush move the read cell *)
(* on by n and leave the rest.                                             *)
LEMMA ReadOnRingOK ==
  ASSUME RingOK, NEW n \in 0..len, read' = Ahead(read, n), len' = len - n,
         UNCHANGED <<cell, write, dropped>>
  PROVE  RingOK'
<1>1. /\ read \in Cells /\ len \in 0..QueueSize /\ write = Ahead(read, len)
      /\ n \in 0..QueueSize /\ QueueSize \in Nat
  BY SizeAssumption DEF RingOK
<1>2. read' \in Cells /\ len' \in 0..QueueSize
  BY <1>1, AheadInRing
<1>3. Ahead(read', len') = Ahead(read, len)
  <2>1. len - n \in Nat /\ n \in Nat /\ n + (len - n) = len /\ len <= QueueSize
    BY <1>1
  <2>2. Ahead(Ahead(read, n), len - n) = Ahead(read, n + (len - n))
    BY <1>1, <2>1, AheadAdd
  <2> QED BY <2>1, <2>2
<1>4. \A i \in 1..len' : cell'[Ahead(read', i - 1)] \in Records
  <2> TAKE i \in 1..len'
  <2>1. i + n \in 1..len /\ i - 1 \in Nat /\ n \in Nat
        /\ n + (i - 1) <= QueueSize /\ n + (i - 1) = (i + n) - 1
    BY <1>1
  <2>2. Ahead(read', i - 1) = Ahead(read, (i + n) - 1)
    BY <1>1, <2>1, AheadAdd
  <2>3. cell[Ahead(read, (i + n) - 1)] \in Records
    BY <2>1 DEF RingOK
  <2> QED BY <2>2, <2>3
<1> QED BY <1>1, <1>2, <1>3, <1>4 DEF RingOK

LEMMA NextRingOK == RingOK /\ [Next]_vars => RingOK'
<1> SUFFICES ASSUME RingOK, [Next]_vars PROVE RingOK'
  OBVIOUS
<1>1. ASSUME NEW r \in Records, Enqueue(r) PROVE RingOK'
  BY <1>1, EnqueueRingOK
<1>2. ASSUME NEW n \in 0..len, TryDequeue(n) PROVE RingOK'
  <2>1. CASE len' = len - n /\ read' = Ahead(read, n)
    BY <1>2, <2>1, ReadOnRingOK DEF TryDequeue
  <2>2. CASE len' = len /\ read' = Restored(n)
    BY <1>2, <2>2 DEF TryDequeue, Restored, RingOK
  <2> QED BY <1>2, <2>1, <2>2 DEF TryDequeue
<1>3. CASE Flush
  <2>1. len \in 0..len /\ len' = len - len
    BY <1>3, SizeAssumption DEF Flush, RingOK
  <2> QED BY <1>3, <2>1, ReadOnRingOK DEF Flush
<1>4. CASE Dropped
  BY <1>4, BoundAssumption DEF Dropped, RingOK
<1>5. CASE UNCHANGED vars
  BY <1>5 DEF vars, RingOK
<1> QED BY <1>1, <1>2, <1>3, <1>4, <1>5 DEF Next

(* The write cell stays len cells ahead of the read cell, and the cells in *)
(* between hold records, for every ring size (queue, batch.go).            *)
THEOREM RingIsConsistent == Spec => []RingOK
<1>1. Init => RingOK
  BY InitRingOK
<1>2. RingOK /\ [Next]_vars => RingOK'
  BY NextRingOK
<1> QED BY <1>1, <1>2, PTL DEF Spec

-----------------------------------------------------------------------------
(* The ring implements the queue. *)

LEMMA OldestSeq ==
  ASSUME RingOK, NEW n \in 0..len
  PROVE  /\ Oldest(n) \in Seq(Records) /\ Len(Oldest(n)) = n
         /\ \A k \in 1..n : Oldest(n)[k] = cell[Ahead(read, k - 1)]
         /\ Oldest(n) = SubSeq(Oldest(len), 1, n)
<1>1. read \in Cells /\ len \in 0..QueueSize /\ n \in 0..QueueSize
      /\ \A k \in 1..len : cell[Ahead(read, k - 1)] \in Records
  BY SizeAssumption DEF RingOK
<1>2. Oldest(n) \in Seq(Records) /\ Len(Oldest(n)) = n
  <2>1. \A k \in 1..n : cell[Ahead(read, k - 1)] \in Records
    BY <1>1
  <2> QED BY <1>1, <2>1, Walk DEF Oldest
<1>3. \A k \in 1..n : Oldest(n)[k] = cell[Ahead(read, k - 1)]
  BY DEF Oldest
<1>4. Oldest(len) \in Seq(Records) /\ Len(Oldest(len)) = len
  BY <1>1, Walk DEF Oldest
<1>5. \A k \in 1..len : Oldest(len)[k] = cell[Ahead(read, k - 1)]
  BY DEF Oldest
<1>6. Oldest(n) = SubSeq(Oldest(len), 1, n)
  <2>1. n \in Nat /\ len \in Nat /\ n <= len
    BY <1>1
  <2>2. /\ SubSeq(Oldest(len), 1, n) \in Seq(Records)
        /\ Len(SubSeq(Oldest(len), 1, n)) = n
        /\ \A k \in 1..n : SubSeq(Oldest(len), 1, n)[k] = Oldest(len)[k]
    BY <1>4, <2>1
  <2>3. \A k \in 1..n : Oldest(n)[k] = SubSeq(Oldest(len), 1, n)[k]
    BY <1>3, <1>5, <2>1, <2>2
  <2> QED BY <1>2, <2>2, <2>3, SeqEqual
<1> QED BY <1>2, <1>3, <1>6

(* The queue after the read cell has moved on by n. *)
LEMMA OldestReadOn ==
  ASSUME RingOK, RingOK', NEW n \in 0..len, read' = Ahead(read, n),
         len' = len - n, cell' = cell
  PROVE  Oldest(len)' = SubSeq(Oldest(len), n + 1, Len(Oldest(len)))
<1> DEFINE q == Oldest(len)  p == Oldest(len)'
<1>1. read \in Cells /\ len \in 0..QueueSize /\ n \in Nat /\ n <= len
      /\ len \in Nat /\ QueueSize \in Nat
  BY SizeAssumption DEF RingOK
<1>2. q \in Seq(Records) /\ Len(q) = len
      /\ \A k \in 1..len : q[k] = cell[Ahead(read, k - 1)]
  <2>1. len \in 0..len
    BY <1>1
  <2> QED BY <2>1, OldestSeq
<1>3. p = [k \in 1..len' |-> cell[Ahead(read', k - 1)]]
  BY DEF Oldest
<1>4. p \in Seq(Records) /\ Len(p) = len - n
  <2>1. len' \in 0..QueueSize /\ read' \in Cells
        /\ \A k \in 1..len' : cell[Ahead(read', k - 1)] \in Records
    BY DEF RingOK
  <2> QED BY <1>3, <2>1, Walk
<1>5. SubSeq(q, n + 1, Len(q)) \in Seq(Records)
      /\ Len(SubSeq(q, n + 1, Len(q))) = len - n
      /\ \A k \in 1..len - n : SubSeq(q, n + 1, Len(q))[k] = q[n + k]
  <2> HIDE DEF q
  <2> QED BY <1>1, <1>2
<1>6. \A k \in 1..len - n : p[k] = q[n + k]
  <2> TAKE k \in 1..len - n
  <2>1. p[k] = cell[Ahead(read', k - 1)]
    BY <1>3
  <2>2. k - 1 \in Nat /\ n + (k - 1) <= QueueSize /\ n + (k - 1) = (n + k) - 1
        /\ n + k \in 1..len
    BY <1>1
  <2>3. Ahead(read', k - 1) = Ahead(read, (n + k) - 1)
    BY <1>1, <2>2, AheadAdd
  <2> QED BY <1>2, <2>1, <2>2, <2>3
<1> HIDE DEF p, q
<1>7. p = SubSeq(q, n + 1, Len(q))
  BY <1>4, <1>5, <1>6, SeqEqual
<1> QED BY <1>7 DEF p, q

LEMMA OldestEnqueued ==
  ASSUME RingOK, RingOK', NEW r \in Records, Enqueue(r)
  PROVE  Oldest(len)' = Queue!Enqueued(Oldest(len), r)
<1> DEFINE q == Oldest(len)  p == Oldest(len)'
<1>1. read \in Cells /\ write \in Cells /\ len \in 0..QueueSize
      /\ len \in Nat /\ QueueSize \in Nat \ {0} /\ write = Ahead(read, len)
  BY SizeAssumption DEF RingOK
<1>2. q \in Seq(Records) /\ Len(q) = len
      /\ \A k \in 1..len : q[k] = cell[Ahead(read, k - 1)]
  <2>1. len \in 0..len
    BY <1>1
  <2> QED BY <2>1, OldestSeq
<1>3. p = [k \in 1..len' |-> cell'[Ahead(read', k - 1)]]
  BY DEF Oldest
<1>4. p \in Seq(Records) /\ Len(p) = len'
  <2>1. len' \in 0..QueueSize /\ read' \in Cells
        /\ \A k \in 1..len' : cell'[Ahead(read', k - 1)] \in Records
    BY DEF RingOK
  <2> QED BY <1>3, <2>1, Walk
<1>5. cell' = [cell EXCEPT ![write] = r] /\ cell \in [Cells -> Records \cup {Zero}]
  BY DEF Enqueue, RingOK
<1>6. CASE len < QueueSize
  <2>1. len' = len + 1 /\ read' = read
    BY <1>6 DEF Enqueue
  <2>2. p[len + 1] = r
    BY <1>1, <1>3, <1>5, <2>1
  <2>3. \A k \in 1..len : p[k] = q[k]
    <3> TAKE k \in 1..len
    <3>1. k - 1 \in 0..QueueSize - 1 /\ len \in 0..QueueSize - 1 /\ k - 1 # len
      BY <1>1, <1>6
    <3>2. Ahead(read, k - 1) # write /\ Ahead(read, k - 1) \in Cells
      BY <1>1, <3>1, AheadInjective, AheadInRing
    <3> QED BY <1>1, <1>2, <1>3, <1>5, <2>1, <3>2
  <2>4. p = Append(q, r)
    <3> HIDE DEF p, q
    <3>1. Append(q, r) \in Seq(Records) /\ Len(Append(q, r)) = len + 1
          /\ \A k \in 1..len + 1 : Append(q, r)[k] = IF k = len + 1 THEN r ELSE q[k]
      BY <1>1, <1>2, AppendProperties
    <3>2. \A k \in 1..len + 1 : p[k] = Append(q, r)[k]
      BY <1>1, <2>2, <2>3, <3>1
    <3> QED BY <1>4, <2>1, <3>1, <3>2, SeqEqual
  <2> QED BY <1>2, <1>6, <2>4 DEF Queue!Enqueued
<1>7. CASE len = QueueSize
  <2>1. len' = len /\ read' = After(read)
    BY <1>7, SizeAssumption DEF Enqueue, NewOldest
  <2>2. write = read
    BY <1>1, <1>7, AheadAround
  <2>3. \A k \in 1..len : Ahead(read', k - 1) = Ahead(read, k)
    <3> TAKE k \in 1..len
    <3>1. k - 1 \in 0..QueueSize - 1 /\ (k - 1) + 1 = k
      BY <1>1
    <3> QED BY <1>1, <2>1, <3>1, AheadNext
  <2>4. p[len] = r
    <3>1. len \in 1..len /\ Ahead(read, len) = write
      BY <1>1, <1>7
    <3> QED BY <1>1, <1>3, <1>5, <2>1, <2>3, <3>1
  <2>5. \A k \in 1..len - 1 : p[k] = q[k + 1]
    <3> TAKE k \in 1..len - 1
    <3>1. k \in 1..len /\ k + 1 \in 1..len /\ (k + 1) - 1 = k
          /\ k \in 0..QueueSize - 1 /\ 0 \in 0..QueueSize - 1 /\ k # 0
      BY <1>1, <1>7
    <3>2. Ahead(read, k) # write /\ Ahead(read, k) \in Cells
      <4>1. Ahead(read, k) # Ahead(read, 0) /\ Ahead(read, 0) = read
        BY <1>1, <3>1, AheadInjective, AheadAround
      <4>2. Ahead(read, k) \in Cells
        BY <1>1, <3>1, AheadInRing
      <4> QED BY <2>2, <4>1, <4>2
    <3>3. p[k] = cell'[Ahead(read, k)]
      BY <1>3, <2>1, <2>3, <3>1
    <3>4. q[k + 1] = cell[Ahead(read, k)]
      BY <1>2, <3>1
    <3> QED BY <1>5, <3>2, <3>3, <3>4
  <2>6. p = Append(Tail(q), r)
    <3> HIDE DEF p, q
    <3>1. q # <<>>
      BY <1>1, <1>2, <1>7
    <3>2. Tail(q) \in Seq(Records) /\ Len(Tail(q)) = len - 1
          /\ \A k \in 1..len - 1 : Tail(q)[k] = q[k + 1]
      BY <1>2, <3>1, HeadTailProperties
    <3>3. Append(Tail(q), r) \in Seq(Records) /\ Len(Append(Tail(q), r)) = len
          /\ \A k \in 1..len : Append(Tail(q), r)[k]
                                = IF k = len THEN r ELSE Tail(q)[k]
      BY <1>1, <1>7, <3>2, AppendProperties
    <3>4. \A k \in 1..len : p[k] = Append(Tail(q), r)[k]
      BY <1>1, <2>4, <2>5, <3>2, <3>3
    <3> QED BY <1>4, <2>1, <3>3, <3>4, SeqEqual
  <2> QED BY <1>2, <1>7, <2>6 DEF Queue!Enqueued
<1> QED BY <1>1, <1>6, <1>7

LEMMA QueueInit == Init => Queue!Init
BY SizeAssumption DEF Init, Queue!Init, Oldest

LEMMA QueueNext ==
  RingOK /\ RingOK' /\ [Next]_vars => [Queue!Next]_(Queue!vars)
<1> SUFFICES ASSUME RingOK, RingOK', [Next]_vars
             PROVE  [Queue!Next]_(Queue!vars)
  OBVIOUS
<1>1. len \in 0..QueueSize /\ len \in Nat /\ len \in 0..len
      /\ QueueSize \in Nat \ {0}
  BY SizeAssumption DEF RingOK
<1>2. Oldest(len) \in Seq(Records) /\ Len(Oldest(len)) = len
  BY <1>1, OldestSeq
<1>3. ASSUME NEW r \in Records, Enqueue(r) PROVE Queue!Next
  <2>1. Oldest(len)' = Queue!Enqueued(Oldest(len), r)
    BY <1>3, OldestEnqueued
  <2>2. Queue!Enqueue(r)
    BY <1>1, <1>2, <1>3, <2>1 DEF Enqueue, Queue!Enqueue
  <2> QED BY <2>2 DEF Queue!Next
<1>4. ASSUME NEW n \in 0..len, TryDequeue(n) PROVE Queue!Next
  <2>1. out' = SubSeq(Oldest(len), 1, n)
    BY <1>4, OldestSeq DEF TryDequeue
  <2>2. CASE len' = len - n /\ read' = Ahead(read, n)
    <3>1. Oldest(len)' = SubSeq(Oldest(len), n + 1, Len(Oldest(len)))
      BY <1>4, <2>2, OldestReadOn DEF TryDequeue
    <3>2. Queue!TryDequeue(n)
      BY <1>4, <2>1, <3>1 DEF TryDequeue, Queue!TryDequeue, Queue!Front
    <3> QED BY <1>2, <1>4, <3>2 DEF Queue!Next
  <2>3. CASE len' = len /\ read' = Restored(n)
    <3>1. Oldest(len)' = Oldest(len)
      BY <1>4, <2>3 DEF TryDequeue, Restored, Oldest
    <3>2. Queue!TryDequeue(n)
      BY <1>4, <2>1, <3>1 DEF TryDequeue, Queue!TryDequeue, Queue!Front
    <3> QED BY <1>2, <1>4, <3>2 DEF Queue!Next
  <2> QED BY <1>4, <2>2, <2>3 DEF TryDequeue
<1>5. CASE Flush
  <2>1. Oldest(len)' = <<>>
    BY <1>5 DEF Flush, Oldest
  <2> QED BY <1>5, <2>1 DEF Flush, Queue!Flush, Queue!Next
<1>6. CASE Dropped
  <2>1. Oldest(len)' = Oldest(len)
    BY <1>6 DEF Dropped, Oldest
  <2> QED BY <1>6, <2>1 DEF Dropped, Queue!Dropped, Queue!Next
<1>7. CASE UNCHANGED vars
  BY <1>7 DEF vars, Queue!vars, Oldest
<1> QED BY <1>3, <1>4, <1>5, <1>6, <1>7 DEF Next

(* The ring behaves as the queue that keeps the newest QueueSize records   *)
(* (queue, batch.go), for every ring size.                                 *)
THEOREM QueueRefinement == Spec => ImplementsQueue
<1>1. Init => Queue!Init
  BY QueueInit
<1>2. RingOK /\ RingOK' /\ [Next]_vars => [Queue!Next]_(Queue!vars)
  BY QueueNext
<1> QED BY <1>1, <1>2, RingIsConsistent, PTL DEF Spec, ImplementsQueue, Queue!Spec

-----------------------------------------------------------------------------
(* Sequences of attributes. *)

Attribute == [key : STRING, val : Values]

Entries == Seq(Attribute)

KeysIn(s) == {s[i].key : i \in DOMAIN s}

Distinct(s) == \A i, j \in DOMAIN s : s[i].key = s[j].key => i = j

(* The keys of the first n attributes, and what is the last attribute with *)
(* its key among them.                                                     *)
KeysTo(s, n) == {s[i].key : i \in 1..n}

IsLatest(s, n, a) == \E i \in 1..n : s[i] = a /\ \A j \in (i + 1)..n : s[j].key # a.key

(* The facts that most steps need of a sequence of attributes.             *)
LEMMA EntryTypes ==
  ASSUME NEW s \in Entries
  PROVE  /\ Len(s) \in Nat /\ DOMAIN s = 1..Len(s) /\ s \in Seq(Attribute)
         /\ \A i \in 1..Len(s) : s[i] \in Attribute /\ s[i].key \in KeysIn(s)
         /\ KeysIn(s) = KeysTo(s, Len(s))
BY DEF Entries, KeysIn, KeysTo

(* The first place of a key, which the loops find with an index.           *)
LEMMA PlaceProperties ==
  ASSUME NEW s \in Entries, NEW k
  PROVE  /\ Place(s, k) \in 0..Len(s)
         /\ Place(s, k) # 0 <=> k \in KeysIn(s)
         /\ Place(s, k) # 0 => s[Place(s, k)].key = k
<1> DEFINE I == {i \in 1..Len(s) : s[i].key = k}
<1>1. Place(s, k) = IF I # {} THEN Min(I) ELSE 0
  BY DEF Place, SelectInSeq
<1>2. Len(s) \in Nat /\ DOMAIN s = 1..Len(s) /\ I \in SUBSET (1..Len(s))
  BY DEF Entries
<1>3. I # {} => Min(I) \in I
  <2> HIDE DEF I
  <2> QED BY <1>2, MinOfPositions
<1> QED BY <1>1, <1>2, <1>3 DEF KeysIn

(* One attribute more.                                                     *)
LEMMA KeysGrow ==
  ASSUME NEW s \in Entries, NEW n \in 1..Len(s)
  PROVE  /\ KeysTo(s, n) = KeysTo(s, n - 1) \cup {s[n].key}
         /\ IsLatest(s, n, s[n])
         /\ \A a : IsLatest(s, n - 1, a) /\ a.key # s[n].key => IsLatest(s, n, a)
<1>1. n \in Nat /\ n \in 1..n /\ 1..n = (1..(n - 1)) \cup {n}
  BY EntryTypes
<1>2. KeysTo(s, n) = KeysTo(s, n - 1) \cup {s[n].key}
  BY <1>1 DEF KeysTo
<1>3. IsLatest(s, n, s[n])
  <2>1. (n + 1)..n = {}
    BY <1>1
  <2> QED BY <1>1, <2>1 DEF IsLatest
<1>4. ASSUME NEW a, IsLatest(s, n - 1, a), a.key # s[n].key PROVE IsLatest(s, n, a)
  <2>1. PICK i \in 1..(n - 1) : s[i] = a /\ \A j \in (i + 1)..(n - 1) : s[j].key # a.key
    BY <1>4 DEF IsLatest
  <2>2. \A j \in (i + 1)..n : j \in (i + 1)..(n - 1) \/ j = n
    BY <1>1
  <2> QED BY <1>1, <1>4, <2>1, <2>2 DEF IsLatest
<1> QED BY <1>2, <1>3, <1>4

(* The latest attribute with a key is at its last place.                   *)
LEMMA LatestIsLast ==
  ASSUME NEW s \in Entries, NEW a, IsLatest(s, Len(s), a)
  PROVE  LET I == {i \in 1..Len(s) : s[i].key = a.key}
         IN I # {} /\ a = s[Max(I)] /\ a.key \in KeysIn(s)
<1> DEFINE I == {i \in 1..Len(s) : s[i].key = a.key}
<1>1. PICK i \in 1..Len(s) : s[i] = a /\ \A j \in (i + 1)..Len(s) : s[j].key # a.key
  BY DEF IsLatest
<1>2. Len(s) \in Nat /\ I \in SUBSET (1..Len(s)) /\ i \in I /\ s[i].key \in KeysIn(s)
  BY <1>1, EntryTypes
<1>3. Max(I) \in I /\ \A j \in I : j <= Max(I)
  <2> HIDE DEF I
  <2> QED BY <1>2, MaxOfPositions
<1>4. i <= Max(I) /\ Max(I) \in 1..Len(s) /\ s[Max(I)].key = a.key
  BY <1>2, <1>3
<1> HIDE DEF I
<1>5. ~(Max(I) \in (i + 1)..Len(s))
  BY <1>1, <1>4
<1>6. Max(I) = i
  BY <1>2, <1>4, <1>5
<1> QED BY <1>1, <1>2, <1>6 DEF I

-----------------------------------------------------------------------------
(* One round of the loops of dedup and AddAttributes. *)

(* w is u with a in the place of the attribute that has its key.           *)
Puts(u, a, w) ==
  /\ w \in Entries /\ Len(w) = Len(u)
  /\ \A i \in 1..Len(u) : w[i].key = u[i].key /\ w[i] = IF u[i].key = a.key THEN a ELSE u[i]

(* The keys stay when a value is put in place.                             *)
LEMMA PutsKeys ==
  ASSUME NEW u \in Entries, NEW a, NEW w, Puts(u, a, w)
  PROVE  w \in Entries /\ KeysIn(w) = KeysIn(u) /\ (Distinct(u) => Distinct(w))
<1>1. DOMAIN u = 1..Len(u) /\ DOMAIN w = 1..Len(u)
  BY EntryTypes DEF Puts
<1> QED BY <1>1 DEF Puts, KeysIn, Distinct

LEMMA NothingPut ==
  ASSUME NEW u \in Entries, NEW a, a.key \notin KeysIn(u)
  PROVE  Puts(u, a, u)
<1>1. \A i \in 1..Len(u) : u[i].key # a.key
  BY EntryTypes
<1> QED BY <1>1 DEF Puts

LEMMA ReplacedPuts ==
  ASSUME NEW u \in Entries, Distinct(u), NEW a \in Attribute, a.key \in KeysIn(u)
  PROVE  Puts(u, a, [u EXCEPT ![Place(u, a.key)] = a])
<1> DEFINE n == Place(u, a.key)
<1>1. n \in 1..Len(u) /\ u[n].key = a.key /\ DOMAIN u = 1..Len(u)
  BY PlaceProperties, EntryTypes
<1> HIDE DEF n
<1> DEFINE w == [u EXCEPT ![n] = a]
<1>2. w \in Entries /\ Len(w) = Len(u) /\ \A i \in 1..Len(u) : w[i] = IF i = n THEN a ELSE u[i]
  BY <1>1 DEF Entries
<1>3. \A i \in 1..Len(u) : u[i].key = a.key <=> i = n
  BY <1>1 DEF Distinct
<1> HIDE DEF w
<1>4. Puts(u, a, w)
  BY <1>1, <1>2, <1>3 DEF Puts
<1> QED BY <1>4 DEF w, n

(* What the loops go on with: three parts without a key twice.             *)
Merging ==
  {m \in [front : Entries, back : Entries, unique : Entries, dropped : Nat] :
     /\ Distinct(m.front) /\ Distinct(m.back) /\ Distinct(m.unique)
     /\ KeysIn(m.front) \cap KeysIn(m.back) = {}
     /\ KeysIn(m.unique) \cap (KeysIn(m.front) \cup KeysIn(m.back)) = {}}

KeysOfParts(m) == KeysIn(m.front) \cup KeysIn(m.back) \cup KeysIn(m.unique)

LEMMA AppendedKey ==
  ASSUME NEW u \in Entries, Distinct(u), NEW a \in Attribute, a.key \notin KeysIn(u)
  PROVE  /\ Append(u, a) \in Entries /\ Distinct(Append(u, a))
         /\ KeysIn(Append(u, a)) = KeysIn(u) \cup {a.key}
<1> DEFINE w == Append(u, a)
<1>1. /\ w \in Entries /\ DOMAIN w = 1..(Len(u) + 1) /\ w[Len(u) + 1] = a
      /\ \A i \in 1..Len(u) : w[i] = u[i]
      /\ Len(u) \in Nat /\ DOMAIN u = 1..Len(u)
  BY DEF Entries
<1> HIDE DEF w
<1>2. \A i \in 1..(Len(u) + 1) : i \in 1..Len(u) \/ i = Len(u) + 1
  BY <1>1
<1>3. \A i \in 1..Len(u) : i \in 1..(Len(u) + 1) /\ w[i].key = u[i].key /\ u[i].key # a.key
  BY <1>1 DEF KeysIn
<1>4. Len(u) + 1 \in 1..(Len(u) + 1)
  BY <1>1
<1>5. KeysIn(w) = KeysIn(u) \cup {a.key}
  <2>1. KeysIn(w) \subseteq KeysIn(u) \cup {a.key}
    BY <1>1, <1>2 DEF KeysIn
  <2>2. KeysIn(u) \subseteq KeysIn(w)
    BY <1>1, <1>3 DEF KeysIn
  <2>3. a.key \in KeysIn(w)
    BY <1>1, <1>4 DEF KeysIn
  <2> QED BY <2>1, <2>2, <2>3
<1>6. Distinct(w)
  BY <1>1, <1>2, <1>3 DEF Distinct
<1> QED BY <1>1, <1>5, <1>6 DEF w

(* One round: a known key gets the value, a new one is collected.          *)
LEMMA MergeProperties ==
  ASSUME NEW m \in Merging, NEW a \in Attribute
  PROVE  LET w == Merge(m, a)
         IN /\ w \in Merging
            /\ Puts(m.front, a, w.front) /\ Puts(m.back, a, w.back)
            /\ a.key \in KeysOfParts(m) =>
                 Puts(m.unique, a, w.unique) /\ w.dropped = m.dropped + 1
            /\ a.key \notin KeysOfParts(m) =>
                 w.unique = Append(m.unique, a) /\ w.dropped = m.dropped
<1> DEFINE w == Merge(m, a)
           k == a.key
           F == m.front
           B == m.back
           U == m.unique
           d == m.dropped
<1>1. /\ F \in Entries /\ B \in Entries /\ U \in Entries /\ d \in Nat
      /\ m = [front |-> F, back |-> B, unique |-> U, dropped |-> d]
      /\ Distinct(F) /\ Distinct(B) /\ Distinct(U)
      /\ KeysIn(F) \cap KeysIn(B) = {}
      /\ KeysIn(U) \cap (KeysIn(F) \cup KeysIn(B)) = {}
  BY DEF Merging
<1>2. /\ Place(F, k) # 0 <=> k \in KeysIn(F)
      /\ Place(B, k) # 0 <=> k \in KeysIn(B)
      /\ Place(U, k) # 0 <=> k \in KeysIn(U)
  BY <1>1, PlaceProperties
<1> DEFINE In(f, b, u, e) == [front |-> f, back |-> b, unique |-> u, dropped |-> e]
           Put(s) == [s EXCEPT ![Place(s, k)] = a]
<1>3. k \in KeysIn(U) => w = In(F, B, Put(U), d + 1)
  BY <1>1, <1>2 DEF Merge
<1>4. k \in KeysIn(F) => w = In(Put(F), B, U, d + 1)
  BY <1>1, <1>2 DEF Merge
<1>5. k \in KeysIn(B) => w = In(F, Put(B), U, d + 1)
  BY <1>1, <1>2 DEF Merge
<1>6. k \notin KeysOfParts(m) => w = In(F, B, Append(U, a), d)
  BY <1>1, <1>2 DEF Merge, KeysOfParts
<1>7. /\ k \in KeysIn(F) => Puts(F, a, Put(F))
      /\ k \in KeysIn(B) => Puts(B, a, Put(B))
      /\ k \in KeysIn(U) => Puts(U, a, Put(U))
      /\ k \notin KeysIn(F) => Puts(F, a, F)
      /\ k \notin KeysIn(B) => Puts(B, a, B)
      /\ k \notin KeysIn(U) => Puts(U, a, U)
  BY <1>1, ReplacedPuts, NothingPut
<1> HIDE DEF w, Put, F, B, U, d
<1>8. /\ Puts(F, a, w.front) /\ Puts(B, a, w.back)
      /\ a.key \in KeysOfParts(m) => Puts(U, a, w.unique) /\ w.dropped = d + 1
      /\ a.key \notin KeysOfParts(m) => w.unique = Append(U, a) /\ w.dropped = d
      /\ w = In(w.front, w.back, w.unique, w.dropped)
  <2>1. KeysOfParts(m) = KeysIn(F) \cup KeysIn(B) \cup KeysIn(U)
    BY DEF KeysOfParts, F, B, U
  <2>2. CASE k \in KeysIn(U)
    BY <1>1, <1>3, <1>7, <2>1, <2>2
  <2>3. CASE k \in KeysIn(F)
    BY <1>1, <1>4, <1>7, <2>1, <2>3
  <2>4. CASE k \in KeysIn(B)
    BY <1>1, <1>5, <1>7, <2>1, <2>4
  <2>5. CASE k \notin KeysOfParts(m)
    BY <1>1, <1>6, <1>7, <2>1, <2>5
  <2> QED BY <2>1, <2>2, <2>3, <2>4, <2>5
<1>9. w \in Merging
  <2>1. /\ w.front \in Entries /\ KeysIn(w.front) = KeysIn(F) /\ Distinct(w.front)
        /\ w.back \in Entries /\ KeysIn(w.back) = KeysIn(B) /\ Distinct(w.back)
    BY <1>1, <1>8, PutsKeys
  <2>2. KeysOfParts(m) = KeysIn(F) \cup KeysIn(B) \cup KeysIn(U)
    BY DEF KeysOfParts, F, B, U
  <2>3. CASE k \in KeysOfParts(m)
    <3>1. w.unique \in Entries /\ KeysIn(w.unique) = KeysIn(U) /\ Distinct(w.unique) /\ w.dropped \in Nat
      BY <1>1, <1>8, <2>3, PutsKeys
    <3> QED BY <1>1, <1>8, <2>1, <3>1 DEF Merging
  <2>4. CASE k \notin KeysOfParts(m)
    <3>1. w.unique \in Entries /\ KeysIn(w.unique) = KeysIn(U) \cup {k} /\ Distinct(w.unique) /\ w.dropped \in Nat
      <4>1. k \notin KeysIn(U) /\ w.unique = Append(U, a) /\ w.dropped = d
        BY <1>8, <2>2, <2>4
      <4>2. U \in Entries /\ Distinct(U) /\ a.key \notin KeysIn(U) /\ d \in Nat
        BY <1>1, <4>1
      <4>3. /\ Append(U, a) \in Entries /\ Distinct(Append(U, a))
            /\ KeysIn(Append(U, a)) = KeysIn(U) \cup {a.key}
        BY <4>2, AppendedKey
      <4> QED BY <4>1, <4>2, <4>3
    <3> QED BY <1>1, <1>8, <2>1, <2>2, <2>4, <3>1 DEF Merging
  <2> QED BY <2>3, <2>4
<1> QED BY <1>8, <1>9 DEF w, F, B, U, d

-----------------------------------------------------------------------------
(* The loops as a whole. *)

(* new is old with the last of the first n attributes of s that has the    *)
(* key of one, in its place.                                               *)
Kept(old, new, s, n) ==
  /\ new \in Entries /\ Len(new) = Len(old)
  /\ \A i \in 1..Len(old) :
       /\ new[i].key = old[i].key
       /\ old[i].key \in KeysTo(s, n) => IsLatest(s, n, new[i])
       /\ old[i].key \notin KeysTo(s, n) => new[i] = old[i]

(* u has the last attribute of each key among the first n of s that is not *)
(* in D, in the order in which these keys came first.                      *)
Collected(u, D, s, n) ==
  /\ u \in Entries /\ Distinct(u)
  /\ KeysIn(u) = KeysTo(s, n) \ D
  /\ \A i \in 1..Len(u) : IsLatest(s, n, u[i])
  /\ \A j \in 1..Len(u) : \E i \in 1..n :
       s[i].key = u[j].key /\ KeysTo(s, i - 1) \ D = KeysTo(u, j - 1)

LEMMA KeptAtFirst ==
  ASSUME NEW old \in Entries, NEW s
  PROVE  Kept(old, old, s, 0)
<1>1. KeysTo(s, 0) = {}
  BY DEF KeysTo
<1> QED BY <1>1 DEF Kept

(* One attribute more: what is kept and what is collected.                 *)
LEMMA KeptNext ==
  ASSUME NEW old \in Entries, NEW new, NEW s \in Entries, NEW n \in 1..Len(s),
         Kept(old, new, s, n - 1), NEW w, Puts(new, s[n], w)
  PROVE  Kept(old, w, s, n)
<1>1. /\ KeysTo(s, n) = KeysTo(s, n - 1) \cup {s[n].key}
      /\ IsLatest(s, n, s[n])
      /\ \A a : IsLatest(s, n - 1, a) /\ a.key # s[n].key => IsLatest(s, n, a)
  BY KeysGrow
<1> SUFFICES ASSUME NEW i \in 1..Len(old)
             PROVE  /\ w[i].key = old[i].key
                    /\ old[i].key \in KeysTo(s, n) => IsLatest(s, n, w[i])
                    /\ old[i].key \notin KeysTo(s, n) => w[i] = old[i]
  BY DEF Kept, Puts
<1>2. /\ new[i].key = old[i].key
      /\ old[i].key \in KeysTo(s, n - 1) => IsLatest(s, n - 1, new[i])
      /\ old[i].key \notin KeysTo(s, n - 1) => new[i] = old[i]
      /\ w[i].key = new[i].key /\ w[i] = IF new[i].key = s[n].key THEN s[n] ELSE new[i]
  BY DEF Kept, Puts
<1> QED BY <1>1, <1>2

LEMMA CollectedAtFirst ==
  ASSUME NEW s, NEW D
  PROVE  Collected(<<>>, D, s, 0)
<1>1. KeysTo(s, 0) = {} /\ KeysIn(<<>>) = {}
  BY DEF KeysTo, KeysIn
<1>2. <<>> \in Entries /\ Len(<<>>) = 0 /\ Distinct(<<>>)
  BY DEF Entries, Distinct
<1> QED BY <1>1, <1>2 DEF Collected

LEMMA PutsKeysTo ==
  ASSUME NEW u \in Entries, NEW a, NEW w, Puts(u, a, w), NEW n \in 0..Len(u)
  PROVE  KeysTo(w, n) = KeysTo(u, n)
<1>1. Len(u) \in Nat
  BY EntryTypes
<1>2. \A i \in 1..n : w[i].key = u[i].key
  BY <1>1 DEF Puts
<1> QED BY <1>2 DEF KeysTo

LEMMA CollectedAgain ==
  ASSUME NEW u, NEW D, NEW s \in Entries, NEW n \in 1..Len(s), Collected(u, D, s, n - 1),
         s[n].key \in D \cup KeysIn(u), NEW w, Puts(u, s[n], w)
  PROVE  Collected(w, D, s, n)
<1>1. /\ KeysTo(s, n) = KeysTo(s, n - 1) \cup {s[n].key}
      /\ IsLatest(s, n, s[n])
      /\ \A a : IsLatest(s, n - 1, a) /\ a.key # s[n].key => IsLatest(s, n, a)
  BY KeysGrow
<1>2. /\ u \in Entries /\ Distinct(u) /\ KeysIn(u) = KeysTo(s, n - 1) \ D
      /\ \A i \in 1..Len(u) : IsLatest(s, n - 1, u[i])
      /\ \A j \in 1..Len(u) : \E i \in 1..(n - 1) :
           s[i].key = u[j].key /\ KeysTo(s, i - 1) \ D = KeysTo(u, j - 1)
  BY DEF Collected
<1>3. w \in Entries /\ KeysIn(w) = KeysIn(u) /\ Distinct(w) /\ Len(w) = Len(u) /\ Len(u) \in Nat
  <2>1. w \in Entries /\ KeysIn(w) = KeysIn(u) /\ Distinct(w)
    BY <1>2, PutsKeys
  <2>2. Len(w) = Len(u)
    BY DEF Puts
  <2> QED BY <1>2, <2>1, <2>2, EntryTypes
<1>4. KeysIn(w) = KeysTo(s, n) \ D
  BY <1>1, <1>2, <1>3
<1>5. ASSUME NEW i \in 1..Len(w) PROVE IsLatest(s, n, w[i])
  <2>1. IsLatest(s, n - 1, u[i])
    BY <1>2, <1>3
  <2>2. w[i] = IF u[i].key = s[n].key THEN s[n] ELSE u[i]
    BY <1>3 DEF Puts
  <2> QED BY <1>1, <2>1, <2>2
<1>6. ASSUME NEW j \in 1..Len(w)
      PROVE  \E i \in 1..n : s[i].key = w[j].key /\ KeysTo(s, i - 1) \ D = KeysTo(w, j - 1)
  <2>1. PICK i \in 1..(n - 1) : s[i].key = u[j].key /\ KeysTo(s, i - 1) \ D = KeysTo(u, j - 1)
    BY <1>2, <1>3
  <2>2. w[j].key = u[j].key
    BY <1>3 DEF Puts
  <2>3. KeysTo(w, j - 1) = KeysTo(u, j - 1)
    <3>1. j - 1 \in 0..Len(u)
      BY <1>3
    <3> QED BY <1>2, <3>1, PutsKeysTo
  <2>4. i \in 1..n
    BY EntryTypes
  <2> QED BY <2>1, <2>2, <2>3, <2>4
<1> QED BY <1>3, <1>4, <1>5, <1>6 DEF Collected

LEMMA CollectedNew ==
  ASSUME NEW u, NEW D, NEW s \in Entries, NEW n \in 1..Len(s), Collected(u, D, s, n - 1),
         s[n].key \notin D \cup KeysIn(u)
  PROVE  Collected(Append(u, s[n]), D, s, n)
<1> DEFINE a == s[n]
           w == Append(u, a)
<1>1. /\ KeysTo(s, n) = KeysTo(s, n - 1) \cup {a.key}
      /\ IsLatest(s, n, a)
      /\ \A b : IsLatest(s, n - 1, b) /\ b.key # a.key => IsLatest(s, n, b)
      /\ a \in Attribute /\ n \in Nat /\ n \in 1..n
  BY KeysGrow, EntryTypes
<1>2. /\ u \in Entries /\ Distinct(u) /\ KeysIn(u) = KeysTo(s, n - 1) \ D
      /\ \A i \in 1..Len(u) : IsLatest(s, n - 1, u[i])
      /\ \A j \in 1..Len(u) : \E i \in 1..(n - 1) :
           s[i].key = u[j].key /\ KeysTo(s, i - 1) \ D = KeysTo(u, j - 1)
  BY DEF Collected
<1>3. w \in Entries /\ KeysIn(w) = KeysIn(u) \cup {a.key} /\ Distinct(w)
  BY <1>1, <1>2, AppendedKey
<1>4. /\ Len(u) \in Nat /\ Len(w) = Len(u) + 1 /\ w[Len(u) + 1] = a
      /\ \A i \in 1..Len(u) : w[i] = u[i] /\ u[i].key \in KeysIn(u)
      /\ KeysIn(u) = KeysTo(u, Len(u))
  <2>1. Len(u) \in Nat /\ Len(w) = Len(u) + 1 /\ w[Len(u) + 1] = a /\ \A i \in 1..Len(u) : w[i] = u[i]
    BY <1>1, <1>2 DEF Entries
  <2> QED BY <1>2, <2>1, EntryTypes
<1> HIDE DEF w, a
<1>5. KeysIn(w) = KeysTo(s, n) \ D
  BY <1>1, <1>2, <1>3 DEF a
<1>6. \A j \in 0..Len(u) : KeysTo(w, j) = KeysTo(u, j)
  <2>1. ASSUME NEW j \in 0..Len(u) PROVE KeysTo(w, j) = KeysTo(u, j)
    <3>1. \A i \in 1..j : w[i].key = u[i].key
      BY <1>4
    <3> QED BY <3>1 DEF KeysTo
  <2> QED BY <2>1
<1>7. ASSUME NEW j \in 1..Len(w)
      PROVE  /\ IsLatest(s, n, w[j])
             /\ \E i \in 1..n : s[i].key = w[j].key /\ KeysTo(s, i - 1) \ D = KeysTo(w, j - 1)
  <2>1. CASE j = Len(u) + 1
    <3>1. KeysTo(w, j - 1) = KeysIn(u)
      BY <1>4, <1>6, <2>1
    <3> QED BY <1>1, <1>2, <1>4, <2>1, <3>1 DEF a
  <2>2. CASE j # Len(u) + 1
    <3>1. j \in 1..Len(u) /\ j - 1 \in 0..Len(u) /\ w[j] = u[j]
      BY <1>4, <2>2
    <3>2. PICK i \in 1..(n - 1) : s[i].key = u[j].key /\ KeysTo(s, i - 1) \ D = KeysTo(u, j - 1)
      BY <1>2, <3>1
    <3>3. u[j].key # a.key
      BY <1>4, <3>1 DEF a
    <3>4. IsLatest(s, n, u[j])
      BY <1>1, <1>2, <3>1, <3>3
    <3>5. i \in 1..n
      BY <1>1
    <3> QED BY <1>6, <3>1, <3>2, <3>4, <3>5
  <2> QED BY <2>1, <2>2
<1>8. Collected(w, D, s, n)
  BY <1>3, <1>5, <1>7 DEF Collected
<1> QED BY <1>8 DEF w, a

(* The rounds of either loop. *)
MergeStep == [p \in Merging \X Attribute |-> Merge(p[1], p[2])]

LEMMA MergeRounds ==
  ASSUME NEW s \in Entries, NEW base \in Merging
  PROVE  \E g : Rounds(Merging, base, MergeStep, s, FoldLeft(Merge, base, s), g)
<1> DEFINE Obeys(it) == it = [t \in SUBSET DOMAIN s |->
             IF t = {} THEN base ELSE Merge(it[t \ {Max(t)}], s[Max(t)])]
           it == CHOOSE f : Obeys(f)
<1>1. /\ Len(s) \in Nat /\ s \in Seq(Attribute)
      /\ \A t \in SUBSET DOMAIN s : t # {} => s[Max(t)] \in Attribute
  <2>1. Len(s) \in Nat /\ DOMAIN s = 1..Len(s) /\ s \in Seq(Attribute)
        /\ \A i \in 1..Len(s) : s[i] \in Attribute
    BY EntryTypes
  <2> HIDE DEF it, Obeys
  <2> QED BY <2>1, MaxOfPositions
<1>2. MergeStep \in [Merging \X Attribute -> Merging]
  BY MergeProperties DEF MergeStep
<1>3. \A u \in Merging, a \in Attribute : MergeStep[<<u, a>>] = Merge(u, a)
  BY DEF MergeStep
<1>4. FoldLeft(Merge, base, s) = it[DOMAIN s]
  BY DEF FoldLeft, MapThenFoldSet
<1> HIDE DEF it
<1>5. \E f : Obeys(f)
  <2> HIDE DEF Obeys
  <2>1. PICK f : Folds(Merging, base, MergeStep, s, f)
    BY <1>1, <1>2, FoldExists
  <2>2. ASSUME NEW t \in SUBSET DOMAIN s, t # {}
        PROVE  f[t] = Merge(f[t \ {Max(t)}], s[Max(t)])
    <3>1. f[t \ {Max(t)}] \in Merging
      BY <2>1 DEF Folds
    <3> QED BY <1>1, <1>3, <2>1, <2>2, <3>1 DEF Folds
  <2>3. Obeys(f)
    BY <2>1, <2>2 DEF Folds, Obeys
  <2> QED BY <2>3
<1>6. Obeys(it)
  <2> HIDE DEF Obeys
  <2> QED BY <1>5 DEF it
<1>7. it[{}] = base
  BY <1>6
<1>8. ASSUME NEW t \in SUBSET DOMAIN s, t # {}, it[t \ {Max(t)}] \in Merging
      PROVE  it[t] = MergeStep[<<it[t \ {Max(t)}], s[Max(t)]>>]
  BY <1>1, <1>3, <1>6, <1>8
<1> HIDE DEF Obeys
<1>9. \E g : Rounds(Merging, base, MergeStep, s, it[DOMAIN s], g)
  BY <1>1, <1>2, <1>7, <1>8, FoldRounds
<1> QED BY <1>4, <1>9

IsMerged(m, front, back, d, s) ==
  LET D == KeysIn(front) \cup KeysIn(back)
  IN /\ Kept(front, m.front, s, Len(s)) /\ Kept(back, m.back, s, Len(s))
     /\ Collected(m.unique, D, s, Len(s))
     /\ m \in Merging /\ m.dropped = d + Len(s) - Len(m.unique)
     /\ KeysIn(m.front) = KeysIn(front) /\ KeysIn(m.back) = KeysIn(back)

(* What the loops make of attributes s and the front and back there are.   *)
LEMMA MergedProperties ==
  ASSUME NEW front \in Entries, NEW back \in Entries, Distinct(front), Distinct(back),
         KeysIn(front) \cap KeysIn(back) = {}, NEW d \in Nat, NEW s \in Entries
  PROVE  IsMerged(Merged(front, back, d, s), front, back, d, s)
<1> DEFINE base == [front |-> front, back |-> back, unique |-> <<>>, dropped |-> d]
           D == KeysIn(front) \cup KeysIn(back)
<1>1. base \in Merging
  <2>1. <<>> \in Entries /\ Distinct(<<>>) /\ KeysIn(<<>>) = {}
    BY DEF Entries, Distinct, KeysIn
  <2> QED BY <2>1 DEF Merging
<1>2. Merged(front, back, d, s) = FoldLeft(Merge, base, s)
  BY DEF Merged
<1> DEFINE Invariant(m, n) ==
             /\ m \in Merging
             /\ Kept(front, m.front, s, n) /\ Kept(back, m.back, s, n)
             /\ Collected(m.unique, D, s, n) /\ m.dropped = d + n - Len(m.unique)
             /\ KeysIn(m.front) = KeysIn(front) /\ KeysIn(m.back) = KeysIn(back)
<1>3. Invariant(base, 0)
  <2>1. Kept(front, front, s, 0) /\ Kept(back, back, s, 0) /\ Collected(<<>>, D, s, 0)
    BY KeptAtFirst, CollectedAtFirst
  <2>2. Len(<<>>) = 0
    OBVIOUS
  <2> QED BY <1>1, <2>1, <2>2
<1>4. ASSUME NEW n \in 1..Len(s), NEW m, Invariant(m, n - 1)
      PROVE  Invariant(Merge(m, s[n]), n)
  <2> DEFINE w == Merge(m, s[n])
  <2>1. /\ m \in Merging /\ s[n] \in Attribute /\ n \in Nat
        /\ m.front \in Entries /\ m.back \in Entries /\ m.unique \in Entries
    BY <1>4, EntryTypes DEF Merging
  <2>2. /\ w \in Merging
        /\ Puts(m.front, s[n], w.front) /\ Puts(m.back, s[n], w.back)
        /\ s[n].key \in KeysOfParts(m) =>
             Puts(m.unique, s[n], w.unique) /\ w.dropped = m.dropped + 1
        /\ s[n].key \notin KeysOfParts(m) =>
             w.unique = Append(m.unique, s[n]) /\ w.dropped = m.dropped
    BY <2>1, MergeProperties
  <2> HIDE DEF w
  <2>3. Kept(front, w.front, s, n) /\ Kept(back, w.back, s, n)
    BY <1>4, <2>2, KeptNext
  <2>4. KeysIn(w.front) = KeysIn(front) /\ KeysIn(w.back) = KeysIn(back)
    BY <1>4, <2>1, <2>2, PutsKeys
  <2>5. KeysOfParts(m) = D \cup KeysIn(m.unique)
    BY <1>4 DEF KeysOfParts
  <2>6. Len(m.unique) \in Nat /\ Collected(m.unique, D, s, n - 1) /\ m.dropped = d + (n - 1) - Len(m.unique)
    BY <1>4, <2>1, EntryTypes
  <2> HIDE DEF D
  <2>7. Collected(w.unique, D, s, n) /\ w.dropped = d + n - Len(w.unique)
    <3>1. CASE s[n].key \in KeysOfParts(m)
      <4>1. Puts(m.unique, s[n], w.unique) /\ w.dropped = m.dropped + 1
        BY <2>2, <3>1
      <4>2. Len(w.unique) = Len(m.unique)
        BY <4>1 DEF Puts
      <4>3. Collected(w.unique, D, s, n)
        BY <2>5, <2>6, <3>1, <4>1, CollectedAgain
      <4>4. w.dropped = d + n - Len(w.unique)
        BY <2>1, <2>6, <4>1, <4>2
      <4> QED BY <4>3, <4>4
    <3>2. CASE s[n].key \notin KeysOfParts(m)
      <4>1. w.unique = Append(m.unique, s[n]) /\ w.dropped = m.dropped
        BY <2>2, <3>2
      <4>2. Len(w.unique) = Len(m.unique) + 1
        BY <2>1, <4>1 DEF Entries
      <4>3. Collected(w.unique, D, s, n)
        BY <2>5, <2>6, <3>2, <4>1, CollectedNew
      <4>4. w.dropped = d + n - Len(w.unique)
        BY <2>1, <2>6, <4>1, <4>2
      <4> QED BY <4>3, <4>4
    <3> QED BY <3>1, <3>2
  <2>8. Invariant(w, n)
    BY <2>2, <2>3, <2>4, <2>7
  <2> QED BY <2>8 DEF w
<1> HIDE DEF base, D
<1>5. PICK g : Rounds(Merging, base, MergeStep, s, FoldLeft(Merge, base, s), g)
  BY <1>1, MergeRounds
<1> DEFINE Good == {n \in 0..Len(s) : Invariant(g[n], n)}
<1>6. Len(s) \in Nat /\ \A i \in 1..Len(s) : s[i] \in Attribute
  BY EntryTypes
<1>7. 0 \in Good
  BY <1>3, <1>5, <1>6 DEF Rounds
<1>8. ASSUME NEW n \in 1..Len(s), n - 1 \in Good PROVE n \in Good
  <2>1. Invariant(g[n - 1], n - 1) /\ g[n - 1] \in Merging
    BY <1>8
  <2>2. g[n] = Merge(g[n - 1], s[n])
    BY <1>5, <1>6, <2>1 DEF Rounds, MergeStep
  <2> HIDE DEF Invariant
  <2>3. Invariant(g[n], n)
    BY <1>4, <2>1, <2>2
  <2>4. n \in 0..Len(s)
    OBVIOUS
  <2> QED BY <2>3, <2>4
<1>9. Len(s) \in Good
  <2>1. Len(s) \in 0..Len(s)
    BY <1>6
  <2> HIDE DEF Good
  <2> QED BY <1>6, <1>7, <1>8, <2>1, UpwardInduction
<1>10. g[Len(s)] = Merged(front, back, d, s)
  BY <1>2, <1>5 DEF Rounds
<1>11. Invariant(Merged(front, back, d, s), Len(s))
  BY <1>9, <1>10
<1> QED BY <1>11 DEF D, IsMerged

-----------------------------------------------------------------------------
(* The limit on the count, and the keys that it admits. *)

(* The part of u that fits on top of n attributes.                         *)
LEMMA FittingProperties ==
  ASSUME NEW u \in Entries, NEW n \in Nat, CountLimit > 0 => n <= CountLimit
  PROVE  LET fit == Fitting(u, n)
         IN /\ fit \in Entries /\ Len(fit) <= Len(u)
            /\ \A i \in 1..Len(fit) : fit[i] = u[i]
            /\ CountLimit > 0 => n + Len(fit) <= CountLimit
            /\ \A j \in 1..Len(u) : j <= Len(fit) <=> (CountLimit > 0 => n + j - 1 < CountLimit)
            /\ CountLimit > 0 /\ n = 0 /\ u # <<>> => Len(fit) > 0
            /\ Distinct(u) => Distinct(fit)
<1> DEFINE fit == Fitting(u, n)
<1>1. Len(u) \in Nat /\ CountLimit \in Int /\ (u # <<>> => Len(u) > 0)
  BY LimitsAssumption DEF Entries
<1>2. CASE CountLimit > 0 /\ n + Len(u) > CountLimit
  <2>1. fit = SubSeq(u, 1, CountLimit - n) /\ CountLimit - n \in 0..Len(u)
    BY <1>1, <1>2 DEF Fitting
  <2>2. fit \in Entries /\ Len(fit) = CountLimit - n /\ \A i \in 1..(CountLimit - n) : fit[i] = u[i]
    BY <2>1, CutEntries DEF Entries
  <2> HIDE DEF fit
  <2>3. Distinct(u) => Distinct(fit)
    <3>1. DOMAIN fit = 1..(CountLimit - n) /\ DOMAIN u = 1..Len(u)
      BY <2>2, EntryTypes
    <3>2. \A i \in DOMAIN fit : i \in DOMAIN u /\ fit[i] = u[i]
      BY <1>1, <2>1, <2>2, <3>1
    <3> QED BY <3>2 DEF Distinct
  <2>4. Len(fit) <= Len(u) /\ \A i \in 1..Len(fit) : fit[i] = u[i]
    BY <2>1, <2>2
  <2>5. \A j \in 1..Len(u) : j <= Len(fit) <=> (CountLimit > 0 => n + j - 1 < CountLimit)
    BY <1>1, <1>2, <2>1, <2>2
  <2>6. CountLimit > 0 /\ n = 0 /\ u # <<>> => Len(fit) > 0
    BY <1>1, <2>2
  <2>7. CountLimit > 0 => n + Len(fit) <= CountLimit
    BY <1>1, <2>2
  <2> QED BY <2>2, <2>3, <2>4, <2>5, <2>6, <2>7 DEF fit
<1>3. CASE ~(CountLimit > 0 /\ n + Len(u) > CountLimit)
  <2>1. fit = u
    BY <1>3 DEF Fitting
  <2> HIDE DEF fit
  <2>2. \A j \in 1..Len(u) : CountLimit > 0 => n + j - 1 < CountLimit
    BY <1>1, <1>3
  <2> QED BY <1>1, <1>3, <2>1, <2>2 DEF fit
<1> QED BY <1>2, <1>3

(* The length of a sequence without duplicates is its number of keys.      *)
LEMMA CountOfKeys ==
  ASSUME NEW s \in Entries, Distinct(s), NEW n \in 0..Len(s)
  PROVE  IsFiniteSet(KeysTo(s, n)) /\ Cardinality(KeysTo(s, n)) = n
<1> DEFINE keyAt == [i \in 1..n |-> s[i].key]
<1>1. n \in Nat /\ DOMAIN s = 1..Len(s) /\ \A i \in 1..n : i \in DOMAIN s
  BY EntryTypes
<1>2. IsFiniteSet(1..n) /\ Cardinality(1..n) = n
  <2>1. 1 \in Int /\ n \in Int /\ n = IF 1 > n THEN 0 ELSE n - 1 + 1
    BY <1>1
  <2>2. Cardinality(1..n) = IF 1 > n THEN 0 ELSE n - 1 + 1
    BY <2>1, FS_Interval
  <2> QED BY <2>1, <2>2, FS_Interval
<1>3. keyAt \in Surjection(1..n, KeysTo(s, n))
  BY <1>1 DEF Surjection, KeysTo
<1>4. keyAt \in Injection(1..n, KeysTo(s, n))
  BY <1>1 DEF Injection, IsInjective, Distinct, KeysTo
<1> QED BY <1>2, <1>3, <1>4, FS_Surjection

(* The number of keys that are there and came before the j-th new one.     *)
LEMMA KeysBefore ==
  ASSUME NEW D, IsFiniteSet(D), NEW u \in Entries, Distinct(u), NEW n \in 0..Len(u),
         KeysIn(u) \cap D = {}, NEW K, K \ D = KeysTo(u, n)
  PROVE  Cardinality(D \cup K) = Cardinality(D) + n
<1>1. IsFiniteSet(KeysTo(u, n)) /\ Cardinality(KeysTo(u, n)) = n
  BY CountOfKeys
<1>2. D \cup K = D \cup KeysTo(u, n)
  OBVIOUS
<1>3. KeysTo(u, n) \subseteq KeysIn(u)
  BY EntryTypes DEF KeysTo, KeysIn
<1>4. D \cap KeysTo(u, n) = {}
  BY <1>3
<1>5. Cardinality({}) = 0 /\ Cardinality(D) \in Nat /\ n \in Nat
  BY FS_EmptySet, FS_CardinalityType, EntryTypes
<1>6. Cardinality(D \cup KeysTo(u, n)) = Cardinality(D) + Cardinality(KeysTo(u, n)) - Cardinality(D \cap KeysTo(u, n))
  BY <1>1, FS_Union
<1>7. Cardinality(D \cap KeysTo(u, n)) = 0
  BY <1>4, <1>5
<1>8. Cardinality(D \cup KeysTo(u, n)) = Cardinality(D) + n
  <2> DEFINE all == Cardinality(D \cup KeysTo(u, n))
             held == Cardinality(D)
  <2>1. all = held + n - 0 /\ held \in Nat /\ n \in Nat
    BY <1>1, <1>5, <1>6, <1>7
  <2> HIDE DEF all, held
  <2>2. all = held + n
    BY <2>1
  <2> QED BY <2>2 DEF all, held
<1> QED BY <1>2, <1>8

(* The sum over the attributes is the sum over their keys.                 *)
LEMMA SumOverKeys ==
  ASSUME NEW s \in Entries, Distinct(s),
         NEW f, \A i \in 1..Len(s) : f[i] \in Nat, DOMAIN f = 1..Len(s),
         NEW g, DOMAIN g = KeysIn(s), \A i \in 1..Len(s) : g[s[i].key] = f[i]
  PROVE  SumFunction(g) = SumFunction(f) /\ SumFunction(f) \in Nat
<1> DEFINE part == [k \in KeysIn(s) |-> {i \in 1..Len(s) : s[i].key = k}]
<1>1. /\ Len(s) \in Nat /\ DOMAIN s = 1..Len(s) /\ KeysIn(s) = KeysTo(s, Len(s))
      /\ Len(s) \in 0..Len(s)
  BY EntryTypes
<1>2. IsFiniteSet(1..Len(s))
  BY <1>1, FS_Interval
<1>3. IsFiniteSet(KeysIn(s))
  BY <1>1, CountOfKeys
<1>4. ASSUME NEW k \in KeysIn(s)
      PROVE  part[k] \in SUBSET (1..Len(s)) /\ g[k] = SumFunctionOnSet(f, part[k])
  <2>1. PICK i \in 1..Len(s) : s[i].key = k
    BY <1>1 DEF KeysIn
  <2>2. part[k] = {i}
    BY <1>1, <2>1 DEF Distinct
  <2>3. IsFiniteSet({i}) /\ {i} \ {i} = {}
    BY FS_Singleton
  <2>4. SumFunctionOnSet(f, {i}) = f[i] + SumFunctionOnSet(f, {}) /\ SumFunctionOnSet(f, {}) = 0
    <3>1. \A x \in {i} : f[x] \in Nat
      OBVIOUS
    <3>2. SumFunctionOnSet(f, {i}) = f[i] + SumFunctionOnSet(f, {i} \ {i})
      BY <2>3, <3>1, SumSplit
    <3>3. SumFunctionOnSet(f, {}) = 0
      BY <2>3, <3>1, SumSplit
    <3> QED BY <2>3, <3>2, <3>3
  <2> HIDE DEF part
  <2> QED BY <2>1, <2>2, <2>4
<1>5. /\ \A k, l \in KeysIn(s) : k # l => part[k] \cap part[l] = {}
      /\ \A i \in 1..Len(s) : \E k \in KeysIn(s) : i \in part[k]
  BY EntryTypes
<1> HIDE DEF part
<1>6. InParts(g, KeysIn(s), part, f, 1..Len(s))
  BY <1>2, <1>3, <1>4, <1>5 DEF InParts
<1>7. SumFunctionOnSet(g, KeysIn(s)) = SumFunctionOnSet(f, 1..Len(s))
  BY <1>6, SumOfSums
<1>8. SumFunction(g) = SumFunctionOnSet(g, KeysIn(s)) /\ SumFunction(f) = SumFunctionOnSet(f, 1..Len(s))
  BY DEF SumFunction, SumFunctionOnSet, FoldFunction, FoldFunctionOnSet
<1>9. SumFunctionOnSet(f, 1..Len(s)) \in Nat
  BY <1>2, SumSplit
<1> QED BY <1>7, <1>8, <1>9

(* What becomes of the map m when attributes s are added to it, from what  *)
(* was collected of them.                                                  *)
AddedAs(m, d, s, fit, r, e) ==
  /\ DOMAIN r = DOMAIN m \cup KeysIn(fit) /\ r = [k \in DOMAIN r |-> r[k]]
  /\ \A i \in 1..Len(fit) : r[fit[i].key] = Limited(fit[i].val)
  /\ \A k \in DOMAIN m :
       /\ k \in KeysIn(s) => \E a : IsLatest(s, Len(s), a) /\ a.key = k /\ r[k] = a.val
       /\ k \notin KeysIn(s) => r[k] = m[k]
  /\ e = d + Len(s) - Len(fit) + Nested(fit)

(* The operators of LogAttributes and those of LogRecord are the same.     *)
LEMMA AbstractNames ==
  /\ \A S : Abstract!Cardinality(S) = Cardinality(S)
  /\ \A S : Abstract!Min(S) = Min(S) /\ Abstract!Max(S) = Max(S)
  /\ \A s : Abstract!KeysOf(s) = KeysIn(s)
  /\ \A v : Abstract!Limited(v) = Limited(v) /\ Abstract!NestedDrops(v) = NestedDrops(v)
  /\ \A f : Abstract!SumFunction(f) = SumFunction(f)
<1>1. \A S : Abstract!Cardinality(S) = Cardinality(S)
  BY DEF Abstract!Cardinality, Cardinality
<1>2. \A S : Abstract!Min(S) = Min(S) /\ Abstract!Max(S) = Max(S)
  BY DEF Abstract!Min, Abstract!Max, Min, Max
<1>3. \A s : Abstract!KeysOf(s) = KeysIn(s)
  BY DEF Abstract!KeysOf, KeysIn
<1>4. \A v : Abstract!Limited(v) = Limited(v) /\ Abstract!NestedDrops(v) = NestedDrops(v)
  BY DEF Abstract!Limited, Limited, Abstract!NestedDrops, NestedDrops
<1>5. \A f : Abstract!SumFunction(f) = SumFunction(f)
  BY DEF Abstract!SumFunction, SumFunction, Abstract!FoldFunction, FoldFunction,
         Abstract!SumFunctionOnSet, SumFunctionOnSet,
         Abstract!FoldFunctionOnSet, FoldFunctionOnSet, Abstract!MapThenFoldSet, MapThenFoldSet
<1> QED BY <1>1, <1>2, <1>3, <1>4, <1>5

(* The value given last for a key, as LogAttributes says it.               *)
LEMMA AbstractLast ==
  ASSUME NEW s \in Entries, NEW a, IsLatest(s, Len(s), a)
  PROVE  Abstract!LastValue(s, a.key) = a.val /\ a.key \in KeysIn(s)
<1> DEFINE I == {i \in 1..Len(s) : s[i].key = a.key}
<1>1. Abstract!LastValue(s, a.key) = s[IF I # {} THEN Max(I) ELSE 0].val
  BY AbstractNames DEF Abstract!LastValue, Abstract!SelectLastInSeq
<1> HIDE DEF I
<1>2. I # {} /\ a = s[Max(I)] /\ a.key \in KeysIn(s)
  BY LatestIsLast DEF I
<1> QED BY <1>1, <1>2

(* The keys that come before the first place of a key.                     *)
LEMMA FirstPlace ==
  ASSUME NEW s \in Entries, NEW i \in 1..Len(s), s[i].key \notin KeysTo(s, i - 1)
  PROVE  LET I == {j \in 1..Len(s) : s[j].key = s[i].key}
         IN /\ I # {} /\ Min(I) = i
            /\ KeysIn(SubSeq(s, 1, i - 1)) = KeysTo(s, i - 1)
<1> DEFINE I == {j \in 1..Len(s) : s[j].key = s[i].key}
<1>1. i \in I /\ I \in SUBSET (1..Len(s)) /\ Len(s) \in Nat
  BY EntryTypes
<1>2. Min(I) \in I
  <2> HIDE DEF I
  <2> QED BY <1>1, MinOfPositions
<1>3. Min(I) <= i
  <2>1. 1 \in Int /\ Len(s) \in Int /\ I \subseteq 1..Len(s) /\ I # {}
    BY <1>1
  <2> HIDE DEF I
  <2> QED BY <1>1, <2>1, BoundedExtremes
<1>4. Min(I) \in 1..Len(s) /\ s[Min(I)].key = s[i].key
  BY <1>2
<1> HIDE DEF I
<1>5. ~(Min(I) \in 1..(i - 1))
  BY <1>4 DEF KeysTo
<1>6. Min(I) = i
  BY <1>1, <1>3, <1>4, <1>5
<1>7. KeysIn(SubSeq(s, 1, i - 1)) = KeysTo(s, i - 1)
  <2>1. i - 1 \in 0..Len(s) /\ s \in Seq(Attribute)
    BY <1>1 DEF Entries
  <2>2. DOMAIN SubSeq(s, 1, i - 1) = 1..(i - 1) /\ \A j \in 1..(i - 1) : SubSeq(s, 1, i - 1)[j] = s[j]
    BY <2>1, CutEntries
  <2> QED BY <2>2 DEF KeysIn, KeysTo
<1> QED BY <1>1, <1>6, <1>7 DEF I

(* The keys that are admitted are those of the part that fits.             *)
LEMMA AdmittedKeys ==
  ASSUME NEW D, IsFiniteSet(D), CountLimit > 0 => Cardinality(D) <= CountLimit,
         NEW s \in Entries, NEW u, Collected(u, D, s, Len(s))
  PROVE  Abstract!Admitted(D, s) = KeysIn(Fitting(u, Cardinality(D)))
<1> DEFINE n == Cardinality(D)
           fit == Fitting(u, n)
           before(k) == Abstract!KeysOf(SubSeq(s, 1, Abstract!SelectInSeq(s, LAMBDA a : a.key = k) - 1))
<1>1. /\ u \in Entries /\ Distinct(u) /\ KeysIn(u) = KeysIn(s) \ D
      /\ \A j \in 1..Len(u) : \E i \in 1..Len(s) :
           s[i].key = u[j].key /\ KeysTo(s, i - 1) \ D = KeysTo(u, j - 1)
  BY EntryTypes DEF Collected
<1>2. n \in Nat /\ Len(u) \in Nat /\ DOMAIN u = 1..Len(u) /\ KeysIn(u) = KeysTo(u, Len(u))
  BY <1>1, EntryTypes, FS_CardinalityType
<1>3. /\ fit \in Entries /\ Len(fit) <= Len(u) /\ Len(fit) \in Nat
      /\ \A i \in 1..Len(fit) : fit[i] = u[i]
      /\ \A j \in 1..Len(u) : j <= Len(fit) <=> (CountLimit > 0 => n + j - 1 < CountLimit)
      /\ KeysIn(fit) = KeysTo(fit, Len(fit))
  <2>1. n \in Nat /\ (CountLimit > 0 => n <= CountLimit) /\ u \in Entries
    BY <1>1, <1>2
  <2> HIDE DEF n
  <2>2. /\ fit \in Entries /\ Len(fit) <= Len(u)
        /\ \A i \in 1..Len(fit) : fit[i] = u[i]
        /\ \A j \in 1..Len(u) : j <= Len(fit) <=> (CountLimit > 0 => n + j - 1 < CountLimit)
    BY <2>1, FittingProperties
  <2> HIDE DEF fit
  <2> QED BY <2>2, EntryTypes
<1>4. Abstract!Admitted(D, s) = {k \in KeysIn(u) : CountLimit > 0 => Cardinality(D \cup before(k)) < CountLimit}
  BY <1>1, AbstractNames DEF Abstract!Admitted
<1>5. ASSUME NEW j \in 1..Len(u) PROVE Cardinality(D \cup before(u[j].key)) = n + (j - 1)
  <2> DEFINE k == u[j].key
  <2>1. PICK i \in 1..Len(s) : s[i].key = k /\ KeysTo(s, i - 1) \ D = KeysTo(u, j - 1)
    BY <1>1
  <2>2. k \in KeysIn(u) /\ k \notin D
    BY <1>1, <1>2 DEF KeysTo
  <2>3. k \notin KeysTo(u, j - 1)
    <3>1. \A l \in 1..(j - 1) : l \in DOMAIN u /\ j \in DOMAIN u /\ l # j
      BY <1>2
    <3>2. \A l \in 1..(j - 1) : u[l].key # u[j].key
      BY <1>1, <3>1 DEF Distinct
    <3> QED BY <3>2 DEF KeysTo
  <2> DEFINE I == {l \in 1..Len(s) : s[l].key = s[i].key}
  <2>4. I # {} /\ Min(I) = i /\ KeysIn(SubSeq(s, 1, i - 1)) = KeysTo(s, i - 1)
    <3>1. s[i].key \notin KeysTo(s, i - 1)
      BY <2>1, <2>2, <2>3
    <3> QED BY <3>1, FirstPlace
  <2>5. before(s[i].key) = KeysIn(SubSeq(s, 1, (IF I # {} THEN Min(I) ELSE 0) - 1))
    BY AbstractNames DEF Abstract!SelectInSeq
  <2> HIDE DEF I, before
  <2>6. before(k) = KeysTo(s, i - 1)
    BY <2>1, <2>4, <2>5
  <2>7. Cardinality(D \cup KeysTo(s, i - 1)) = Cardinality(D) + (j - 1)
    <3>1. j - 1 \in 0..Len(u) /\ KeysIn(u) \cap D = {}
      BY <1>1, <1>2
    <3>2. u \in Entries /\ Distinct(u) /\ KeysTo(s, i - 1) \ D = KeysTo(u, j - 1)
      BY <1>1, <2>1
    <3> DEFINE l == j - 1
               K == KeysTo(s, i - 1)
    <3>3. l \in 0..Len(u) /\ KeysIn(u) \cap D = {} /\ K \ D = KeysTo(u, l)
      BY <3>1, <3>2
    <3> HIDE DEF l, K
    <3>4. Cardinality(D \cup K) = Cardinality(D) + l
      BY <3>2, <3>3, KeysBefore
    <3> QED BY <3>4 DEF l, K
  <2> QED BY <2>6, <2>7
<1> HIDE DEF n, before, fit
<1>6. ASSUME NEW j \in 1..Len(u)
      PROVE  u[j].key \in Abstract!Admitted(D, s) <=> j <= Len(fit)
  <2>1. u[j].key \in KeysIn(u)
    BY <1>2 DEF KeysIn
  <2> QED BY <1>2, <1>3, <1>4, <1>5, <2>1
<1>7. ASSUME NEW j \in 1..Len(u)
      PROVE  u[j].key \in KeysIn(fit) <=> j <= Len(fit)
  <2>1. j <= Len(fit) => u[j].key \in KeysIn(fit)
    BY <1>3 DEF KeysTo
  <2>2. ASSUME u[j].key \in KeysIn(fit) PROVE j <= Len(fit)
    <3>1. PICK i \in 1..Len(fit) : fit[i].key = u[j].key
      BY <1>3, <2>2 DEF KeysTo
    <3>2. i \in 1..Len(u) /\ u[i].key = u[j].key
      BY <1>2, <1>3, <3>1
    <3>3. i = j
      BY <1>1, <1>2, <3>2 DEF Distinct
    <3> QED BY <3>1, <3>3
  <2> QED BY <2>1, <2>2
<1>8. KeysIn(fit) \subseteq KeysIn(u) /\ Abstract!Admitted(D, s) \subseteq KeysIn(u)
  <2>1. KeysIn(fit) \subseteq KeysIn(u)
    <3>1. \A i \in 1..Len(fit) : i \in 1..Len(u)
      BY <1>2, <1>3
    <3> QED BY <1>2, <1>3, <3>1 DEF KeysTo
  <2> QED BY <1>4, <2>1
<1>9. \A k \in KeysIn(u) : \E j \in 1..Len(u) : u[j].key = k
  BY <1>2 DEF KeysIn
<1>10. Abstract!Admitted(D, s) = KeysIn(fit)
  BY <1>6, <1>7, <1>8, <1>9
<1> QED BY <1>10 DEF n, fit

(* What was collected and put in place is what LogAttributes adds.         *)
LEMMA AddedIs ==
  ASSUME NEW m, IsFiniteSet(DOMAIN m), CountLimit > 0 => Cardinality(DOMAIN m) <= CountLimit,
         NEW d \in Nat, NEW s \in Entries, NEW u, Collected(u, DOMAIN m, s, Len(s)), NEW r, NEW e,
         AddedAs(m, d, s, Fitting(u, Cardinality(DOMAIN m)), r, e)
  PROVE  Abstract!Added(m, d, s) = [attrs |-> r, dropped |-> e]
<1> DEFINE D == DOMAIN m
           fit == Fitting(u, Cardinality(D))
           new == Abstract!Admitted(D, s)
           f == [i \in DOMAIN fit |-> NestedDrops(fit[i].val)]
           g == [k \in new |-> NestedDrops(Abstract!LastValue(s, k))]
<1>1. /\ u \in Entries /\ Distinct(u) /\ KeysIn(u) = KeysIn(s) \ D
      /\ \A i \in 1..Len(u) : IsLatest(s, Len(s), u[i])
  BY EntryTypes DEF Collected
<1>2. /\ fit \in Entries /\ Distinct(fit) /\ Len(fit) <= Len(u) /\ Len(fit) \in Nat
      /\ DOMAIN fit = 1..Len(fit) /\ KeysIn(fit) = KeysTo(fit, Len(fit))
      /\ \A i \in 1..Len(fit) : fit[i] = u[i]
  <2>1. Cardinality(D) \in Nat
    BY FS_CardinalityType
  <2>2. fit \in Entries /\ Distinct(fit) /\ Len(fit) <= Len(u) /\ \A i \in 1..Len(fit) : fit[i] = u[i]
    BY <1>1, <2>1, FittingProperties
  <2> HIDE DEF fit
  <2> QED BY <2>2, EntryTypes
<1>3. new = KeysIn(fit)
  BY AdmittedKeys
<1>4. Cardinality(new) = Len(fit)
  <2>1. Len(fit) \in 0..Len(fit)
    BY <1>2
  <2> HIDE DEF fit, new
  <2> QED BY <1>2, <1>3, <2>1, CountOfKeys
<1>5. \A i \in 1..Len(fit) : Abstract!LastValue(s, fit[i].key) = fit[i].val /\ fit[i].key \in KeysIn(s)
  <2>1. \A i \in 1..Len(fit) : IsLatest(s, Len(s), fit[i])
    <3>1. \A i \in 1..Len(fit) : i \in 1..Len(u)
      BY <1>2, EntryTypes
    <3> QED BY <1>1, <1>2, <3>1
  <2> HIDE DEF fit
  <2> QED BY <2>1, AbstractLast
<1>6. SumFunction(g) = Nested(fit)
  <2>1. /\ DOMAIN f = 1..Len(fit) /\ \A i \in 1..Len(fit) : f[i] \in Nat
    BY <1>2 DEF NestedDrops
  <2>2. DOMAIN g = KeysIn(fit) /\ \A i \in 1..Len(fit) : g[fit[i].key] = f[i]
    <3>1. \A i \in 1..Len(fit) : fit[i].key \in new /\ i \in DOMAIN fit
      BY <1>2, <1>3 DEF KeysIn
    <3> HIDE DEF new, fit
    <3> QED BY <1>3, <1>5, <3>1
  <2>3. Nested(fit) = SumFunction(f)
    BY DEF Nested
  <2> HIDE DEF fit, f, g
  <2> QED BY <1>2, <2>1, <2>2, <2>3, SumOverKeys
<1>7. /\ DOMAIN r = D \cup KeysIn(fit) /\ r = [k \in DOMAIN r |-> r[k]]
      /\ \A i \in 1..Len(fit) : r[fit[i].key] = Limited(fit[i].val)
      /\ \A k \in D :
           /\ k \in KeysIn(s) => \E a : IsLatest(s, Len(s), a) /\ a.key = k /\ r[k] = a.val
           /\ k \notin KeysIn(s) => r[k] = m[k]
      /\ e = d + Len(s) - Len(fit) + Nested(fit)
  BY DEF AddedAs
<1> DEFINE want == [k \in D \cup new |->
                      IF k \in new THEN Abstract!Limited(Abstract!LastValue(s, k))
                      ELSE IF k \in Abstract!KeysOf(s) THEN Abstract!LastValue(s, k) ELSE m[k]]
<1>8. Abstract!Added(m, d, s) =
        [attrs |-> want, dropped |-> d + Len(s) - Abstract!Cardinality(new) + Abstract!SumFunction(g)]
  <2>1. g = [k \in new |-> Abstract!NestedDrops(Abstract!LastValue(s, k))]
    BY AbstractNames
  <2> HIDE DEF g
  <2> QED BY <2>1 DEF Abstract!Added
<1> HIDE DEF fit, new, g
<1>9. ASSUME NEW k \in D \cup new PROVE r[k] = want[k]
  <2>1. CASE k \in new
    <3>1. PICK i \in 1..Len(fit) : fit[i].key = k
      BY <1>2, <1>3, <2>1 DEF KeysTo
    <3> QED BY <1>5, <1>7, <2>1, <3>1, AbstractNames
  <2>2. CASE k \notin new
    <3>1. CASE k \in KeysIn(s)
      BY <1>7, <2>2, <3>1, AbstractLast, AbstractNames
    <3>2. CASE k \notin KeysIn(s)
      BY <1>7, <2>2, <3>2, AbstractNames
    <3> QED BY <3>1, <3>2
  <2> QED BY <2>1, <2>2
<1>10. r = want
  BY <1>3, <1>7, <1>9
<1>11. e = d + Len(s) - Abstract!Cardinality(new) + Abstract!SumFunction(g)
  BY <1>4, <1>6, <1>7, AbstractNames
<1> QED BY <1>8, <1>10, <1>11

-----------------------------------------------------------------------------
(* The map that a sequence of attributes without duplicates stands for. *)

MapOf(s) == [k \in KeysIn(s) |-> s[Place(s, k)].val]

LEMMA MapProperties ==
  ASSUME NEW s \in Entries, Distinct(s)
  PROVE  /\ DOMAIN MapOf(s) = KeysIn(s) /\ MapOf(s) = [k \in KeysIn(s) |-> MapOf(s)[k]]
         /\ \A i \in 1..Len(s) : s[i].key \in KeysIn(s) /\ MapOf(s)[s[i].key] = s[i].val
         /\ \A k \in KeysIn(s) : \E i \in 1..Len(s) : s[i].key = k
         /\ IsFiniteSet(KeysIn(s)) /\ Cardinality(KeysIn(s)) = Len(s)
<1>1. Len(s) \in Nat /\ DOMAIN s = 1..Len(s) /\ KeysIn(s) = KeysTo(s, Len(s)) /\ Len(s) \in 0..Len(s)
  BY EntryTypes
<1>2. ASSUME NEW i \in 1..Len(s)
      PROVE  s[i].key \in KeysIn(s) /\ MapOf(s)[s[i].key] = s[i].val
  <2>1. s[i].key \in KeysIn(s)
    BY EntryTypes
  <2>2. Place(s, s[i].key) \in 1..Len(s) /\ s[Place(s, s[i].key)].key = s[i].key
    BY <1>1, <2>1, PlaceProperties
  <2>3. Place(s, s[i].key) = i
    BY <1>1, <2>2 DEF Distinct
  <2> QED BY <2>1, <2>3 DEF MapOf
<1>3. \A k \in KeysIn(s) : \E i \in 1..Len(s) : s[i].key = k
  BY <1>1 DEF KeysIn
<1>4. IsFiniteSet(KeysIn(s)) /\ Cardinality(KeysIn(s)) = Len(s)
  BY <1>1, CountOfKeys
<1>5. DOMAIN MapOf(s) = KeysIn(s) /\ MapOf(s) = [k \in KeysIn(s) |-> MapOf(s)[k]]
  BY DEF MapOf
<1> QED BY <1>2, <1>3, <1>4, <1>5

(* One sequence after the other. *)
LEMMA MapOfJoin ==
  ASSUME NEW s \in Entries, NEW t \in Entries, Distinct(s), Distinct(t),
         KeysIn(s) \cap KeysIn(t) = {}
  PROVE  /\ s \o t \in Entries /\ Distinct(s \o t) /\ Len(s \o t) = Len(s) + Len(t)
         /\ KeysIn(s \o t) = KeysIn(s) \cup KeysIn(t)
         /\ \A k \in KeysIn(s) : MapOf(s \o t)[k] = MapOf(s)[k]
         /\ \A k \in KeysIn(t) : MapOf(s \o t)[k] = MapOf(t)[k]
<1> DEFINE c == s \o t
<1>1. /\ c \in Entries /\ Len(c) = Len(s) + Len(t)
      /\ Len(s) \in Nat /\ Len(t) \in Nat
      /\ DOMAIN s = 1..Len(s) /\ DOMAIN t = 1..Len(t) /\ DOMAIN c = 1..(Len(s) + Len(t))
      /\ \A i \in 1..Len(s) : c[i] = s[i]
      /\ \A i \in 1..(Len(s) + Len(t)) : ~(i <= Len(s)) => c[i] = t[i - Len(s)]
  BY JoinEntries DEF Entries
<1> HIDE DEF c
<1>2. \A i \in 1..Len(s) : i \in DOMAIN c /\ c[i] = s[i] /\ c[i].key \in KeysIn(s)
  BY <1>1 DEF KeysIn
<1>3. \A i \in 1..Len(t) : Len(s) + i \in DOMAIN c /\ c[Len(s) + i] = t[i] /\ c[Len(s) + i].key \in KeysIn(t)
  <2> SUFFICES ASSUME NEW i \in 1..Len(t)
               PROVE  Len(s) + i \in DOMAIN c /\ c[Len(s) + i] = t[i] /\ t[i].key \in KeysIn(t)
    OBVIOUS
  <2>1. Len(s) + i \in 1..(Len(s) + Len(t)) /\ ~(Len(s) + i <= Len(s)) /\ (Len(s) + i) - Len(s) = i
    BY <1>1
  <2>2. c[Len(s) + i] = t[i]
    BY <1>1, <2>1
  <2> QED BY <1>1, <2>1, <2>2 DEF KeysIn
<1>4. \A i \in DOMAIN c : i \in 1..Len(s) \/ \E j \in 1..Len(t) : i = Len(s) + j
  <2> SUFFICES ASSUME NEW i \in DOMAIN c, ~(i <= Len(s)) PROVE \E j \in 1..Len(t) : i = Len(s) + j
    BY <1>1
  <2>1. i - Len(s) \in 1..Len(t) /\ i = Len(s) + (i - Len(s))
    BY <1>1
  <2> QED BY <2>1
<1>5. KeysIn(c) = KeysIn(s) \cup KeysIn(t)
  <2>1. KeysIn(c) \subseteq KeysIn(s) \cup KeysIn(t)
    BY <1>2, <1>3, <1>4 DEF KeysIn
  <2>2. KeysIn(s) \subseteq KeysIn(c)
    BY <1>1, <1>2 DEF KeysIn
  <2>3. ASSUME NEW i \in 1..Len(t) PROVE t[i].key \in KeysIn(c)
    <3>1. Len(s) + i \in DOMAIN c /\ c[Len(s) + i] = t[i]
      BY <1>3
    <3> QED BY <3>1 DEF KeysIn
  <2>4. KeysIn(t) \subseteq KeysIn(c)
    BY <1>1, <2>3 DEF KeysIn
  <2> QED BY <2>1, <2>2, <2>4
<1>6. Distinct(c)
  <2> SUFFICES ASSUME NEW i \in DOMAIN c, NEW j \in DOMAIN c, c[i].key = c[j].key PROVE i = j
    BY DEF Distinct
  <2>1. CASE i \in 1..Len(s) /\ j \in 1..Len(s)
    BY <1>1, <1>2, <2>1 DEF Distinct
  <2>2. CASE \E k, l \in 1..Len(t) : i = Len(s) + k /\ j = Len(s) + l
    <3>1. PICK k \in 1..Len(t), l \in 1..Len(t) : i = Len(s) + k /\ j = Len(s) + l
      BY <2>2
    <3>2. c[i] = t[k] /\ c[j] = t[l]
      BY <1>3, <3>1
    <3>3. k = l
      BY <1>1, <3>2 DEF Distinct
    <3> QED BY <3>1, <3>3
  <2>3. CASE i \in 1..Len(s) /\ \E l \in 1..Len(t) : j = Len(s) + l
    BY <1>2, <1>3, <2>3
  <2>4. CASE j \in 1..Len(s) /\ \E l \in 1..Len(t) : i = Len(s) + l
    BY <1>2, <1>3, <2>4
  <2> QED BY <1>4, <2>1, <2>2, <2>3, <2>4
<1>7. \A i \in DOMAIN c : MapOf(c)[c[i].key] = c[i].val
  BY <1>1, <1>6, MapProperties
<1>8. ASSUME NEW k \in KeysIn(s) PROVE MapOf(c)[k] = MapOf(s)[k]
  <2>1. PICK i \in 1..Len(s) : s[i].key = k
    BY <1>1 DEF KeysIn
  <2>2. MapOf(s)[k] = s[i].val
    BY <2>1, MapProperties
  <2> QED BY <1>2, <1>7, <2>1, <2>2
<1>9. ASSUME NEW k \in KeysIn(t) PROVE MapOf(c)[k] = MapOf(t)[k]
  <2>1. PICK i \in 1..Len(t) : t[i].key = k
    BY <1>1 DEF KeysIn
  <2>2. MapOf(t)[k] = t[i].val
    BY <2>1, MapProperties, Zenon
  <2> QED BY <1>3, <1>7, <2>1, <2>2
<1> QED BY <1>1, <1>5, <1>6, <1>8, <1>9 DEF c

(* A sequence cut in two. *)
LEMMA CutDistinct ==
  ASSUME NEW s \in Entries, Distinct(s), NEW n \in 0..Len(s)
  PROVE  LET p == SubSeq(s, 1, n)
             r == SubSeq(s, n + 1, Len(s))
         IN /\ p \in Entries /\ r \in Entries /\ Len(p) = n /\ Len(r) = Len(s) - n
            /\ Distinct(p) /\ Distinct(r) /\ KeysIn(p) \cap KeysIn(r) = {}
            /\ KeysIn(s) = KeysIn(p) \cup KeysIn(r)
            /\ \A k \in KeysIn(p) : MapOf(p)[k] = MapOf(s)[k]
            /\ \A k \in KeysIn(r) : MapOf(r)[k] = MapOf(s)[k]
<1> DEFINE p == SubSeq(s, 1, n)
           r == SubSeq(s, n + 1, Len(s))
<1>1. /\ p \in Entries /\ Len(p) = n /\ DOMAIN p = 1 .. n
      /\ \A i \in 1 .. n : p[i] = s[i]
      /\ r \in Entries /\ Len(r) = Len(s) - n /\ DOMAIN r = 1 .. (Len(s) - n)
      /\ \A i \in 1 .. (Len(s) - n) : r[i] = s[n + i]
      /\ n \in Nat /\ Len(s) \in Nat /\ DOMAIN s = 1..Len(s)
  <2>1. s \in Seq(Attribute) /\ Len(s) \in Nat /\ DOMAIN s = 1..Len(s) /\ n \in Nat
    BY EntryTypes
  <2>2. /\ p \in Seq(Attribute) /\ Len(p) = n /\ DOMAIN p = 1 .. n
        /\ \A i \in 1 .. n : p[i] = s[i]
        /\ r \in Seq(Attribute) /\ Len(r) = Len(s) - n /\ DOMAIN r = 1 .. (Len(s) - n)
        /\ \A i \in 1 .. (Len(s) - n) : r[i] = s[n + i]
    BY <2>1, CutEntries, Zenon
  <2> HIDE DEF p, r
  <2> QED BY <2>1, <2>2 DEF Entries
<1> HIDE DEF p, r
<1>2. \A i \in 1..n : i \in DOMAIN s /\ p[i] = s[i]
  BY <1>1
<1>3. \A i \in 1..(Len(s) - n) : n + i \in DOMAIN s /\ r[i] = s[n + i] /\ ~(n + i \in 1..n)
  BY <1>1
<1>4. Distinct(p) /\ Distinct(r)
  <2>1. Distinct(p)
    BY <1>1, <1>2 DEF Distinct
  <2>2. Distinct(r)
    <3> SUFFICES ASSUME NEW i \in DOMAIN r, NEW j \in DOMAIN r, r[i].key = r[j].key PROVE i = j
      BY DEF Distinct
    <3>1. n + i \in DOMAIN s /\ n + j \in DOMAIN s /\ s[n + i].key = s[n + j].key
      BY <1>1, <1>3
    <3>2. n + i = n + j
      BY <3>1 DEF Distinct
    <3> QED BY <1>1, <3>2
  <2> QED BY <2>1, <2>2
<1>5. KeysIn(p) \cap KeysIn(r) = {}
  <2> SUFFICES ASSUME NEW i \in DOMAIN p, NEW j \in DOMAIN r, p[i].key = r[j].key PROVE FALSE
    BY DEF KeysIn
  <2>1. i = n + j
    BY <1>1, <1>2, <1>3 DEF Distinct
  <2> QED BY <1>1, <1>3, <2>1
<1>6. KeysIn(s) = KeysIn(p) \cup KeysIn(r)
  <2>1. KeysIn(p) \subseteq KeysIn(s)
    BY <1>1, <1>2 DEF KeysIn
  <2>2. KeysIn(r) \subseteq KeysIn(s)
    <3>1. \A i \in DOMAIN r : n + i \in DOMAIN s /\ s[n + i] = r[i]
      BY <1>1, <1>3
    <3> QED BY <3>1, Zenon DEF KeysIn
  <2>3. ASSUME NEW i \in DOMAIN s PROVE s[i].key \in KeysIn(p) \cup KeysIn(r)
    <3>1. CASE i <= n
      BY <1>1, <3>1 DEF KeysIn
    <3>2. CASE ~(i <= n)
      <4>1. i - n \in DOMAIN r /\ r[i - n] = s[i]
        <5>1. i - n \in 1..(Len(s) - n) /\ n + (i - n) = i
          BY <1>1, <3>2
        <5> QED BY <1>1, <5>1
      <4> QED BY <4>1 DEF KeysIn
    <3> QED BY <3>1, <3>2
  <2> QED BY <2>1, <2>2, <2>3 DEF KeysIn
<1>7. \A i \in DOMAIN s : MapOf(s)[s[i].key] = s[i].val
  BY <1>1, MapProperties
<1>8. ASSUME NEW k \in KeysIn(p) PROVE MapOf(p)[k] = MapOf(s)[k]
  <2>1. PICK i \in 1..n : p[i].key = k
    BY <1>1 DEF KeysIn
  <2>2. MapOf(p)[k] = p[i].val
    BY <1>1, <1>4, <2>1, MapProperties
  <2> QED BY <1>2, <1>7, <2>1, <2>2
<1>9. ASSUME NEW k \in KeysIn(r) PROVE MapOf(r)[k] = MapOf(s)[k]
  <2>1. PICK i \in 1..(Len(s) - n) : r[i].key = k
    BY <1>1 DEF KeysIn
  <2>2. MapOf(r)[k] = r[i].val
    <3>1. r \in Entries /\ Distinct(r) /\ i \in 1..Len(r)
      BY <1>1, <1>4, <2>1
    <3> QED BY <2>1, <3>1, MapProperties, Zenon
  <2> QED BY <1>3, <1>7, <2>1, <2>2
<1> QED BY <1>1, <1>4, <1>5, <1>6, <1>8, <1>9, Zenon DEF p, r

(* The values limited. *)
LEMMA LimitsProperties ==
  ASSUME NEW s \in Entries, Distinct(s)
  PROVE  /\ Limits(s) \in Entries /\ Len(Limits(s)) = Len(s) /\ Distinct(Limits(s))
         /\ KeysIn(Limits(s)) = KeysIn(s)
         /\ \A k \in KeysIn(s) : MapOf(Limits(s))[k] = Limited(MapOf(s)[k])
<1> DEFINE t == Limits(s)
<1>1. Len(s) \in Nat /\ DOMAIN s = 1..Len(s) /\ \A i \in 1..Len(s) : s[i] \in Attribute
  BY EntryTypes
<1>2. \A v \in Values : Limited(v) \in Values
  BY DEF Values, Limited
<1>3. /\ DOMAIN t = 1..Len(s) /\ t = [i \in 1..Len(s) |-> t[i]]
      /\ \A i \in 1..Len(s) : t[i] \in Attribute /\ t[i].key = s[i].key /\ t[i].val = Limited(s[i].val)
  BY <1>1, <1>2 DEF Limits, Attribute
<1> HIDE DEF t
<1>4. t \in Entries /\ Len(t) = Len(s)
  <2>1. t \in [1..Len(s) -> Attribute]
    BY <1>3
  <2> QED BY <1>1, <2>1 DEF Entries
<1>5. KeysIn(t) = KeysIn(s) /\ Distinct(t)
  BY <1>1, <1>3 DEF KeysIn, Distinct
<1>6. ASSUME NEW k \in KeysIn(s) PROVE MapOf(t)[k] = Limited(MapOf(s)[k])
  <2>1. PICK i \in 1..Len(s) : s[i].key = k
    BY <1>1 DEF KeysIn
  <2>2. MapOf(t)[t[i].key] = t[i].val
    BY <1>4, <1>5, MapProperties
  <2>3. MapOf(s)[s[i].key] = s[i].val
    BY MapProperties
  <2> QED BY <1>3, <2>1, <2>2, <2>3
<1> QED BY <1>4, <1>5, <1>6 DEF t

(* What the loops leave of what was there. *)
LEMMA KeptMap ==
  ASSUME NEW old \in Entries, Distinct(old), NEW new, NEW s \in Entries,
         Kept(old, new, s, Len(s))
  PROVE  /\ new \in Entries /\ Len(new) = Len(old) /\ Distinct(new) /\ KeysIn(new) = KeysIn(old)
         /\ \A k \in KeysIn(old) :
              /\ k \in KeysIn(s) => \E a : IsLatest(s, Len(s), a) /\ a.key = k /\ MapOf(new)[k] = a.val
              /\ k \notin KeysIn(s) => MapOf(new)[k] = MapOf(old)[k]
<1>1. /\ new \in Entries /\ Len(new) = Len(old)
      /\ DOMAIN old = 1..Len(old) /\ DOMAIN new = 1..Len(old) /\ KeysIn(s) = KeysTo(s, Len(s))
      /\ \A i \in 1..Len(old) :
           /\ new[i].key = old[i].key
           /\ old[i].key \in KeysTo(s, Len(s)) => IsLatest(s, Len(s), new[i])
           /\ old[i].key \notin KeysTo(s, Len(s)) => new[i] = old[i]
  BY EntryTypes DEF Kept
<1>2. KeysIn(new) = KeysIn(old) /\ Distinct(new)
  BY <1>1 DEF KeysIn, Distinct
<1>3. ASSUME NEW k \in KeysIn(old)
      PROVE  /\ k \in KeysIn(s) => \E a : IsLatest(s, Len(s), a) /\ a.key = k /\ MapOf(new)[k] = a.val
             /\ k \notin KeysIn(s) => MapOf(new)[k] = MapOf(old)[k]
  <2>1. PICK i \in 1..Len(old) : old[i].key = k
    BY <1>1 DEF KeysIn
  <2>2. MapOf(new)[new[i].key] = new[i].val
    BY <1>1, <1>2, MapProperties
  <2>3. MapOf(old)[old[i].key] = old[i].val
    BY MapProperties
  <2> QED BY <1>1, <2>1, <2>2, <2>3
<1> QED BY <1>1, <1>2, <1>3

(* The front and the back with n and the other attributes of fit.          *)
AreParts(front2, back2, x, y, front, back, fit, n) ==
  /\ x \in Entries /\ y \in Entries /\ Len(x) = n /\ Len(y) = Len(fit) - n
  /\ Distinct(front2 \o x) /\ Distinct(back2 \o y)
  /\ front2 \o x \in Entries /\ back2 \o y \in Entries
  /\ Len(front2 \o x) = Len(front) + n /\ Len(back2 \o y) = Len(back) + (Len(fit) - n)
  /\ KeysIn(front2 \o x) \cap KeysIn(back2 \o y) = {}

(* Attributes s added to a front and a back: those with a key that is      *)
(* there replace its attribute, those that fit are limited and shared out. *)
LEMMA PartsAdded ==
  ASSUME NEW front \in Entries, NEW back \in Entries, Distinct(front), Distinct(back),
         KeysIn(front) \cap KeysIn(back) = {}, NEW s \in Entries, NEW front2, NEW back2,
         Kept(front, front2, s, Len(s)), Kept(back, back2, s, Len(s)),
         NEW fit \in Entries, Distinct(fit), KeysIn(fit) \cap (KeysIn(front) \cup KeysIn(back)) = {},
         NEW n \in 0..Len(fit), NEW d
  PROVE  LET x == Limits(SubSeq(fit, 1, n))
             y == Limits(SubSeq(fit, n + 1, Len(fit)))
         IN /\ AreParts(front2, back2, x, y, front, back, fit, n)
            /\ AddedAs(MapOf(front \o back), d, s, fit, MapOf((front2 \o x) \o (back2 \o y)),
                       d + Len(s) - Len(fit) + Nested(fit))
<1> DEFINE p == SubSeq(fit, 1, n)
           q == SubSeq(fit, n + 1, Len(fit))
           x == Limits(p)
           y == Limits(q)
<1>1. /\ front2 \in Entries /\ Len(front2) = Len(front) /\ Distinct(front2) /\ KeysIn(front2) = KeysIn(front)
      /\ \A k \in KeysIn(front) :
           /\ k \in KeysIn(s) => \E a : IsLatest(s, Len(s), a) /\ a.key = k /\ MapOf(front2)[k] = a.val
           /\ k \notin KeysIn(s) => MapOf(front2)[k] = MapOf(front)[k]
  BY KeptMap
<1>2. /\ back2 \in Entries /\ Len(back2) = Len(back) /\ Distinct(back2) /\ KeysIn(back2) = KeysIn(back)
      /\ \A k \in KeysIn(back) :
           /\ k \in KeysIn(s) => \E a : IsLatest(s, Len(s), a) /\ a.key = k /\ MapOf(back2)[k] = a.val
           /\ k \notin KeysIn(s) => MapOf(back2)[k] = MapOf(back)[k]
  BY KeptMap
<1>3. /\ p \in Entries /\ q \in Entries /\ Len(p) = n /\ Len(q) = Len(fit) - n
      /\ Distinct(p) /\ Distinct(q) /\ KeysIn(p) \cap KeysIn(q) = {}
      /\ KeysIn(fit) = KeysIn(p) \cup KeysIn(q)
      /\ \A k \in KeysIn(p) : MapOf(p)[k] = MapOf(fit)[k]
      /\ \A k \in KeysIn(q) : MapOf(q)[k] = MapOf(fit)[k]
  BY CutDistinct
<1> HIDE DEF p, q
<1>4. /\ x \in Entries /\ Len(x) = Len(p) /\ Distinct(x) /\ KeysIn(x) = KeysIn(p)
      /\ \A k \in KeysIn(p) : MapOf(x)[k] = Limited(MapOf(p)[k])
  BY <1>3, LimitsProperties
<1>5. /\ y \in Entries /\ Len(y) = Len(q) /\ Distinct(y) /\ KeysIn(y) = KeysIn(q)
      /\ \A k \in KeysIn(q) : MapOf(y)[k] = Limited(MapOf(q)[k])
  BY <1>3, LimitsProperties
<1> HIDE DEF x, y
<1>6. /\ KeysIn(front2) \cap KeysIn(x) = {} /\ KeysIn(back2) \cap KeysIn(y) = {}
      /\ (KeysIn(front2) \cup KeysIn(x)) \cap (KeysIn(back2) \cup KeysIn(y)) = {}
  BY <1>1, <1>2, <1>3, <1>4, <1>5
<1> DEFINE f == front2 \o x
           b == back2 \o y
           old == front \o back
           all == f \o b
<1>7. /\ f \in Entries /\ Distinct(f) /\ Len(f) = Len(front2) + Len(x)
      /\ KeysIn(f) = KeysIn(front2) \cup KeysIn(x)
      /\ \A k \in KeysIn(front2) : MapOf(f)[k] = MapOf(front2)[k]
      /\ \A k \in KeysIn(x) : MapOf(f)[k] = MapOf(x)[k]
  BY <1>1, <1>4, <1>6, MapOfJoin
<1>8. /\ b \in Entries /\ Distinct(b) /\ Len(b) = Len(back2) + Len(y)
      /\ KeysIn(b) = KeysIn(back2) \cup KeysIn(y)
      /\ \A k \in KeysIn(back2) : MapOf(b)[k] = MapOf(back2)[k]
      /\ \A k \in KeysIn(y) : MapOf(b)[k] = MapOf(y)[k]
  BY <1>2, <1>5, <1>6, MapOfJoin
<1> HIDE DEF f, b
<1>9. /\ all \in Entries /\ Distinct(all)
      /\ KeysIn(all) = KeysIn(f) \cup KeysIn(b)
      /\ \A k \in KeysIn(f) : MapOf(all)[k] = MapOf(f)[k]
      /\ \A k \in KeysIn(b) : MapOf(all)[k] = MapOf(b)[k]
  <2>1. KeysIn(f) \cap KeysIn(b) = {}
    BY <1>6, <1>7, <1>8
  <2> QED BY <1>7, <1>8, <2>1, MapOfJoin
<1>10. /\ old \in Entries /\ Distinct(old)
       /\ KeysIn(old) = KeysIn(front) \cup KeysIn(back)
       /\ \A k \in KeysIn(front) : MapOf(old)[k] = MapOf(front)[k]
       /\ \A k \in KeysIn(back) : MapOf(old)[k] = MapOf(back)[k]
  BY MapOfJoin
<1> HIDE DEF all, old
<1>11. /\ DOMAIN MapOf(all) = KeysIn(all) /\ MapOf(all) = [k \in KeysIn(all) |-> MapOf(all)[k]]
       /\ DOMAIN MapOf(old) = KeysIn(old)
       /\ KeysIn(all) = KeysIn(old) \cup KeysIn(fit)
  <2>1. KeysIn(all) = KeysIn(old) \cup KeysIn(fit)
    BY <1>1, <1>2, <1>3, <1>4, <1>5, <1>7, <1>8, <1>9, <1>10
  <2> QED BY <1>9, <1>10, <2>1, MapProperties
<1>12. ASSUME NEW i \in 1..Len(fit)
       PROVE  MapOf(all)[fit[i].key] = Limited(fit[i].val)
  <2>1. fit[i].key \in KeysIn(fit) /\ MapOf(fit)[fit[i].key] = fit[i].val
    BY MapProperties
  <2>2. CASE fit[i].key \in KeysIn(p)
    BY <1>3, <1>4, <1>7, <1>9, <2>1, <2>2
  <2>3. CASE fit[i].key \in KeysIn(q)
    BY <1>3, <1>5, <1>8, <1>9, <2>1, <2>3
  <2> QED BY <1>3, <2>1, <2>2, <2>3
<1>13. ASSUME NEW k \in KeysIn(old)
       PROVE  /\ k \in KeysIn(s) => \E a : IsLatest(s, Len(s), a) /\ a.key = k /\ MapOf(all)[k] = a.val
              /\ k \notin KeysIn(s) => MapOf(all)[k] = MapOf(old)[k]
  <2>1. CASE k \in KeysIn(front)
    <3>1. MapOf(all)[k] = MapOf(front2)[k] /\ MapOf(old)[k] = MapOf(front)[k]
      BY <1>1, <1>7, <1>9, <1>10, <2>1
    <3> QED BY <1>1, <2>1, <3>1
  <2>2. CASE k \in KeysIn(back)
    <3>1. MapOf(all)[k] = MapOf(back2)[k] /\ MapOf(old)[k] = MapOf(back)[k]
      BY <1>2, <1>8, <1>9, <1>10, <2>2
    <3> QED BY <1>2, <2>2, <3>1
  <2> QED BY <1>10, <2>1, <2>2
<1>14. AddedAs(MapOf(old), d, s, fit, MapOf(all), d + Len(s) - Len(fit) + Nested(fit))
  BY <1>11, <1>12, <1>13 DEF AddedAs
<1>15. /\ Len(f) = Len(front) + n /\ Len(b) = Len(back) + (Len(fit) - n)
       /\ KeysIn(f) \cap KeysIn(b) = {}
  BY <1>1, <1>2, <1>3, <1>4, <1>5, <1>6, <1>7, <1>8
<1>16. x \in Entries /\ y \in Entries /\ Len(x) = n /\ Len(y) = Len(fit) - n
  BY <1>3, <1>4, <1>5
<1> HIDE DEF AddedAs
<1> QED BY <1>1, <1>2, <1>7, <1>8, <1>14, <1>15, <1>16 DEF p, q, x, y, f, b, old, all, AreParts

-----------------------------------------------------------------------------
(* Records in memory. *)

Memories == UNION {[A -> Entries] : A \in {A \in SUBSET (Nat \ {0}) : IsFiniteSet(A)}}

RecordType == [front : Entries, arr : Nat, len : Nat, dropped : Nat]

InMemory(m, r) ==
  /\ r.arr = 0 => r.len = 0
  /\ r.arr # 0 => r.arr \in DOMAIN m /\ r.len <= Len(m[r.arr])

(* A memory is a finite number of arrays at addresses other than 0.        *)
LEMMA MemoryIs ==
  /\ \A m \in Memories : /\ DOMAIN m \subseteq Nat \ {0} /\ IsFiniteSet(DOMAIN m)
                         /\ m \in [DOMAIN m -> Entries]
  /\ \A m : DOMAIN m \subseteq Nat \ {0} /\ IsFiniteSet(DOMAIN m) /\ m \in [DOMAIN m -> Entries]
              => m \in Memories
<1>1. ASSUME NEW m \in Memories
      PROVE  DOMAIN m \subseteq Nat \ {0} /\ IsFiniteSet(DOMAIN m) /\ m \in [DOMAIN m -> Entries]
  <2>1. PICK A \in SUBSET (Nat \ {0}) : IsFiniteSet(A) /\ m \in [A -> Entries]
    BY DEF Memories
  <2>2. DOMAIN m = A
    BY <2>1
  <2> QED BY <2>1, <2>2
<1>2. ASSUME NEW m, DOMAIN m \subseteq Nat \ {0}, IsFiniteSet(DOMAIN m), m \in [DOMAIN m -> Entries]
      PROVE  m \in Memories
  BY <1>2 DEF Memories
<1> QED BY <1>1, <1>2

LEMMA BackProperties ==
  ASSUME NEW m \in Memories, NEW r \in RecordType, InMemory(m, r)
  PROVE  Back(m, r) \in Entries /\ Len(Back(m, r)) = r.len
<1>1. r.arr \in Nat /\ r.len \in Nat
  BY DEF RecordType
<1>2. CASE r.arr = 0
  <2>1. <<>> \in Entries /\ Len(<<>>) = 0
    BY DEF Entries
  <2> QED BY <1>2, <2>1 DEF InMemory, Back
<1>3. CASE r.arr # 0
  <2>1. m[r.arr] \in Entries /\ r.len <= Len(m[r.arr])
    BY <1>3, MemoryIs DEF InMemory
  <2>2. r.len \in 0..Len(m[r.arr])
    BY <1>1, <2>1, EntryTypes
  <2>3. SubSeq(m[r.arr], 1, r.len) \in Entries /\ Len(SubSeq(m[r.arr], 1, r.len)) = r.len
    BY <2>1, <2>2, CutEntries DEF Entries
  <2> QED BY <1>3, <2>3 DEF Back
<1> QED BY <1>2, <1>3

(* Among one address more than are taken one is free. *)
LEMMA FreshAddress ==
  ASSUME NEW m \in Memories
  PROVE  Fresh(m) \in Nat \ {0} /\ Fresh(m) \notin DOMAIN m
<1> DEFINE n == Cardinality(DOMAIN m)
           I == (1..(n + 1)) \ DOMAIN m
<1>1. IsFiniteSet(DOMAIN m) /\ n \in Nat
  BY MemoryIs, FS_CardinalityType
<1> HIDE DEF n
<1>2. Cardinality(1..(n + 1)) = n + 1
  <2>1. 1 \in Int /\ n + 1 \in Int /\ ~(1 > n + 1) /\ (n + 1) - 1 + 1 = n + 1
    BY <1>1
  <2>2. Cardinality(1..(n + 1)) = IF 1 > n + 1 THEN 0 ELSE (n + 1) - 1 + 1
    BY <2>1, FS_Interval
  <2> QED BY <2>1, <2>2
<1>3. I # {}
  <2>1. SUFFICES ASSUME 1..(n + 1) \subseteq DOMAIN m PROVE FALSE
    OBVIOUS
  <2>2. Cardinality(1..(n + 1)) <= Cardinality(DOMAIN m)
    BY <1>1, <2>1, FS_Subset
  <2>3. n + 1 <= n
    BY <1>2, <2>2 DEF n
  <2> QED BY <1>1, <2>3
<1>4. Min(I) \in I
  <2>1. I \in SUBSET (1..(n + 1)) /\ n + 1 \in Nat
    BY <1>1
  <2> HIDE DEF I
  <2> QED BY <1>3, <2>1, MinOfPositions
<1>5. Fresh(m) = Min(I)
  BY DEF Fresh, n
<1> QED BY <1>1, <1>4, <1>5

(* A new array is none of those there.                                     *)
LEMMA AllocatedProperties ==
  ASSUME NEW m \in Memories, NEW s \in Entries
  PROVE  LET g == Allocated(m, s)
         IN /\ g.mem \in Memories /\ g.arr \in Nat
            /\ \A x \in DOMAIN m : x \in DOMAIN g.mem /\ g.mem[x] = m[x] /\ x # g.arr
            /\ s = <<>> => g.arr = 0
            /\ s # <<>> => g.arr # 0 /\ g.arr \in DOMAIN g.mem /\ g.mem[g.arr] = s
<1> DEFINE g == Allocated(m, s)
           a == Fresh(m)
           w == [x \in DOMAIN m \cup {a} |-> IF x = a THEN s ELSE m[x]]
<1>1. DOMAIN m \subseteq Nat \ {0} /\ IsFiniteSet(DOMAIN m) /\ m \in [DOMAIN m -> Entries]
  BY MemoryIs
<1>2. CASE s = <<>>
  <2>1. g = [mem |-> m, arr |-> 0]
    BY <1>2 DEF Allocated
  <2> HIDE DEF g
  <2>2. g.mem = m /\ g.arr = 0
    BY <2>1
  <2> QED BY <1>1, <1>2, <2>2 DEF g
<1>3. CASE s # <<>>
  <2>1. a \in Nat \ {0} /\ a \notin DOMAIN m
    BY FreshAddress
  <2>2. g = [mem |-> w, arr |-> a]
    BY <1>3 DEF Allocated
  <2> HIDE DEF a
  <2>3. DOMAIN w \subseteq Nat \ {0} /\ IsFiniteSet(DOMAIN w) /\ w \in [DOMAIN w -> Entries]
    <3>1. IsFiniteSet(DOMAIN m \cup {a})
      BY <1>1, FS_AddElement
    <3> QED BY <1>1, <2>1, <3>1
  <2>4. w \in Memories
    <3> HIDE DEF w
    <3> QED BY <2>3, MemoryIs
  <2>5. /\ \A x \in DOMAIN m : x \in DOMAIN w /\ w[x] = m[x] /\ x # a
        /\ a \in DOMAIN w /\ w[a] = s
    BY <2>1
  <2> HIDE DEF w, g
  <2>6. g.mem = w /\ g.arr = a
    BY <2>2
  <2> QED BY <1>3, <2>1, <2>4, <2>5, <2>6 DEF g
<1> QED BY <1>2, <1>3

(* What was joined can be cut off again. *)
LEMMA CutJoined ==
  ASSUME NEW s \in Entries, NEW t \in Entries
  PROVE  /\ SubSeq(s \o t, 1, Len(s)) = s /\ s \o t \in Entries
         /\ Len(s \o t) = Len(s) + Len(t)
<1> DEFINE c == s \o t
           p == SubSeq(c, 1, Len(s))
<1>1. /\ c \in Seq(Attribute) /\ Len(c) = Len(s) + Len(t)
      /\ Len(s) \in Nat /\ Len(t) \in Nat /\ s \in Seq(Attribute)
      /\ \A i \in 1..Len(s) : c[i] = s[i]
  BY JoinEntries DEF Entries
<1> HIDE DEF c
<1>2. Len(s) \in 0..Len(c)
  BY <1>1
<1>3. p \in Seq(Attribute) /\ Len(p) = Len(s) /\ \A i \in 1..Len(s) : p[i] = c[i]
  BY <1>1, <1>2, CutEntries
<1> HIDE DEF p
<1>4. p = s
  BY <1>1, <1>3, SeqEqual
<1> QED BY <1>1, <1>4 DEF p, c, Entries

(* An array of the memory is written. *)
LEMMA WrittenMemory ==
  ASSUME NEW m \in Memories, NEW a \in DOMAIN m, NEW s \in Entries
  PROVE  /\ [m EXCEPT ![a] = s] \in Memories
         /\ DOMAIN [m EXCEPT ![a] = s] = DOMAIN m /\ [m EXCEPT ![a] = s][a] = s
         /\ \A x \in DOMAIN m : x # a => [m EXCEPT ![a] = s][x] = m[x]
<1> DEFINE w == [m EXCEPT ![a] = s]
<1>1. DOMAIN m \subseteq Nat \ {0} /\ IsFiniteSet(DOMAIN m) /\ m \in [DOMAIN m -> Entries]
  BY MemoryIs
<1>2. /\ DOMAIN w = DOMAIN m /\ w \in [DOMAIN m -> Entries] /\ w[a] = s
      /\ \A x \in DOMAIN m : x # a => w[x] = m[x]
  BY <1>1
<1> HIDE DEF w
<1>3. w \in Memories
  BY <1>1, <1>2, MemoryIs
<1> QED BY <1>2, <1>3 DEF w

(* g.mem is m with back and more at g.arr; no other array is changed.      *)
IsGrown(g, m, r, back, more) ==
  /\ g.mem \in Memories /\ g.arr \in Nat
  /\ g.arr = 0 => back \o more = <<>>
  /\ g.arr # 0 => /\ g.arr \in DOMAIN g.mem
                  /\ r.len + Len(more) <= Len(g.mem[g.arr])
                  /\ SubSeq(g.mem[g.arr], 1, r.len + Len(more)) = back \o more
  /\ \A x \in DOMAIN m : x # r.arr => x \in DOMAIN g.mem /\ g.mem[x] = m[x] /\ x # g.arr

(* Whichever way the array takes, as slices.Grow decides.                  *)
LEMMA GrownProperties ==
  ASSUME NEW m \in Memories, NEW r \in RecordType, InMemory(m, r),
         NEW back \in Entries, Len(back) = r.len, NEW more \in Entries, NEW moves \in BOOLEAN
  PROVE  IsGrown(Grown(m, r, back, more, moves), m, r, back, more)
<1> DEFINE g == Grown(m, r, back, more, moves)
           rest == SubSeq(m[r.arr], r.len + 1, Len(m[r.arr]))
           written == IF r.arr = 0 THEN m ELSE [m EXCEPT ![r.arr] = back \o rest]
           all == back \o more
<1>1. /\ r.arr \in Nat /\ r.len \in Nat /\ Len(back) \in Nat /\ Len(more) \in Nat
      /\ DOMAIN m \subseteq Nat \ {0}
  BY EntryTypes, MemoryIs DEF RecordType
<1>2. all \in Entries /\ Len(all) = r.len + Len(more) /\ SubSeq(all, 1, Len(all)) = all
  <2>1. all \in Entries /\ Len(all) = r.len + Len(more)
    BY CutJoined
  <2> HIDE DEF all
  <2> QED BY <2>1, CutNothing DEF Entries
<1>3. ASSUME r.arr # 0
      PROVE  rest \in Entries /\ r.arr \in DOMAIN m
  <2>1. r.arr \in DOMAIN m /\ r.len \in 0..Len(m[r.arr]) /\ m[r.arr] \in Entries
    <3>1. r.arr \in DOMAIN m /\ r.len <= Len(m[r.arr]) /\ m[r.arr] \in Entries
      BY <1>3, MemoryIs DEF InMemory
    <3> QED BY <1>1, <3>1, EntryTypes
  <2> QED BY <2>1, CutEntries DEF Entries
<1>4. /\ written \in Memories /\ DOMAIN written = DOMAIN m
      /\ \A x \in DOMAIN m : x # r.arr => written[x] = m[x]
      /\ r.arr # 0 => /\ r.arr \in DOMAIN written
                      /\ written[r.arr] = back \o rest
  <2>1. CASE r.arr = 0
    BY <2>1
  <2>2. CASE r.arr # 0
    <3>1. rest \in Entries /\ r.arr \in DOMAIN m
      BY <1>3, <2>2
    <3> HIDE DEF rest
    <3>2. back \o rest \in Entries
      BY <3>1, CutJoined
    <3>3. written = [m EXCEPT ![r.arr] = back \o rest]
      BY <2>2
    <3> HIDE DEF written
    <3> DEFINE s == back \o rest
    <3>4. s \in Entries
      BY <3>2
    <3> HIDE DEF s
    <3>5. /\ [m EXCEPT ![r.arr] = s] \in Memories
          /\ DOMAIN [m EXCEPT ![r.arr] = s] = DOMAIN m /\ [m EXCEPT ![r.arr] = s][r.arr] = s
          /\ \A x \in DOMAIN m : x # r.arr => [m EXCEPT ![r.arr] = s][x] = m[x]
      BY <3>1, <3>4, WrittenMemory
    <3>6. written = [m EXCEPT ![r.arr] = s]
      BY <3>3 DEF s
    <3>7. /\ written \in Memories /\ DOMAIN written = DOMAIN m /\ written[r.arr] = s
          /\ \A x \in DOMAIN m : x # r.arr => written[x] = m[x]
      BY <3>5, <3>6
    <3> QED BY <3>1, <3>7 DEF s
  <2> QED BY <2>1, <2>2
<1>5. r.arr # 0 => /\ SubSeq(written[r.arr], 1, r.len) = back
                   /\ r.len <= Len(written[r.arr])
  <2> SUFFICES ASSUME r.arr # 0
               PROVE  SubSeq(written[r.arr], 1, r.len) = back /\ r.len <= Len(written[r.arr])
    OBVIOUS
  <2>1. rest \in Entries /\ written[r.arr] = back \o rest
    BY <1>3, <1>4
  <2> HIDE DEF rest, written
  <2>2. /\ SubSeq(back \o rest, 1, Len(back)) = back /\ Len(back \o rest) = Len(back) + Len(rest)
        /\ Len(rest) \in Nat
    BY <2>1, CutJoined, EntryTypes
  <2> QED BY <1>1, <2>1, <2>2
<1>6. g = IF more = <<>> THEN [mem |-> written, arr |-> r.arr]
          ELSE IF r.arr = 0 \/ moves THEN Allocated(written, all)
          ELSE [mem |-> [written EXCEPT ![r.arr] = all], arr |-> r.arr]
  BY DEF Grown
<1> HIDE DEF g, written
<1> DEFINE Goal ==
             /\ g.mem \in Memories /\ g.arr \in Nat
             /\ g.arr = 0 => all = <<>>
             /\ g.arr # 0 => /\ g.arr \in DOMAIN g.mem
                             /\ r.len + Len(more) <= Len(g.mem[g.arr])
                             /\ SubSeq(g.mem[g.arr], 1, r.len + Len(more)) = all
             /\ \A x \in DOMAIN m : x # r.arr => x \in DOMAIN g.mem /\ g.mem[x] = m[x] /\ x # g.arr
<1>7. ASSUME more = <<>> PROVE Goal
  <2>1. g.mem = written /\ g.arr = r.arr
    BY <1>6, <1>7
  <2>2. all = back /\ Len(more) = 0
    <3>1. SubSeq(back \o more, 1, Len(back)) = back /\ Len(more) = 0
      BY <1>7, CutJoined
    <3>2. Len(all) = Len(back)
      BY <1>1, <1>2, <3>1
    <3> QED BY <1>2, <3>1, <3>2
  <2>3. r.arr = 0 => all = <<>>
    <3> SUFFICES ASSUME r.arr = 0 PROVE back = <<>>
      BY <2>2
    <3>1. Len(back) = 0
      BY DEF InMemory
    <3> QED BY <3>1, EmptySeq DEF Entries
  <2> HIDE DEF all
  <2>4. r.len + Len(more) = r.len
    BY <1>1, <2>2
  <2>5. g.mem \in Memories /\ g.arr \in Nat /\ (g.arr = 0 => all = <<>>)
    BY <1>1, <1>4, <2>1, <2>3
  <2>6. ASSUME g.arr # 0
        PROVE  /\ g.arr \in DOMAIN g.mem
               /\ r.len + Len(more) <= Len(g.mem[g.arr])
               /\ SubSeq(g.mem[g.arr], 1, r.len + Len(more)) = all
    BY <1>4, <1>5, <2>1, <2>2, <2>4, <2>6
  <2>7. \A x \in DOMAIN m : x # r.arr => x \in DOMAIN g.mem /\ g.mem[x] = m[x] /\ x # g.arr
    BY <1>4, <2>1
  <2> QED BY <2>5, <2>6, <2>7
<1>8. ASSUME more # <<>>, r.arr = 0 \/ moves PROVE Goal
  <2>1. g = Allocated(written, all)
    BY <1>6, <1>8
  <2>2. all # <<>>
    <3>1. Len(more) > 0
      <4>1. Len(more) # 0
        BY <1>8, EmptySeq DEF Entries
      <4> QED BY <1>1, <4>1
    <3>2. Len(all) > 0
      BY <1>1, <1>2, <3>1
    <3> QED BY <3>2
  <2> HIDE DEF all
  <2>3. /\ g.mem \in Memories /\ g.arr \in Nat
        /\ \A x \in DOMAIN written : x \in DOMAIN g.mem /\ g.mem[x] = written[x] /\ x # g.arr
        /\ g.arr # 0 /\ g.arr \in DOMAIN g.mem /\ g.mem[g.arr] = all
    BY <1>2, <1>4, <2>1, <2>2, AllocatedProperties
  <2>4. /\ r.len + Len(more) <= Len(g.mem[g.arr])
        /\ SubSeq(g.mem[g.arr], 1, r.len + Len(more)) = all
    BY <1>1, <1>2, <2>3
  <2>5. \A x \in DOMAIN m : x # r.arr => x \in DOMAIN g.mem /\ g.mem[x] = m[x] /\ x # g.arr
    BY <1>4, <2>3
  <2> QED BY <2>3, <2>4, <2>5
<1>9. ASSUME more # <<>>, ~(r.arr = 0 \/ moves) PROVE Goal
  <2> DEFINE w == [written EXCEPT ![r.arr] = all]
  <2>1. g.mem = w /\ g.arr = r.arr /\ r.arr # 0
    BY <1>6, <1>9
  <2> HIDE DEF all
  <2>2. /\ w \in Memories /\ DOMAIN w = DOMAIN written /\ w[r.arr] = all
        /\ \A x \in DOMAIN written : x # r.arr => w[x] = written[x]
    BY <1>2, <1>4, <2>1, WrittenMemory
  <2> HIDE DEF w
  <2>3. g.mem[g.arr] = all /\ g.arr \in DOMAIN g.mem
    BY <1>4, <2>1, <2>2
  <2>4. /\ r.len + Len(more) <= Len(g.mem[g.arr])
        /\ SubSeq(g.mem[g.arr], 1, r.len + Len(more)) = all
    BY <1>1, <1>2, <2>3
  <2>5. \A x \in DOMAIN m : x # r.arr => x \in DOMAIN g.mem /\ g.mem[x] = m[x] /\ x # g.arr
    BY <1>4, <2>1, <2>2
  <2> QED BY <1>1, <2>1, <2>2, <2>3, <2>4, <2>5
<1>10. Goal
  BY <1>7, <1>8, <1>9
<1> HIDE DEF all
<1>11. /\ g.mem \in Memories /\ g.arr \in Nat
       /\ g.arr = 0 => all = <<>>
       /\ g.arr # 0 => /\ g.arr \in DOMAIN g.mem
                       /\ r.len + Len(more) <= Len(g.mem[g.arr])
                       /\ SubSeq(g.mem[g.arr], 1, r.len + Len(more)) = all
  BY <1>10
<1>12. \A x \in DOMAIN m : x # r.arr => x \in DOMAIN g.mem /\ g.mem[x] = m[x] /\ x # g.arr
  BY <1>10
<1> QED BY <1>11, <1>12 DEF g, all, IsGrown

-----------------------------------------------------------------------------
(* Records that are as the methods leave them. *)

WellFormed(m, r) ==
  /\ InMemory(m, r)
  /\ Len(r.front) <= Inline
  /\ Distinct(r.front) /\ Distinct(Back(m, r)) /\ KeysIn(r.front) \cap KeysIn(Back(m, r)) = {}
  /\ CountLimit > 0 => Len(r.front) + r.len <= CountLimit
  /\ Len(r.front) + r.len = 0 => r.dropped = 0

Heaps == {h \in [mem : Memories, rec : RecordType] : WellFormed(h.mem, h.rec)}

MapIn(m, r) == MapOf(r.front \o Back(m, r))

(* What LogAttributes sees of a record. *)
Shown(h) == [attrs |-> MapIn(h.mem, h.rec), dropped |-> h.rec.dropped]

(* No array of m is the record's in h, nor any changed, but the record's.  *)
Leaves(m, arr, h) ==
  \A x \in DOMAIN m : x # arr => x \in DOMAIN h.mem /\ h.mem[x] = m[x] /\ x # h.rec.arr

(* A record has as many keys as attributes.                                *)
LEMMA MapInProperties ==
  ASSUME NEW h \in Heaps
  PROVE  /\ IsFiniteSet(DOMAIN MapIn(h.mem, h.rec))
         /\ Cardinality(DOMAIN MapIn(h.mem, h.rec)) = Len(h.rec.front) + h.rec.len
         /\ Cardinality(DOMAIN MapIn(h.mem, h.rec)) = Len(h.rec.front \o Back(h.mem, h.rec))
         /\ DOMAIN MapIn(h.mem, h.rec) = KeysIn(h.rec.front) \cup KeysIn(Back(h.mem, h.rec))
         /\ CountLimit > 0 => Cardinality(DOMAIN MapIn(h.mem, h.rec)) <= CountLimit
<1> DEFINE f == h.rec.front
           b == Back(h.mem, h.rec)
           s == f \o b
<1>1. /\ f \in Entries /\ b \in Entries /\ Len(b) = h.rec.len /\ WellFormed(h.mem, h.rec)
  BY BackProperties DEF Heaps, WellFormed, RecordType
<1>2. Distinct(f) /\ Distinct(b) /\ KeysIn(f) \cap KeysIn(b) = {}
      /\ (CountLimit > 0 => Len(f) + Len(b) <= CountLimit)
  BY <1>1 DEF WellFormed
<1>3. MapIn(h.mem, h.rec) = MapOf(s)
  BY DEF MapIn
<1> HIDE DEF f, b
<1>4. s \in Entries /\ Distinct(s) /\ Len(s) = Len(f) + Len(b) /\ KeysIn(s) = KeysIn(f) \cup KeysIn(b)
  BY <1>1, <1>2, MapOfJoin
<1> HIDE DEF s
<1>5. DOMAIN MapOf(s) = KeysIn(s) /\ IsFiniteSet(KeysIn(s)) /\ Cardinality(KeysIn(s)) = Len(s)
  BY <1>4, MapProperties
<1> QED BY <1>1, <1>2, <1>3, <1>4, <1>5 DEF f, b, s

(* Nothing is dropped from the values of no attributes, and of others not  *)
(* less than nothing.                                                      *)
LEMMA NestedNat ==
  ASSUME NEW s \in Entries
  PROVE  Nested(s) \in Nat /\ (s = <<>> => Nested(s) = 0)
<1> DEFINE f == [i \in DOMAIN s |-> NestedDrops(s[i].val)]
<1>1. DOMAIN s = 1..Len(s) /\ Len(s) \in Nat /\ IsFiniteSet(1..Len(s))
  BY EntryTypes, FS_Interval
<1>2. \A i \in DOMAIN s : f[i] \in Nat
  BY DEF NestedDrops
<1>3. Nested(s) = SumFunction(f)
  BY DEF Nested
<1>4. DOMAIN f = DOMAIN s /\ (s = <<>> => DOMAIN s = {})
  OBVIOUS
<1> HIDE DEF f
<1>5. Nested(s) = SumFunctionOnSet(f, DOMAIN s)
  BY <1>3, <1>4 DEF SumFunction, SumFunctionOnSet, FoldFunction, FoldFunctionOnSet
<1>6. SumFunctionOnSet(f, DOMAIN s) \in Nat /\ SumFunctionOnSet(f, {}) = 0
  BY <1>1, <1>2, SumSplit
<1> QED BY <1>4, <1>5, <1>6

LEMMA MinOfTwo ==
  ASSUME NEW a \in Int, NEW b \in Int
  PROVE  Min({a, b}) = IF a <= b THEN a ELSE b
<1> DEFINE S == {a, b}
           l == IF a <= b THEN a ELSE b
<1>1. l \in S /\ l \in Int /\ \A x \in S : x \in Int /\ l <= x
  OBVIOUS
<1> HIDE DEF S, l
<1>2. \E x \in S : \A y \in S : x <= y
  BY <1>1
<1>3. Min(S) \in S /\ \A y \in S : Min(S) <= y
  BY <1>2 DEF Min
<1>4. Min(S) \in Int /\ l <= Min(S) /\ Min(S) <= l
  BY <1>1, <1>3
<1>5. Min(S) = l
  BY <1>1, <1>4
<1> QED BY <1>5 DEF S, l

(* The two parts that the attributes that fit are shared out to.           *)
LEMMA SharedOut ==
  ASSUME NEW fit \in Entries, NEW inline \in Nat
  PROVE  LET n == Min({inline, Len(fit)})
         IN /\ n \in 0..Len(fit) /\ n <= inline
            /\ SubSeq(fit, inline + 1, Len(fit)) = SubSeq(fit, n + 1, Len(fit))
<1> DEFINE n == Min({inline, Len(fit)})
<1>1. Len(fit) \in Nat
  BY EntryTypes
<1>2. n = IF inline <= Len(fit) THEN inline ELSE Len(fit)
  BY <1>1, MinOfTwo
<1> HIDE DEF n
<1>3. n \in 0..Len(fit) /\ n <= inline
  BY <1>1, <1>2
<1>4. SubSeq(fit, inline + 1, Len(fit)) = SubSeq(fit, n + 1, Len(fit))
  <2>1. CASE inline <= Len(fit)
    BY <1>2, <2>1
  <2>2. CASE ~(inline <= Len(fit))
    <3>1. SubSeq(fit, Len(fit) + 1, Len(fit)) = <<>>
      BY CutAll DEF Entries
    <3>2. SubSeq(fit, inline + 1, Len(fit)) = <<>>
      <4>1. SubSeq(fit, inline + 1, Len(fit)) = [i \in 1..0 |-> fit[inline + 1 + i - 1]]
        BY <1>1, <2>2 DEF Entries
      <4>2. Len(SubSeq(fit, inline + 1, Len(fit))) = 0 /\ SubSeq(fit, inline + 1, Len(fit)) \in Seq(Attribute)
        BY <1>1, <2>2 DEF Entries
      <4> QED BY <4>2, EmptySeq
    <3> QED BY <1>2, <2>2, <3>1, <3>2
  <2> QED BY <2>1, <2>2
<1> QED BY <1>3, <1>4 DEF n

(* Attributes are added to a record as LogAttributes says, whether or not  *)
(* its back moves, and other arrays are left.                              *)
LEMMA AddToProperties ==
  ASSUME NEW h \in Heaps, NEW kvs \in Entries, NEW moves \in BOOLEAN
  PROVE  LET g == AddTo(h, kvs, moves)
         IN /\ g \in Heaps
            /\ Leaves(h.mem, h.rec.arr, g)
            /\ Abstract!Added(MapIn(h.mem, h.rec), h.rec.dropped, kvs) = Shown(g)
<1> DEFINE r == h.rec
           F == r.front
           B == Back(h.mem, r)
           d == r.dropped
           n == Len(F) + r.len
           D == KeysIn(F) \cup KeysIn(B)
<1>1. /\ h.mem \in Memories /\ r \in RecordType /\ InMemory(h.mem, r)
      /\ F \in Entries /\ B \in Entries /\ Len(B) = r.len /\ d \in Nat
      /\ Distinct(F) /\ Distinct(B) /\ KeysIn(F) \cap KeysIn(B) = {}
      /\ Len(F) <= Inline /\ (CountLimit > 0 => n <= CountLimit) /\ (n = 0 => d = 0)
      /\ r.arr \in Nat /\ r.len \in Nat /\ Len(F) \in Nat /\ n \in Nat
      /\ Inline - Len(F) \in Nat
  <2>1. /\ h.mem \in Memories /\ r \in RecordType /\ WellFormed(h.mem, r)
    BY DEF Heaps
  <2>2. F \in Entries /\ d \in Nat /\ r.arr \in Nat /\ r.len \in Nat
    BY <2>1 DEF RecordType
  <2>3. B \in Entries /\ Len(B) = r.len
    BY <2>1, BackProperties DEF WellFormed
  <2>4. Len(F) \in Nat
    BY <2>2, EntryTypes
  <2> HIDE DEF r
  <2> QED BY <2>1, <2>2, <2>3, <2>4, LimitsAssumption DEF WellFormed
<1> DEFINE s == Merged(F, B, IF n = 0 THEN 0 ELSE d, kvs)
           fit == Fitting(s.unique, n)
           inline == Inline - Len(F)
           k == Min({inline, Len(fit)})
           x == Limits(SubSeq(fit, 1, k))
           more == Limits(SubSeq(fit, inline + 1, Len(fit)))
           grown == Grown(h.mem, r, s.back, more, moves)
           to == [front |-> s.front \o x, arr |-> grown.arr, len |-> r.len + Len(more),
                  dropped |-> s.dropped + Len(s.unique) - Len(fit) + Nested(fit)]
           g == AddTo(h, kvs, moves)
<1>2. g = [mem |-> grown.mem, rec |-> to]
  BY DEF AddTo
<1>3. MapIn(h.mem, r) = MapOf(F \o B)
  BY DEF MapIn
<1>4. /\ IsFiniteSet(DOMAIN MapIn(h.mem, r)) /\ Cardinality(DOMAIN MapIn(h.mem, r)) = n
      /\ DOMAIN MapIn(h.mem, r) = D /\ (CountLimit > 0 => Cardinality(DOMAIN MapIn(h.mem, r)) <= CountLimit)
  BY MapInProperties
<1>5. (IF n = 0 THEN 0 ELSE d) = d
  BY <1>1
<1> HIDE DEF r, F, B, d, n, g
<1>6. /\ Kept(F, s.front, kvs, Len(kvs)) /\ Kept(B, s.back, kvs, Len(kvs))
      /\ Collected(s.unique, D, kvs, Len(kvs))
      /\ s \in Merging /\ s.dropped = d + Len(kvs) - Len(s.unique)
      /\ KeysIn(s.front) = KeysIn(F) /\ KeysIn(s.back) = KeysIn(B)
  <2>1. F \in Entries /\ B \in Entries /\ Distinct(F) /\ Distinct(B) /\ KeysIn(F) \cap KeysIn(B) = {} /\ d \in Nat
    BY <1>1
  <2>2. s = Merged(F, B, d, kvs)
    BY <1>5
  <2> HIDE DEF s
  <2>3. IsMerged(s, F, B, d, kvs)
    BY <2>1, <2>2, MergedProperties
  <2> QED BY <2>3 DEF IsMerged
<1> HIDE DEF s
<1>7. s.unique \in Entries /\ Len(s.unique) \in Nat /\ Distinct(s.unique) /\ KeysIn(s.unique) \cap D = {}
      /\ Len(kvs) \in Nat /\ s.back \in Entries /\ Len(s.back) = r.len
  <2>1. s.unique \in Entries /\ Distinct(s.unique) /\ KeysIn(s.unique) \cap D = {} /\ s.back \in Entries
    BY <1>6 DEF Collected, Kept
  <2>2. Len(s.back) = r.len
    BY <1>1, <1>6 DEF Kept
  <2> QED BY <2>1, <2>2, EntryTypes
<1>8. /\ fit \in Entries /\ Len(fit) \in Nat /\ Distinct(fit) /\ Len(fit) <= Len(s.unique)
      /\ KeysIn(fit) \cap D = {}
      /\ CountLimit > 0 => n + Len(fit) <= CountLimit
      /\ CountLimit > 0 /\ n = 0 /\ s.unique # <<>> => Len(fit) > 0
  <2>1. /\ fit \in Entries /\ Distinct(fit) /\ Len(fit) <= Len(s.unique)
        /\ \A i \in 1..Len(fit) : fit[i] = s.unique[i]
        /\ CountLimit > 0 => n + Len(fit) <= CountLimit
        /\ CountLimit > 0 /\ n = 0 /\ s.unique # <<>> => Len(fit) > 0
    BY <1>1, <1>7, FittingProperties
  <2> HIDE DEF fit
  <2>2. Len(fit) \in Nat /\ DOMAIN fit = 1..Len(fit) /\ DOMAIN s.unique = 1..Len(s.unique)
    BY <1>7, <2>1, EntryTypes
  <2>3. KeysIn(fit) \subseteq KeysIn(s.unique)
    <3>1. \A i \in DOMAIN fit : i \in DOMAIN s.unique /\ fit[i] = s.unique[i]
      BY <1>7, <2>1, <2>2
    <3> QED BY <3>1 DEF KeysIn
  <2> QED BY <1>7, <2>1, <2>2, <2>3
<1>9. CountLimit <= 0 => fit = s.unique
  BY LimitsAssumption DEF Fitting
<1>10. Nested(fit) \in Nat /\ (fit = <<>> => Nested(fit) = 0)
  <2> HIDE DEF fit
  <2> QED BY <1>8, NestedNat
<1> HIDE DEF fit
<1>11. /\ k \in 0..Len(fit) /\ k <= inline
       /\ SubSeq(fit, inline + 1, Len(fit)) = SubSeq(fit, k + 1, Len(fit))
  <2> HIDE DEF inline
  <2>1. inline \in Nat
    BY <1>1 DEF inline
  <2> QED BY <1>8, <2>1, SharedOut
<1>12. more = Limits(SubSeq(fit, k + 1, Len(fit)))
  BY <1>11
<1> HIDE DEF k, inline, more
<1>13. /\ x \in Entries /\ more \in Entries /\ Len(x) = k /\ Len(more) = Len(fit) - k
       /\ Distinct(s.front \o x) /\ Distinct(s.back \o more)
       /\ s.front \o x \in Entries /\ s.back \o more \in Entries
       /\ Len(s.front \o x) = Len(F) + k /\ Len(s.back \o more) = Len(B) + (Len(fit) - k)
       /\ KeysIn(s.front \o x) \cap KeysIn(s.back \o more) = {}
       /\ AddedAs(MapOf(F \o B), d, kvs, fit, MapOf((s.front \o x) \o (s.back \o more)),
                  d + Len(kvs) - Len(fit) + Nested(fit))
  <2> DEFINE front2 == s.front
             back2 == s.back
  <2>1. /\ F \in Entries /\ B \in Entries /\ Distinct(F) /\ Distinct(B) /\ KeysIn(F) \cap KeysIn(B) = {}
        /\ Kept(F, front2, kvs, Len(kvs)) /\ Kept(B, back2, kvs, Len(kvs))
        /\ fit \in Entries /\ Distinct(fit) /\ KeysIn(fit) \cap (KeysIn(F) \cup KeysIn(B)) = {}
        /\ k \in 0..Len(fit)
    BY <1>1, <1>6, <1>8, <1>11
  <2> DEFINE q == Limits(SubSeq(fit, k + 1, Len(fit)))
             e == d + Len(kvs) - Len(fit) + Nested(fit)
  <2> HIDE DEF front2, back2, e
  <2>2. AreParts(front2, back2, x, q, F, B, fit, k) /\
        AddedAs(MapOf(F \o B), d, kvs, fit, MapOf((front2 \o x) \o (back2 \o q)), e)
    BY <2>1, PartsAdded DEF e
  <2> HIDE DEF x, q
  <2>3. q = more
    BY <1>12 DEF q
  <2> QED BY <2>2, <2>3 DEF front2, back2, AreParts, e
<1> HIDE DEF x
<1>14. /\ grown.mem \in Memories /\ grown.arr \in Nat
       /\ grown.arr = 0 => s.back \o more = <<>>
       /\ grown.arr # 0 => /\ grown.arr \in DOMAIN grown.mem
                           /\ r.len + Len(more) <= Len(grown.mem[grown.arr])
                           /\ SubSeq(grown.mem[grown.arr], 1, r.len + Len(more)) = s.back \o more
       /\ \A y \in DOMAIN h.mem : y # r.arr => y \in DOMAIN grown.mem /\ grown.mem[y] = h.mem[y] /\ y # grown.arr
  <2> DEFINE m == h.mem
             back == s.back
  <2>1. /\ m \in Memories /\ r \in RecordType /\ InMemory(m, r)
        /\ back \in Entries /\ Len(back) = r.len /\ more \in Entries
    BY <1>1, <1>7, <1>13
  <2>2. grown = Grown(m, r, back, more, moves)
    OBVIOUS
  <2> HIDE DEF m, back, grown
  <2>3. IsGrown(grown, m, r, back, more)
    BY <2>1, <2>2, GrownProperties
  <2> QED BY <2>3 DEF m, back, IsGrown
<1> HIDE DEF grown
<1>15. k \in Nat /\ Len(more) \in Nat /\ r.len + Len(more) = Len(s.back \o more)
       /\ Len(s.front \o x) + (r.len + Len(more)) = n + Len(fit)
  <2>1. /\ Len(B) = r.len /\ Len(x) = k /\ Len(more) = Len(fit) - k /\ Len(s.front \o x) = Len(F) + k
        /\ Len(s.back \o more) = Len(B) + (Len(fit) - k) /\ k \in 0..Len(fit) /\ Len(fit) \in Nat
        /\ Len(F) \in Nat /\ r.len \in Nat /\ n = Len(F) + r.len
    BY <1>1, <1>8, <1>11, <1>13 DEF n
  <2> QED BY <2>1
<1>16. to.dropped = d + Len(kvs) - Len(fit) + Nested(fit) /\ to.dropped \in Nat
  <2>1. to.dropped = d + Len(kvs) - Len(fit) + Nested(fit)
    BY <1>1, <1>6, <1>7, <1>8, <1>10
  <2>2. Len(fit) <= d + Len(kvs)
    <3>1. s.dropped \in Nat
      BY <1>6 DEF Merging
    <3> QED BY <1>1, <1>6, <1>7, <1>8, <3>1
  <2> QED BY <1>1, <1>7, <1>8, <1>10, <2>1, <2>2
<1>17. to \in RecordType
  <2>1. s.front \o x \in Entries /\ grown.arr \in Nat /\ r.len + Len(more) \in Nat
    <3>1. s.front \o x \in Entries /\ grown.arr \in Nat
      BY <1>13, <1>14
    <3>2. r.len \in Nat /\ Len(more) \in Nat
      BY <1>1, <1>15
    <3> QED BY <3>1, <3>2
  <2>2. s.dropped + Len(s.unique) - Len(fit) + Nested(fit) \in Nat
    BY <1>16
  <2> QED BY <2>1, <2>2 DEF RecordType
<1>18. Back(grown.mem, to) = s.back \o more /\ InMemory(grown.mem, to)
  <2>1. CASE grown.arr = 0
    <3>1. s.back \o more = <<>> /\ Len(s.back \o more) = 0
      BY <1>14, <2>1
    <3> QED BY <1>15, <2>1, <3>1 DEF Back, InMemory
  <2>2. CASE grown.arr # 0
    BY <1>14, <2>2 DEF Back, InMemory
  <2> QED BY <2>1, <2>2
<1>19. n + Len(fit) = 0 => to.dropped = 0
  <2> SUFFICES ASSUME n = 0, Len(fit) = 0 PROVE to.dropped = 0
    BY <1>1, <1>8
  <2>1. fit = <<>>
    BY <1>8, EmptySeq DEF Entries
  <2>2. s.unique = <<>>
    BY <1>8, <1>9, <2>1, LimitsAssumption
  <2>3. KeysIn(s.unique) = {} /\ D = {}
    <3>1. KeysIn(s.unique) = {}
      BY <2>2 DEF KeysIn
    <3>2. Len(F) = 0 /\ Len(B) = 0
      BY <1>1 DEF n
    <3>3. F = <<>> /\ B = <<>>
      BY <1>1, <3>2, EmptySeq DEF Entries
    <3>4. KeysIn(F) = {} /\ KeysIn(B) = {}
      BY <3>3 DEF KeysIn
    <3> QED BY <3>1, <3>4
  <2>4. KeysTo(kvs, Len(kvs)) = {}
    <3>1. KeysIn(s.unique) = KeysTo(kvs, Len(kvs)) \ D
      BY <1>6 DEF Collected
    <3> HIDE DEF D
    <3> QED BY <2>3, <3>1
  <2>5. Len(kvs) = 0
    <3>1. ~(1 \in 1..Len(kvs))
      BY <2>4 DEF KeysTo
    <3> QED BY <1>7, <3>1
  <2>6. d = 0
    BY <1>1
  <2> QED BY <1>10, <1>16, <2>1, <2>5, <2>6
<1>20. WellFormed(grown.mem, to)
  <2>1. Len(to.front) <= Inline
    <3>1. Len(to.front) = Len(F) + k /\ k <= inline /\ inline = Inline - Len(F)
      BY <1>11, <1>13 DEF inline
    <3>2. Len(F) \in Nat /\ k \in Nat /\ Inline \in Nat
      BY <1>1, <1>15, LimitsAssumption
    <3> QED BY <3>1, <3>2
  <2>2. CountLimit > 0 => Len(to.front) + to.len <= CountLimit
    BY <1>8, <1>15
  <2>3. Len(to.front) + to.len = 0 => to.dropped = 0
    BY <1>15, <1>19
  <2> QED BY <1>13, <1>18, <2>1, <2>2, <2>3 DEF WellFormed
<1> HIDE DEF to
<1>21. g \in Heaps /\ Leaves(h.mem, h.rec.arr, g)
  <2>1. g.mem = grown.mem /\ g.rec = to
    BY <1>2
  <2>2. g \in Heaps
    BY <1>2, <1>14, <1>17, <1>20 DEF Heaps
  <2>3. to.arr = grown.arr
    BY DEF to
  <2>4. Leaves(h.mem, h.rec.arr, g)
    BY <1>14, <2>1, <2>3 DEF Leaves, r
  <2> QED BY <2>2, <2>4
<1>22. Shown(g) = [attrs |-> MapOf((s.front \o x) \o (s.back \o more)), dropped |-> to.dropped]
  <2>1. to.front = s.front \o x
    BY DEF to
  <2> QED BY <1>2, <1>18, <2>1 DEF Shown, MapIn
<1>23. Abstract!Added(MapIn(h.mem, r), d, kvs) = Shown(g)
  <2> DEFINE m == MapIn(h.mem, r)
             to2 == MapOf((s.front \o x) \o (s.back \o more))
  <2>1. /\ IsFiniteSet(DOMAIN m) /\ (CountLimit > 0 => Cardinality(DOMAIN m) <= CountLimit)
        /\ Collected(s.unique, DOMAIN m, kvs, Len(kvs))
        /\ AddedAs(m, d, kvs, Fitting(s.unique, Cardinality(DOMAIN m)), to2, to.dropped)
    <3>1. AddedAs(m, d, kvs, fit, to2, to.dropped)
      BY <1>3, <1>13, <1>16
    <3>2. fit = Fitting(s.unique, Cardinality(DOMAIN m))
      BY <1>4 DEF fit
    <3>3. Collected(s.unique, DOMAIN m, kvs, Len(kvs))
      BY <1>4, <1>6
    <3> QED BY <1>4, <3>1, <3>2, <3>3
  <2> DEFINE e == to.dropped
             u == s.unique
  <2> HIDE DEF m, to2
  <2>2. Abstract!Added(m, d, kvs) = [attrs |-> to2, dropped |-> e]
    <3>1. d \in Nat
      BY <1>1
    <3>2. /\ IsFiniteSet(DOMAIN m) /\ (CountLimit > 0 => Cardinality(DOMAIN m) <= CountLimit)
          /\ Collected(u, DOMAIN m, kvs, Len(kvs))
          /\ AddedAs(m, d, kvs, Fitting(u, Cardinality(DOMAIN m)), to2, e)
      BY <2>1
    <3> HIDE DEF e, u
    <3> QED BY <3>1, <3>2, AddedIs
  <2> QED BY <1>22, <2>2 DEF m, to2
<1> QED BY <1>21, <1>23 DEF g, r, d

-----------------------------------------------------------------------------
(* The attributes of an emitted record, which are added one by one. *)

LEMMA NothingIsEmpty ==
  /\ <<>> \in Entries /\ Len(<<>>) = 0 /\ Distinct(<<>>) /\ KeysIn(<<>>) = {}
  /\ <<>> \o <<>> = <<>> /\ MapOf(<<>>) = <<>>
<1>1. <<>> \in Entries /\ Len(<<>>) = 0 /\ Distinct(<<>>) /\ KeysIn(<<>>) = {}
  BY DEF Entries, Distinct, KeysIn
<1>2. <<>> \o <<>> = <<>>
  OBVIOUS
<1>3. MapOf(<<>>) = <<>>
  <2> DEFINE f == MapOf(<<>>)
  <2>1. DOMAIN f = 1..0 /\ f = [k \in 1..0 |-> f[k]]
    BY <1>1 DEF MapOf
  <2> HIDE DEF f
  <2>2. f \in [1..0 -> Attribute]
    BY <2>1
  <2>3. f \in Seq(Attribute) /\ Len(f) = 0
    BY <2>1, <2>2
  <2>4. f = <<>>
    BY <2>3, EmptySeq
  <2> QED BY <2>4 DEF f
<1> QED BY <1>1, <1>2, <1>3

(* A new record has no attributes.                                         *)
LEMMA ZeroedIsHeap ==
  ASSUME NEW m \in Memories
  PROVE  LET h == [mem |-> m, rec |-> NewRecord]
         IN h \in Heaps /\ Shown(h) = [attrs |-> <<>>, dropped |-> 0]
<1> DEFINE h == [mem |-> m, rec |-> NewRecord]
<1>1. /\ NewRecord.front = <<>> /\ NewRecord.arr = 0 /\ NewRecord.len = 0 /\ NewRecord.dropped = 0
      /\ NewRecord \in RecordType
  BY NothingIsEmpty DEF NewRecord, RecordType
<1>2. Back(m, NewRecord) = <<>> /\ InMemory(m, NewRecord)
  BY <1>1 DEF Back, InMemory
<1>3. WellFormed(m, NewRecord)
  BY <1>1, <1>2, NothingIsEmpty, LimitsAssumption DEF WellFormed
<1>4. h \in Heaps
  BY <1>1, <1>3 DEF Heaps
<1>5. MapIn(m, NewRecord) = <<>>
  BY <1>1, <1>2, NothingIsEmpty DEF MapIn
<1>6. Shown(h) = [attrs |-> <<>>, dropped |-> 0]
  BY <1>1, <1>5 DEF Shown
<1> QED BY <1>4, <1>6

(* One attribute is added. *)
AddOne == [p \in Heaps \X Attribute |-> AddTo(p[1], <<p[2]>>, TRUE)]

LEMMA AddOneProperties ==
  ASSUME NEW h \in Heaps, NEW a \in Attribute
  PROVE  LET g == AddOne[<<h, a>>]
         IN /\ g = AddTo(h, <<a>>, TRUE) /\ g \in Heaps
            /\ Leaves(h.mem, h.rec.arr, g)
            /\ Abstract!Added(Shown(h).attrs, Shown(h).dropped, <<a>>) = Shown(g)
<1>1. <<a>> \in Entries
  BY DEF Entries
<1>2. AddOne[<<h, a>>] = AddTo(h, <<a>>, TRUE)
  BY DEF AddOne
<1>3. Shown(h).attrs = MapIn(h.mem, h.rec) /\ Shown(h).dropped = h.rec.dropped
  BY DEF Shown
<1> DEFINE s == <<a>>
           g == AddTo(h, s, TRUE)
<1> HIDE DEF s
<1>4. /\ g \in Heaps /\ Leaves(h.mem, h.rec.arr, g)
      /\ Abstract!Added(MapIn(h.mem, h.rec), h.rec.dropped, s) = Shown(g)
  BY <1>1, AddToProperties DEF s
<1> QED BY <1>2, <1>3, <1>4 DEF s

(* The rounds of newRecord.                                                *)
LEMMA EmitRounds ==
  ASSUME NEW s \in Entries, NEW base \in Heaps
  PROVE  \E g : Rounds(Heaps, base, AddOne, s, FoldLeft(LAMBDA h, a : AddTo(h, <<a>>, TRUE), base, s), g)
<1> DEFINE Obeys(it) == it = [t \in SUBSET DOMAIN s |->
             IF t = {} THEN base ELSE AddTo(it[t \ {Max(t)}], <<s[Max(t)]>>, TRUE)]
           it == CHOOSE f : Obeys(f)
<1>1. /\ Len(s) \in Nat /\ s \in Seq(Attribute)
      /\ \A t \in SUBSET DOMAIN s : t # {} => s[Max(t)] \in Attribute
  <2>1. Len(s) \in Nat /\ DOMAIN s = 1..Len(s) /\ s \in Seq(Attribute)
        /\ \A i \in 1..Len(s) : s[i] \in Attribute
    BY EntryTypes
  <2> HIDE DEF it, Obeys
  <2> QED BY <2>1, MaxOfPositions
<1>2. AddOne \in [Heaps \X Attribute -> Heaps]
  <2>1. \A h \in Heaps, a \in Attribute : AddTo(h, <<a>>, TRUE) \in Heaps
    BY AddOneProperties
  <2> QED BY <2>1 DEF AddOne
<1>3. \A h \in Heaps, a \in Attribute : AddOne[<<h, a>>] = AddTo(h, <<a>>, TRUE)
  BY DEF AddOne
<1>4. FoldLeft(LAMBDA h, a : AddTo(h, <<a>>, TRUE), base, s) = it[DOMAIN s]
  BY DEF FoldLeft, MapThenFoldSet
<1> HIDE DEF it
<1>5. \E f : Obeys(f)
  <2> HIDE DEF Obeys
  <2>1. PICK f : Folds(Heaps, base, AddOne, s, f)
    BY <1>1, <1>2, FoldExists
  <2>2. ASSUME NEW t \in SUBSET DOMAIN s, t # {}
        PROVE  f[t] = AddTo(f[t \ {Max(t)}], <<s[Max(t)]>>, TRUE)
    <3>1. f[t \ {Max(t)}] \in Heaps
      BY <2>1 DEF Folds
    <3> QED BY <1>1, <1>3, <2>1, <2>2, <3>1 DEF Folds
  <2>3. Obeys(f)
    BY <2>1, <2>2 DEF Folds, Obeys
  <2> QED BY <2>3
<1>6. Obeys(it)
  <2> HIDE DEF Obeys
  <2> QED BY <1>5 DEF it
<1>7. it[{}] = base
  BY <1>6
<1>8. ASSUME NEW t \in SUBSET DOMAIN s, t # {}, it[t \ {Max(t)}] \in Heaps
      PROVE  it[t] = AddOne[<<it[t \ {Max(t)}], s[Max(t)]>>]
  BY <1>1, <1>3, <1>6, <1>8
<1> HIDE DEF Obeys
<1>9. \E g : Rounds(Heaps, base, AddOne, s, it[DOMAIN s], g)
  BY <1>1, <1>2, <1>7, <1>8, FoldRounds
<1> QED BY <1>4, <1>9

(* The same in LogAttributes. *)
States == {Shown(h) : h \in Heaps}

AddOneThere == [p \in States \X Attribute |-> Abstract!Added(p[1].attrs, p[1].dropped, <<p[2]>>)]

LEMMA EmitRoundsThere ==
  ASSUME NEW s \in Entries, NEW base \in States
  PROVE  \E g : Rounds(States, base, AddOneThere, s,
                       Abstract!FoldLeft(LAMBDA r, a : Abstract!Added(r.attrs, r.dropped, <<a>>), base, s), g)
<1> DEFINE Next1(r, a) == Abstract!Added(r.attrs, r.dropped, <<a>>)
           Obeys(it) == it = [t \in SUBSET DOMAIN s |->
             IF t = {} THEN base ELSE Next1(it[t \ {Max(t)}], s[Max(t)])]
           it == CHOOSE f : Obeys(f)
<1>1. /\ Len(s) \in Nat /\ s \in Seq(Attribute)
      /\ \A t \in SUBSET DOMAIN s : t # {} => s[Max(t)] \in Attribute
  <2>1. Len(s) \in Nat /\ DOMAIN s = 1..Len(s) /\ s \in Seq(Attribute)
        /\ \A i \in 1..Len(s) : s[i] \in Attribute
    BY EntryTypes
  <2> HIDE DEF it, Obeys
  <2> QED BY <2>1, MaxOfPositions
<1>2. AddOneThere \in [States \X Attribute -> States]
  <2>1. ASSUME NEW r \in States, NEW a \in Attribute
        PROVE  Abstract!Added(r.attrs, r.dropped, <<a>>) \in States
    <3>1. PICK h \in Heaps : r = Shown(h)
      BY DEF States
    <3>2. AddOne[<<h, a>>] \in Heaps
          /\ Abstract!Added(Shown(h).attrs, Shown(h).dropped, <<a>>) = Shown(AddOne[<<h, a>>])
      BY AddOneProperties
    <3> QED BY <3>1, <3>2 DEF States
  <2> QED BY <2>1 DEF AddOneThere
<1>3. \A r \in States, a \in Attribute : AddOneThere[<<r, a>>] = Next1(r, a)
  BY DEF AddOneThere
<1>4. Abstract!FoldLeft(LAMBDA r, a : Abstract!Added(r.attrs, r.dropped, <<a>>), base, s) = it[DOMAIN s]
  <2>1. \A S : Abstract!Max(S) = Max(S)
    BY AbstractNames
  <2> QED BY <2>1 DEF Abstract!FoldLeft, Abstract!MapThenFoldSet
<1> HIDE DEF it
<1>5. \E f : Obeys(f)
  <2> HIDE DEF Obeys
  <2>1. PICK f : Folds(States, base, AddOneThere, s, f)
    BY <1>1, <1>2, FoldExists
  <2> HIDE DEF Next1
  <2>2. ASSUME NEW t \in SUBSET DOMAIN s, t # {}
        PROVE  f[t] = Next1(f[t \ {Max(t)}], s[Max(t)])
    <3>1. f[t \ {Max(t)}] \in States
      BY <2>1 DEF Folds
    <3> QED BY <1>1, <1>3, <2>1, <2>2, <3>1 DEF Folds
  <2>3. Obeys(f)
    BY <2>1, <2>2 DEF Folds, Obeys
  <2> QED BY <2>3
<1>6. Obeys(it)
  <2> HIDE DEF Obeys
  <2> QED BY <1>5 DEF it
<1> HIDE DEF Next1
<1>7. it[{}] = base
  BY <1>6
<1>8. ASSUME NEW t \in SUBSET DOMAIN s, t # {}, it[t \ {Max(t)}] \in States
      PROVE  it[t] = AddOneThere[<<it[t \ {Max(t)}], s[Max(t)]>>]
  BY <1>1, <1>3, <1>6, <1>8
<1> HIDE DEF Obeys
<1>9. \E g : Rounds(States, base, AddOneThere, s, it[DOMAIN s], g)
  BY <1>1, <1>2, <1>7, <1>8, FoldRounds
<1> QED BY <1>4, <1>9

(* Either way the same comes out, and the arrays there are left.           *)
LEMMA EmittedProperties ==
  ASSUME NEW m \in Memories, NEW s \in Entries
  PROVE  LET h == FoldLeft(LAMBDA h, a : AddTo(h, <<a>>, TRUE), [mem |-> m, rec |-> NewRecord], s)
         IN /\ h \in Heaps /\ Leaves(m, 0, h)
            /\ Abstract!FoldLeft(LAMBDA r, a : Abstract!Added(r.attrs, r.dropped, <<a>>),
                                 [attrs |-> <<>>, dropped |-> 0], s) = Shown(h)
<1> DEFINE base == [mem |-> m, rec |-> NewRecord]
           there == [attrs |-> <<>>, dropped |-> 0]
           h == FoldLeft(LAMBDA h, a : AddTo(h, <<a>>, TRUE), base, s)
           r == Abstract!FoldLeft(LAMBDA r, a : Abstract!Added(r.attrs, r.dropped, <<a>>), there, s)
<1>1. base \in Heaps /\ Shown(base) = there /\ there \in States
  <2>1. base \in Heaps /\ Shown(base) = there
    BY ZeroedIsHeap
  <2> HIDE DEF base
  <2> QED BY <2>1 DEF States
<1>2. base.mem = m
  OBVIOUS
<1>3. NewRecord.arr = 0
  BY DEF NewRecord
<1>4. base.rec.arr = 0
  BY <1>3
<1>5. \E g : Rounds(Heaps, base, AddOne, s, h, g)
  <2> HIDE DEF base
  <2> QED BY <1>1, EmitRounds
<1>6. \E g : Rounds(States, there, AddOneThere, s, r, g)
  <2> HIDE DEF there
  <2> QED BY <1>1, EmitRoundsThere
<1> HIDE DEF base, there, h, r
<1>7. PICK f : Rounds(Heaps, base, AddOne, s, h, f)
  BY <1>5
<1>8. PICK g : Rounds(States, there, AddOneThere, s, r, g)
  BY <1>6
<1> DEFINE Good == {n \in 0..Len(s) : Leaves(m, 0, f[n]) /\ g[n] = Shown(f[n])}
<1>9. Len(s) \in Nat /\ \A i \in 1..Len(s) : s[i] \in Attribute
  BY EntryTypes
<1>10. \A n \in 0..Len(s) : f[n] \in Heaps /\ g[n] \in States
  BY <1>7, <1>8 DEF Rounds
<1>11. 0 \in Good
  <2>1. f[0] = base /\ g[0] = there /\ 0 \in 0..Len(s)
    BY <1>7, <1>8, <1>9 DEF Rounds
  <2>2. Leaves(m, 0, base)
    BY <1>2, <1>4 DEF Leaves
  <2> QED BY <1>1, <2>1, <2>2
<1>12. ASSUME NEW n \in 1..Len(s), n - 1 \in Good PROVE n \in Good
  <2>1. /\ n - 1 \in 0..Len(s) /\ n \in 0..Len(s) /\ s[n] \in Attribute
        /\ f[n - 1] \in Heaps /\ g[n - 1] \in States
        /\ Leaves(m, 0, f[n - 1]) /\ g[n - 1] = Shown(f[n - 1])
    BY <1>9, <1>10, <1>12
  <2> DEFINE p == f[n - 1]
             q == g[n - 1]
             a == s[n]
  <2>2. f[n] = AddOne[<<p, a>>] /\ g[n] = AddOneThere[<<q, a>>]
    BY <1>7, <1>8 DEF Rounds
  <2>3. g[n] = Abstract!Added(q.attrs, q.dropped, <<a>>)
    BY <2>1, <2>2 DEF AddOneThere
  <2> HIDE DEF p, q, a
  <2>4. p \in Heaps /\ a \in Attribute /\ q = Shown(p) /\ Leaves(m, 0, p)
    BY <2>1 DEF p, q, a
  <2>5. /\ Leaves(p.mem, p.rec.arr, f[n])
        /\ Abstract!Added(Shown(p).attrs, Shown(p).dropped, <<a>>) = Shown(f[n])
    BY <2>2, <2>4, AddOneProperties
  <2>6. Leaves(m, 0, f[n])
    BY <2>4, <2>5 DEF Leaves
  <2>7. g[n] = Shown(f[n])
    BY <2>3, <2>4, <2>5
  <2> QED BY <2>1, <2>6, <2>7
<1>13. Len(s) \in Good
  <2>1. Len(s) \in 0..Len(s)
    BY <1>9
  <2> HIDE DEF Good
  <2> QED BY <1>9, <1>11, <1>12, <2>1, UpwardInduction
<1>14. f[Len(s)] = h /\ g[Len(s)] = r /\ h \in Heaps
  <2>1. Len(s) \in 0..Len(s)
    BY <1>9
  <2> QED BY <1>7, <1>8, <1>10, <2>1 DEF Rounds
<1> QED BY <1>13, <1>14 DEF h, r, base, there

-----------------------------------------------------------------------------
(* The invariant: no array is shared, and every record is as the methods   *)
(* leave it.                                                               *)

RecordInv ==
  /\ Now \in Heaps
  /\ cloned \in Seq(RecordType)
  /\ \A i \in DOMAIN cloned : cloned[i].arr # 0 => cloned[i].arr \in DOMAIN mem \ {rec.arr}

(* What is left of the memory when garbage is collected.                   *)
LEMMA RestrictedMemory ==
  ASSUME NEW m \in Memories, NEW S, S \subseteq DOMAIN m
  PROVE  /\ Restrict(m, S) \in Memories /\ DOMAIN Restrict(m, S) = S
         /\ \A r \in RecordType : r.arr \in S \cup {0} =>
              /\ Back(Restrict(m, S), r) = Back(m, r)
              /\ InMemory(m, r) => InMemory(Restrict(m, S), r)
<1> DEFINE w == Restrict(m, S)
<1>1. DOMAIN m \subseteq Nat \ {0} /\ IsFiniteSet(DOMAIN m) /\ m \in [DOMAIN m -> Entries]
  BY MemoryIs
<1>2. w = [x \in S |-> m[x]]
  BY DEF Restrict
<1> HIDE DEF w
<1>3. DOMAIN w = S /\ w \in [S -> Entries] /\ IsFiniteSet(S) /\ \A x \in S : w[x] = m[x]
  BY <1>1, <1>2, FS_Subset
<1>4. w \in Memories
  BY <1>1, <1>3, MemoryIs
<1>5. ASSUME NEW r \in RecordType, r.arr \in S \cup {0}
      PROVE  Back(w, r) = Back(m, r) /\ (InMemory(m, r) => InMemory(w, r))
  BY <1>3, <1>5 DEF Back, InMemory
<1> QED BY <1>3, <1>4, <1>5 DEF w

(* Only the arrays matter in which a record has its attributes.            *)
LEMMA SameBack ==
  ASSUME NEW m, NEW w, NEW r, r.arr # 0 => r.arr \in DOMAIN m /\ r.arr \in DOMAIN w /\ w[r.arr] = m[r.arr]
  PROVE  Back(w, r) = Back(m, r) /\ MapIn(w, r) = MapIn(m, r) /\ (InMemory(m, r) => InMemory(w, r))
BY DEF Back, MapIn, InMemory

(* The record becomes what it is in h; clones that are made are in made.   *)
LEMMA Becoming ==
  ASSUME RecordInv, NEW h \in Heaps, Leaves(mem, 0, h) \/ Leaves(mem, rec.arr, h),
         NEW made \in Seq(RecordType), Become(h, made),
         \A i \in DOMAIN made : made[i].arr # 0 => made[i].arr \in DOMAIN h.mem \ {h.rec.arr}
  PROVE  /\ RecordInv'
         /\ cloned' = cloned \o made
         /\ MapIn(mem', rec') = MapIn(h.mem, h.rec) /\ rec'.dropped = h.rec.dropped
         /\ \A i \in DOMAIN cloned : MapIn(mem', cloned[i]) = MapIn(mem, cloned[i])
         /\ \A i \in DOMAIN made : MapIn(mem', made[i]) = MapIn(h.mem, made[i])
<1> DEFINE all == cloned \o made
           S == ({h.rec.arr} \cup {all[i].arr : i \in DOMAIN all}) \ {0}
<1>1. rec' = h.rec /\ cloned' = all /\ mem' = Restrict(h.mem, S)
  BY DEF Become
<1>2. /\ h.mem \in Memories /\ h.rec \in RecordType /\ WellFormed(h.mem, h.rec)
  BY DEF Heaps
<1>3. /\ cloned \in Seq(RecordType)
      /\ \A i \in DOMAIN cloned : cloned[i].arr # 0 => cloned[i].arr \in DOMAIN mem \ {rec.arr}
  BY DEF RecordInv
<1>4. /\ all \in Seq(RecordType) /\ Len(all) = Len(cloned) + Len(made)
      /\ Len(cloned) \in Nat /\ Len(made) \in Nat
      /\ DOMAIN cloned = 1..Len(cloned) /\ DOMAIN made = 1..Len(made) /\ DOMAIN all = 1..(Len(cloned) + Len(made))
      /\ \A i \in 1..Len(cloned) : all[i] = cloned[i]
      /\ \A i \in 1..(Len(cloned) + Len(made)) : ~(i <= Len(cloned)) => all[i] = made[i - Len(cloned)]
  BY <1>3, JoinEntries
<1> HIDE DEF all
<1>5. ASSUME NEW i \in DOMAIN cloned, cloned[i].arr # 0
      PROVE  /\ cloned[i].arr \in DOMAIN h.mem \ {h.rec.arr} /\ cloned[i].arr \in DOMAIN mem
             /\ h.mem[cloned[i].arr] = mem[cloned[i].arr]
  BY <1>3, <1>5 DEF Leaves
<1>6. ASSUME NEW i \in DOMAIN all, all[i].arr # 0
      PROVE  all[i].arr \in DOMAIN h.mem \ {h.rec.arr}
  <2>1. CASE i <= Len(cloned)
    BY <1>4, <1>5, <1>6, <2>1
  <2>2. CASE ~(i <= Len(cloned))
    <3>1. i - Len(cloned) \in DOMAIN made /\ all[i] = made[i - Len(cloned)]
      BY <1>4, <2>2
    <3> QED BY <1>6, <3>1
  <2> QED BY <2>1, <2>2
<1>7. h.rec.arr # 0 => h.rec.arr \in DOMAIN h.mem
  BY <1>2 DEF WellFormed, InMemory
<1>8. S \subseteq DOMAIN h.mem
  BY <1>6, <1>7
<1>9. /\ mem' \in Memories /\ DOMAIN mem' = S
      /\ \A r \in RecordType : r.arr \in S \cup {0} =>
           /\ Back(mem', r) = Back(h.mem, r)
           /\ InMemory(h.mem, r) => InMemory(mem', r)
  <2> DEFINE w == Restrict(h.mem, S)
             m == h.mem
  <2>1. m \in Memories /\ S \subseteq DOMAIN m
    BY <1>2, <1>8
  <2> HIDE DEF m, S
  <2>2. /\ Restrict(m, S) \in Memories /\ DOMAIN Restrict(m, S) = S
        /\ \A r \in RecordType : r.arr \in S \cup {0} =>
             /\ Back(Restrict(m, S), r) = Back(m, r)
             /\ InMemory(m, r) => InMemory(Restrict(m, S), r)
    BY <2>1, RestrictedMemory
  <2>3. mem' = Restrict(m, S)
    BY <1>1 DEF m
  <2> QED BY <2>2, <2>3 DEF m
<1>10. h.rec.arr \in S \cup {0} /\ \A i \in DOMAIN all : all[i].arr \in S \cup {0} /\ all[i] \in RecordType
  BY <1>4
<1> HIDE DEF S
<1>11. Back(mem', rec') = Back(h.mem, h.rec) /\ InMemory(mem', rec') /\ rec' \in RecordType
  BY <1>1, <1>2, <1>9, <1>10 DEF WellFormed
<1>12. WellFormed(mem', rec')
  BY <1>1, <1>2, <1>11 DEF WellFormed
<1>13. RecordInv'
  <2>1. Now' \in Heaps
    <3>1. Now' = [mem |-> mem', rec |-> rec']
      BY DEF Now
    <3> QED BY <1>9, <1>11, <1>12, <3>1 DEF Heaps
  <2>3. cloned' \in Seq(RecordType)
    BY <1>1, <1>4
  <2>4. \A i \in DOMAIN cloned' : cloned'[i].arr # 0 => cloned'[i].arr \in DOMAIN mem' \ {rec'.arr}
    BY <1>1, <1>6, <1>9, <1>10
  <2> QED BY <2>1, <2>3, <2>4 DEF RecordInv
<1>14. MapIn(mem', rec') = MapIn(h.mem, h.rec) /\ rec'.dropped = h.rec.dropped
  BY <1>1, <1>11 DEF MapIn
<1>15. \A i \in DOMAIN all : MapIn(mem', all[i]) = MapIn(h.mem, all[i])
  BY <1>9, <1>10 DEF MapIn
<1>16. ASSUME NEW i \in DOMAIN cloned PROVE MapIn(mem', cloned[i]) = MapIn(mem, cloned[i])
  <2>1. i \in DOMAIN all /\ all[i] = cloned[i]
    BY <1>4
  <2>2. MapIn(h.mem, cloned[i]) = MapIn(mem, cloned[i])
    BY <1>5, SameBack
  <2> QED BY <1>15, <2>1, <2>2
<1>17. ASSUME NEW i \in DOMAIN made PROVE MapIn(mem', made[i]) = MapIn(h.mem, made[i])
  <2>1. Len(cloned) + i \in DOMAIN all /\ all[Len(cloned) + i] = made[i]
    <3>1. Len(cloned) + i \in 1..(Len(cloned) + Len(made)) /\ ~(Len(cloned) + i <= Len(cloned))
          /\ (Len(cloned) + i) - Len(cloned) = i
      BY <1>4
    <3> QED BY <1>4, <3>1
  <2> QED BY <1>15, <2>1
<1> QED BY <1>1, <1>13, <1>14, <1>16, <1>17 DEF all

LEMMA InvUnchanged ==
  ASSUME RecordInv, UNCHANGED recordVars
  PROVE  RecordInv'
BY DEF RecordInv, recordVars, Now

LEMMA InitRecordInv == RecordInit => RecordInv
<1> SUFFICES ASSUME RecordInit PROVE RecordInv
  OBVIOUS
<1>1. <<>> \in Memories
  <2>1. DOMAIN <<>> = {} /\ <<>> \in [{} -> Entries] /\ IsFiniteSet({})
    BY FS_EmptySet
  <2> QED BY <2>1, MemoryIs
<1>2. Now \in Heaps
  BY <1>1, ZeroedIsHeap DEF RecordInit, Now
<1>3. cloned = <<>> /\ cloned \in Seq(RecordType) /\ DOMAIN cloned = {}
  BY DEF RecordInit
<1> QED BY <1>2, <1>3 DEF RecordInv

-----------------------------------------------------------------------------
(* Records are the maps that LogAttributes says. *)

(* What the property names is what the invariant is about.                 *)
LEMMA HeldIs ==
  /\ \A r : Held(r) = MapIn(mem, r)
  /\ Held(rec)' = MapIn(mem', rec')
  /\ \A i \in DOMAIN cloned' : Held(cloned[i])' = MapIn(mem', cloned'[i])
<1>1. \A r : Held(r) = MapIn(mem, r)
  BY DEF Held, Attributes, MapIn, MapOf, KeysIn
<1>2. Held(rec)' = MapIn(mem', rec')
  BY DEF Held, Attributes, Back, MapIn, MapOf, KeysIn
<1>3. \A i \in DOMAIN cloned' : Held(cloned[i])' = MapIn(mem', cloned'[i])
  BY DEF Held, Attributes, Back, MapIn, MapOf, KeysIn
<1> QED BY <1>1, <1>2, <1>3

(* The clones as LogAttributes sees them. *)
Clones == [i \in DOMAIN cloned |-> [attrs |-> Held(cloned[i]), dropped |-> cloned[i].dropped]]

LEMMA ClonesAre ==
  /\ Clones = [i \in DOMAIN cloned |-> [attrs |-> MapIn(mem, cloned[i]), dropped |-> cloned[i].dropped]]
  /\ Clones' = [i \in DOMAIN cloned' |-> [attrs |-> MapIn(mem', cloned'[i]), dropped |-> cloned'[i].dropped]]
<1>1. Clones = [i \in DOMAIN cloned |-> [attrs |-> MapIn(mem, cloned[i]), dropped |-> cloned[i].dropped]]
  BY HeldIs DEF Clones
<1>2. Clones' = [i \in DOMAIN cloned' |-> [attrs |-> Held(cloned[i])', dropped |-> cloned'[i].dropped]]
  BY DEF Clones
<1>3. Clones' = [i \in DOMAIN cloned' |-> [attrs |-> MapIn(mem', cloned'[i]), dropped |-> cloned'[i].dropped]]
  BY <1>2, HeldIs
<1> QED BY <1>1, <1>3

(* A step that makes the record what it is in h. *)
LEMMA RecordChanges ==
  ASSUME RecordInv, NEW h \in Heaps, Leaves(mem, 0, h) \/ Leaves(mem, rec.arr, h), Become(h, <<>>)
  PROVE  /\ RecordInv' /\ Clones' = Clones
         /\ Held(rec)' = Shown(h).attrs /\ rec'.dropped = Shown(h).dropped
<1>1. <<>> \in Seq(RecordType) /\ DOMAIN <<>> = {}
  OBVIOUS
<1>2. /\ RecordInv'
      /\ cloned' = cloned \o <<>>
      /\ MapIn(mem', rec') = MapIn(h.mem, h.rec) /\ rec'.dropped = h.rec.dropped
      /\ \A i \in DOMAIN cloned : MapIn(mem', cloned[i]) = MapIn(mem, cloned[i])
  BY <1>1, Becoming
<1>3. cloned' = cloned
  <2>1. cloned \in Seq(RecordType)
    BY DEF RecordInv
  <2>2. cloned \o <<>> = cloned
    BY <2>1
  <2> QED BY <1>2, <2>2
<1>4. Clones' = Clones
  BY <1>2, <1>3, ClonesAre
<1> QED BY <1>2, <1>4, HeldIs DEF Shown

(* AddAttributes, SetAttributes, newRecord and Clone do what LogAttributes *)
(* does.                                                                   *)
LEMMA AddToRefines ==
  ASSUME RecordInv, NEW kvs \in Entries, NEW moves \in BOOLEAN, Become(AddTo(Now, kvs, moves), <<>>)
  PROVE  RecordInv' /\ Abstract!AddAttributes(kvs)
<1>1. Now \in Heaps /\ Now.mem = mem /\ Now.rec = rec
  BY DEF RecordInv, Now
<1> DEFINE h == Now
           g == AddTo(h, kvs, moves)
<1> HIDE DEF h
<1>2. /\ g \in Heaps /\ Leaves(h.mem, h.rec.arr, g)
      /\ Abstract!Added(MapIn(h.mem, h.rec), h.rec.dropped, kvs) = Shown(g)
  BY <1>1, AddToProperties DEF h
<1>3. Become(g, <<>>)
  BY DEF h
<1> HIDE DEF g
<1>4. Leaves(mem, rec.arr, g) /\ Abstract!Added(Held(rec), rec.dropped, kvs) = Shown(g)
  BY <1>1, <1>2, HeldIs DEF h
<1>5. /\ RecordInv' /\ Clones' = Clones
      /\ Held(rec)' = Shown(g).attrs /\ rec'.dropped = Shown(g).dropped
  BY <1>2, <1>3, <1>4, RecordChanges
<1>6. Abstract!AddAttributes(kvs)
  BY <1>4, <1>5 DEF Abstract!AddAttributes, Abstract!Become, Clones
<1> QED BY <1>5, <1>6

LEMMA SetRefines ==
  ASSUME RecordInv, NEW kvs \in Entries, Become(AddTo(Zeroed, kvs, TRUE), <<>>)
  PROVE  RecordInv' /\ Abstract!SetAttributes(kvs)
<1>1. /\ Zeroed \in Heaps /\ Zeroed.mem = mem /\ Zeroed.rec.arr = 0
      /\ Shown(Zeroed) = [attrs |-> <<>>, dropped |-> 0]
  <2>1. mem \in Memories
    BY DEF RecordInv, Heaps, Now
  <2>2. Zeroed = [mem |-> mem, rec |-> NewRecord] /\ NewRecord.arr = 0
    BY DEF Zeroed, NewRecord
  <2> QED BY <2>1, <2>2, ZeroedIsHeap
<1>2. MapIn(Zeroed.mem, Zeroed.rec) = <<>> /\ Zeroed.rec.dropped = 0
  <2>1. Shown(Zeroed).attrs = <<>> /\ Shown(Zeroed).dropped = 0
    BY <1>1
  <2> QED BY <2>1 DEF Shown
<1> DEFINE h == Zeroed
           g == AddTo(h, kvs, TRUE)
<1> HIDE DEF h
<1>3. /\ g \in Heaps /\ Leaves(h.mem, h.rec.arr, g)
      /\ Abstract!Added(MapIn(h.mem, h.rec), h.rec.dropped, kvs) = Shown(g)
  BY <1>1, AddToProperties DEF h
<1>4. Become(g, <<>>)
  BY DEF h
<1> HIDE DEF g
<1>5. Leaves(mem, 0, g) /\ Abstract!Added(<<>>, 0, kvs) = Shown(g)
  BY <1>1, <1>2, <1>3 DEF h
<1>6. /\ RecordInv' /\ Clones' = Clones
      /\ Held(rec)' = Shown(g).attrs /\ rec'.dropped = Shown(g).dropped
  BY <1>3, <1>4, <1>5, RecordChanges
<1>7. Abstract!SetAttributes(kvs)
  BY <1>5, <1>6 DEF Abstract!SetAttributes, Abstract!Become, Clones
<1> QED BY <1>6, <1>7

LEMMA EmitRefines ==
  ASSUME RecordInv, NEW kvs \in Entries,
         Become(FoldLeft(LAMBDA h, a : AddTo(h, <<a>>, TRUE), Zeroed, kvs), <<>>)
  PROVE  RecordInv' /\ Abstract!Emit(kvs)
<1>1. mem \in Memories
  BY DEF RecordInv, Heaps, Now
<1> DEFINE g == FoldLeft(LAMBDA h, a : AddTo(h, <<a>>, TRUE), Zeroed, kvs)
           r == Abstract!FoldLeft(LAMBDA r, a : Abstract!Added(r.attrs, r.dropped, <<a>>),
                                  [attrs |-> <<>>, dropped |-> 0], kvs)
<1>2. g \in Heaps /\ Leaves(mem, 0, g) /\ r = Shown(g)
  BY <1>1, EmittedProperties DEF Zeroed
<1>3. Become(g, <<>>)
  OBVIOUS
<1>4. Abstract!Emit(kvs) <=> Abstract!Become(r) /\ UNCHANGED Clones
  BY DEF Abstract!Emit, Clones
<1> HIDE DEF g, r
<1>5. /\ RecordInv' /\ Clones' = Clones
      /\ Held(rec)' = Shown(g).attrs /\ rec'.dropped = Shown(g).dropped
  BY <1>2, <1>3, RecordChanges
<1>6. Abstract!Emit(kvs)
  BY <1>2, <1>4, <1>5 DEF Abstract!Become
<1> QED BY <1>5, <1>6

(* One entry more. *)
LEMMA OneMore ==
  ASSUME NEW n \in Nat, NEW w, DOMAIN w = 1..(n + 1), w = [i \in 1..(n + 1) |-> w[i]],
         NEW s, s = [i \in 1..n |-> w[i]]
  PROVE  w = Append(s, w[n + 1])
<1> DEFINE S == {w[i] : i \in 1..(n + 1)}
           t == Append(s, w[n + 1])
<1>1. s \in Seq(S) /\ Len(s) = n /\ n + 1 \in 1..(n + 1)
  <2>1. \A i \in 1..n : i \in 1..(n + 1) /\ w[i] \in S
    OBVIOUS
  <2> HIDE DEF S
  <2>2. s \in [1..n -> S] /\ DOMAIN s = 1..n
    <3>1. \A i \in 1..n : s[i] = w[i]
      OBVIOUS
    <3> QED BY <2>1, <3>1
  <2> DEFINE q == s
  <2>3. q \in [1..n -> S] /\ DOMAIN q = 1..n
    BY <2>2
  <2> HIDE DEF q
  <2>4. q \in Seq(S) /\ Len(q) = n
    BY <2>3
  <2>5. n + 1 \in 1..(n + 1)
    OBVIOUS
  <2> QED BY <2>4, <2>5 DEF q
<1>2. w \in Seq(S) /\ Len(w) = n + 1
  <2>1. \A i \in 1..(n + 1) : w[i] \in S
    OBVIOUS
  <2> HIDE DEF S
  <2>2. w \in [1..(n + 1) -> S]
    BY <2>1
  <2>3. w \in Seq(S)
    BY <2>2
  <2> QED BY <2>3
<1>3. w[n + 1] \in S
  BY <1>1
<1> HIDE DEF S
<1>4. t \in Seq(S) /\ Len(t) = n + 1 /\ t[n + 1] = w[n + 1] /\ \A i \in 1..n : t[i] = s[i]
  BY <1>1, <1>3
<1> HIDE DEF t
<1>5. \A i \in 1..(n + 1) : t[i] = w[i]
  BY <1>4
<1>6. w = t
  BY <1>2, <1>4, <1>5, SeqEqual
<1> QED BY <1>6 DEF t

(* A clone gets an array of its own, with the same attributes in it.       *)
LEMMA CloneRefines ==
  ASSUME RecordInv, Clone
  PROVE  RecordInv' /\ Abstract!Clone
<1> DEFINE back == Back(mem, rec)
           c == CloneBack(mem, rec)
           h == [mem |-> c.mem, rec |-> rec]
           copy == [rec EXCEPT !.arr = c.arr]
<1>1. /\ mem \in Memories /\ rec \in RecordType /\ WellFormed(mem, rec) /\ InMemory(mem, rec)
      /\ back \in Entries /\ Len(back) = rec.len
  <2>1. mem \in Memories /\ rec \in RecordType /\ WellFormed(mem, rec)
    BY DEF RecordInv, Heaps, Now
  <2> QED BY <2>1, BackProperties DEF WellFormed
<1>2. Become(h, <<copy>>)
  BY DEF Clone, Now
<1>3. c = Allocated(mem, back)
  BY DEF CloneBack
<1> HIDE DEF back, c
<1>4. /\ c.mem \in Memories /\ c.arr \in Nat
      /\ \A x \in DOMAIN mem : x \in DOMAIN c.mem /\ c.mem[x] = mem[x] /\ x # c.arr
      /\ back = <<>> => c.arr = 0
      /\ back # <<>> => c.arr # 0 /\ c.arr \in DOMAIN c.mem /\ c.mem[c.arr] = back
  BY <1>1, <1>3, AllocatedProperties
<1>5. rec.arr # 0 => rec.arr \in DOMAIN mem
  BY <1>1 DEF InMemory
<1>6. Back(c.mem, rec) = Back(mem, rec) /\ MapIn(c.mem, rec) = MapIn(mem, rec) /\ InMemory(c.mem, rec)
  BY <1>1, <1>4, <1>5, SameBack
<1>7. h \in Heaps
  <2>1. WellFormed(c.mem, rec)
    BY <1>1, <1>6 DEF WellFormed
  <2> QED BY <1>1, <1>4, <2>1 DEF Heaps
<1>8. Leaves(mem, rec.arr, h)
  BY <1>4 DEF Leaves
<1>9. /\ copy \in RecordType /\ copy.arr = c.arr /\ copy.front = rec.front /\ copy.len = rec.len
      /\ copy.dropped = rec.dropped
  BY <1>1, <1>4 DEF RecordType
<1> HIDE DEF copy
<1>10. copy.arr # 0 => copy.arr \in DOMAIN h.mem \ {h.rec.arr}
  BY <1>4, <1>5, <1>9
<1>11. Back(c.mem, copy) = back
  <2>1. CASE back = <<>>
    BY <1>4, <1>9, <2>1 DEF Back
  <2>2. CASE back # <<>>
    <3>1. SubSeq(back, 1, Len(back)) = back
      BY <1>1, CutNothing DEF Entries
    <3> QED BY <1>1, <1>4, <1>9, <2>2, <3>1 DEF Back
  <2> QED BY <2>1, <2>2
<1>12. MapIn(c.mem, copy) = Held(rec)
  BY <1>9, <1>11, HeldIs DEF MapIn, back
<1>13. <<copy>> \in Seq(RecordType) /\ DOMAIN <<copy>> = {1} /\ <<copy>>[1] = copy
  BY <1>9
<1> DEFINE made == <<copy>>
<1>14. /\ made \in Seq(RecordType) /\ Become(h, made) /\ DOMAIN made = {1} /\ made[1] = copy
       /\ \A i \in DOMAIN made : made[i].arr # 0 => made[i].arr \in DOMAIN h.mem \ {h.rec.arr}
  BY <1>2, <1>10, <1>13
<1>15. h.mem = c.mem /\ h.rec = rec
  OBVIOUS
<1> HIDE DEF made, h
<1>16. /\ RecordInv'
       /\ cloned' = cloned \o made
       /\ MapIn(mem', rec') = MapIn(h.mem, h.rec) /\ rec'.dropped = h.rec.dropped
       /\ \A i \in DOMAIN cloned : MapIn(mem', cloned[i]) = MapIn(mem, cloned[i])
       /\ \A i \in DOMAIN made : MapIn(mem', made[i]) = MapIn(h.mem, made[i])
  BY <1>7, <1>8, <1>14, Becoming
<1>17. Held(rec)' = Held(rec) /\ rec'.dropped = rec.dropped
  BY <1>6, <1>15, <1>16, HeldIs
<1>18. MapIn(mem', copy) = Held(rec)
  BY <1>12, <1>14, <1>15, <1>16
<1>19. /\ Len(cloned) \in Nat /\ DOMAIN cloned = 1..Len(cloned) /\ DOMAIN cloned' = 1..(Len(cloned) + 1)
       /\ \A i \in 1..Len(cloned) : cloned'[i] = cloned[i]
       /\ cloned'[Len(cloned) + 1] = copy
  <2>1. cloned \in Seq(RecordType) /\ made = <<copy>>
    BY DEF RecordInv, made
  <2> QED BY <1>13, <1>16, <2>1
<1> DEFINE n == Len(cloned)
           w == Clones'
           s == Clones
<1>20. /\ DOMAIN w = 1..(n + 1) /\ w = [i \in 1..(n + 1) |-> w[i]]
       /\ s = [i \in 1..n |-> w[i]]
       /\ w[n + 1] = [attrs |-> Held(rec), dropped |-> rec.dropped]
  <2>1. w = [i \in 1..(n + 1) |-> [attrs |-> MapIn(mem', cloned'[i]), dropped |-> cloned'[i].dropped]]
    BY <1>19, ClonesAre
  <2>2. s = [i \in 1..n |-> [attrs |-> MapIn(mem, cloned[i]), dropped |-> cloned[i].dropped]]
    BY <1>19, ClonesAre
  <2> HIDE DEF w, s
  <2>3. n \in Nat /\ n + 1 \in 1..(n + 1) /\ \A i \in 1..n : i \in 1..(n + 1)
    BY <1>19
  <2>4. w[n + 1] = [attrs |-> Held(rec), dropped |-> rec.dropped]
    BY <1>9, <1>18, <1>19, <2>1, <2>3
  <2>5. s = [i \in 1..n |-> w[i]]
    BY <1>16, <1>19, <2>1, <2>2, <2>3
  <2> QED BY <2>1, <2>4, <2>5
<1>21. Clones' = Append(Clones, [attrs |-> Held(rec), dropped |-> rec.dropped])
  <2>1. n \in Nat
    BY <1>19
  <2> HIDE DEF n, w, s
  <2>2. w = Append(s, w[n + 1])
    BY <1>20, <2>1, OneMore
  <2>3. w = Append(s, [attrs |-> Held(rec), dropped |-> rec.dropped])
    BY <1>20, <2>2
  <2> QED BY <2>3 DEF w, s
<1>22. Abstract!Clone
  BY <1>17, <1>21 DEF Abstract!Clone, Clones
<1> QED BY <1>16, <1>22

LEMMA BatchesAreEntries == Batches \subseteq Entries
BY BatchAssumption DEF Entries, Attribute

(* Each step of a logger is a step of LogAttributes, or leaves the records. *)
LEMMA EmitStepRefines ==
  ASSUME RecordInv, [EmitNext]_emitVars
  PROVE  RecordInv' /\ [Abstract!Next]_(Abstract!vars)
<1>1. ASSUME NEW kvs \in Batches, Emit(kvs) PROVE RecordInv' /\ Abstract!Emit(kvs)
  <2>1. kvs \in Entries
    BY BatchesAreEntries
  <2>2. Become(FoldLeft(LAMBDA h, a : AddTo(h, <<a>>, TRUE), Zeroed, kvs), <<>>)
    BY <1>1 DEF Emit, Called
  <2> QED BY <2>1, <2>2, EmitRefines
<1>2. ASSUME NEW kvs \in Batches, AddAttributes(kvs) PROVE RecordInv' /\ Abstract!AddAttributes(kvs)
  <2>1. kvs \in Entries
    BY BatchesAreEntries
  <2>2. PICK moves \in BOOLEAN : Become(AddTo(Now, kvs, moves), <<>>)
    BY <1>2 DEF AddAttributes, Called
  <2> QED BY <2>1, <2>2, AddToRefines
<1>3. ASSUME NEW kvs \in Batches, SetAttributes(kvs) PROVE RecordInv' /\ Abstract!SetAttributes(kvs)
  <2>1. kvs \in Entries
    BY BatchesAreEntries
  <2>2. Become(AddTo(Zeroed, kvs, TRUE), <<>>)
    BY <1>3 DEF SetAttributes, Called
  <2> QED BY <2>1, <2>2, SetRefines
<1>4. CASE RecordNext
  BY <1>1, <1>2, <1>3, <1>4 DEF RecordNext, Abstract!Next
<1>5. CASE OnEmit
  <2>1. Clone
    BY <1>5 DEF OnEmit
  <2> QED BY <2>1, CloneRefines DEF Abstract!Next
<1>6. CASE UNCHANGED recordVars
  <2>1. RecordInv'
    BY <1>6, InvUnchanged
  <2>2. mem' = mem /\ rec' = rec /\ cloned' = cloned
    BY <1>6 DEF recordVars
  <2>3. Held(rec)' = Held(rec) /\ Clones' = Clones /\ rec'.dropped = rec.dropped
    BY <2>2, HeldIs, ClonesAre
  <2> QED BY <2>1, <2>3 DEF Abstract!vars, Clones
<1>7. RecordNext \/ OnEmit \/ UNCHANGED recordVars
  BY DEF EmitNext, emitVars
<1> QED BY <1>4, <1>5, <1>6, <1>7

(* A record under way and every clone of one hold the map and the drop     *)
(* count of LogAttributes, whatever the limits and the arguments are, and  *)
(* nothing that is done to a record reaches a clone (record.go,            *)
(* AddAttributes, SetAttributes and Clone).                                *)
THEOREM RecordsAreMaps == EmitSpec => ImplementsAttributes
<1>1. EmitInit => RecordInv /\ Abstract!Init
  <2> SUFFICES ASSUME EmitInit PROVE RecordInv /\ Abstract!Init
    OBVIOUS
  <2>1. RecordInv /\ mem = <<>> /\ rec = NewRecord /\ cloned = <<>>
    BY InitRecordInv DEF EmitInit, RecordInit
  <2>2. Shown(Now) = [attrs |-> <<>>, dropped |-> 0]
    <3>1. mem \in Memories /\ Now = [mem |-> mem, rec |-> NewRecord]
      BY <2>1 DEF RecordInv, Heaps, Now
    <3> QED BY <3>1, ZeroedIsHeap
  <2>3. Held(rec) = <<>> /\ rec.dropped = 0
    <3>1. Shown(Now).attrs = <<>> /\ Shown(Now).dropped = 0
      BY <2>2
    <3> QED BY <3>1, HeldIs DEF Shown, Now
  <2>4. Clones = <<>>
    <3>1. Clones \in [1..0 -> {0}] /\ DOMAIN Clones = 1..0
      BY <2>1 DEF Clones
    <3>2. Clones \in Seq({0}) /\ Len(Clones) = 0
      BY <3>1
    <3> QED BY <3>2, EmptySeq
  <2> QED BY <2>1, <2>3, <2>4 DEF Abstract!Init, Clones
<1>2. RecordInv /\ [EmitNext]_emitVars => RecordInv' /\ [Abstract!Next]_(Abstract!vars)
  BY EmitStepRefines
<1>3. RecordInv => Cardinality(DOMAIN Held(rec)) = Len(Attributes(rec))
  <2> SUFFICES ASSUME RecordInv PROVE Cardinality(DOMAIN Held(rec)) = Len(Attributes(rec))
    OBVIOUS
  <2>1. Now \in Heaps /\ Now.mem = mem /\ Now.rec = rec
    BY DEF RecordInv, Now
  <2> DEFINE h == Now
  <2> HIDE DEF h
  <2>2. Cardinality(DOMAIN MapIn(h.mem, h.rec)) = Len(h.rec.front \o Back(h.mem, h.rec))
    BY <2>1, MapInProperties DEF h
  <2> QED BY <2>1, <2>2, HeldIs DEF Attributes, h
<1> QED BY <1>1, <1>2, <1>3, PTL DEF EmitSpec, ImplementsAttributes, Abstract!Spec

(* The ring that the clones wait in is the queue, whoever emits them.      *)
THEOREM QueueOfClones == EmitSpec => ImplementsQueue
<1>1. EmitInit => Init
  BY DEF EmitInit
<1>2. [EmitNext]_emitVars => [Next]_vars
  BY DEF EmitNext, emitVars, OnEmit, Next
<1>3. EmitSpec => Spec
  BY <1>1, <1>2, PTL DEF EmitSpec, Spec
<1> QED BY <1>3, QueueRefinement
=============================================================================
