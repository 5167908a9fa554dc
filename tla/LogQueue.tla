------------------------------ MODULE LogQueue ------------------------------
(***************************************************************************)
(* The queue of the log batch processor (sdk/log/batch.go, type queue) on  *)
(* the ring of sdk/log/ring.go: a circle of cells, a cell to read from, a  *)
(* cell to write to, and the number of records in between.  Every method   *)
(* holds the mutex from beginning to end, so it is one step.               *)
(***************************************************************************)
EXTENDS Integers, Sequences

CONSTANTS
  Records,
  Zero,          (* the zero Record of a fresh cell                          *)
  QueueSize,
  MaxDropped     (* bound: records dropped between two calls of Dropped      *)

ASSUME SizeAssumption == QueueSize \in Nat \ {0}
ASSUME BoundAssumption == MaxDropped \in Nat
ASSUME ZeroAssumption == Zero \notin Records

VARIABLES
  cell,      (* the values in the ring                                       *)
  read, write, len,
  dropped,
  out        (* what the last TryDequeue offered or the last Flush returned  *)

vars == <<cell, read, write, len, dropped, out>>

Cells == 1..QueueSize

(* newRing and newQueue. *)
Init ==
  /\ cell = [i \in Cells |-> Zero]
  /\ read = 1 /\ write = 1 /\ len = 0
  /\ dropped = 0 /\ out = <<>>

(* ring.Next, and ring.Next taken n times. *)
After(i) == IF i = QueueSize THEN 1 ELSE i + 1

Ahead(i, n) == IF i + n <= QueueSize THEN i + n ELSE i + n - QueueSize

NewOldest(i) == After(i)

Enqueue(r) ==
  /\ cell' = [cell EXCEPT ![write] = r]
  /\ write' = After(write)
  /\ IF len < QueueSize
     THEN len' = len + 1 /\ UNCHANGED <<read, dropped>>
     ELSE read' = NewOldest(read) /\ dropped' = dropped + 1 /\ UNCHANGED len
  /\ dropped' <= MaxDropped
  /\ UNCHANGED out

(* The n oldest records, as the loops of TryDequeue and Flush collect them.*)
Oldest(n) == [i \in 1..n |-> cell[Ahead(read, i - 1)]]

ReadOn(n) == Ahead(read, n)                   \* mutant: read is not restored

Restored(n) == read

TryDequeue(n) ==
  /\ out' = Oldest(n)
  /\ \/ len' = len - n /\ read' = Ahead(read, n)
     \/ len' = len /\ read' = Restored(n)
  /\ UNCHANGED <<cell, write, dropped>>

Flush ==
  /\ out' = Oldest(len)
  /\ read' = Ahead(read, len)
  /\ len' = 0
  /\ UNCHANGED <<cell, write, dropped>>

Dropped ==
  /\ dropped' = 0
  /\ UNCHANGED <<cell, read, write, len, out>>

Next ==
  \/ \E r \in Records : Enqueue(r)
  \/ \E n \in 0..len : TryDequeue(n)
  \/ Flush
  \/ Dropped

Spec == Init /\ [][Next]_vars

-----------------------------------------------------------------------------
(* Properties. *)

(* The write cell is len cells ahead of the read cell, and the cells in    *)
(* between hold records: no zero Record is ever read, and a full ring is   *)
(* told from an empty one by len only.                                     *)
RingOK ==
  /\ cell \in [Cells -> Records \cup {Zero}]
  /\ read \in Cells /\ write \in Cells /\ len \in 0..QueueSize
  /\ dropped \in 0..MaxDropped
  /\ write = Ahead(read, len)
  /\ \A i \in 1..len : cell[Ahead(read, i - 1)] \in Records

(* The ring is a queue of the newest QueueSize records: every operation    *)
(* does what the comments of queue say, whatever has wrapped around, and   *)
(* a refused TryDequeue leaves it as it was.                               *)
Queue == INSTANCE DropOldestQueue WITH q <- Oldest(len)

ImplementsQueue == Queue!Spec
=============================================================================
