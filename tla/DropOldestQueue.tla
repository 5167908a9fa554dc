--------------------------- MODULE DropOldestQueue ---------------------------
(***************************************************************************)
(* The abstract queue that sdk/log/batch.go promises in the comments of    *)
(* its queue type: a sequence of at most QueueSize records to which the    *)
(* oldest gives way, with a count of those that did.  The ring of LogQueue *)
(* implements it.                                                          *)
(***************************************************************************)
EXTENDS LogQueueOps

CONSTANTS
  Records,
  MaxDropped   (* bound: records dropped between two calls of Dropped *)

VARIABLES
  q,         (* the records held, the oldest first                           *)
  dropped,   (* how many were overwritten since the last call of Dropped     *)
  out        (* what the last TryDequeue offered or the last Flush returned  *)

vars == <<q, dropped, out>>

Init == q = <<>> /\ dropped = 0 /\ out = <<>>

Enqueue(r) ==
  /\ q' = Enqueued(q, r)
  /\ dropped' = IF Len(q) < QueueSize THEN dropped ELSE dropped + 1
  /\ dropped' <= MaxDropped
  /\ UNCHANGED out

Front(n) == SubSeq(q, 1, n)

(* The first n records are offered, and they leave when they are accepted. *)
TryDequeue(n) ==
  /\ out' = Front(n)
  /\ q' \in {q, SubSeq(q, n + 1, Len(q))}
  /\ UNCHANGED dropped

Flush ==
  /\ out' = q
  /\ q' = <<>>
  /\ UNCHANGED dropped

Dropped ==
  /\ dropped' = 0
  /\ UNCHANGED <<q, out>>

Next ==
  \/ \E r \in Records : Enqueue(r)
  \/ \E n \in 0..Len(q) : TryDequeue(n)
  \/ Flush
  \/ Dropped

Spec == Init /\ [][Next]_vars
=============================================================================
