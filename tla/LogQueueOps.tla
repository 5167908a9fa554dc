----------------------------- MODULE LogQueueOps -----------------------------
(* What the queue of the log SDK (sdk/log/batch.go) promises: it keeps the *)
(* newest QueueSize records in order.                                      *)
EXTENDS Naturals, Sequences

CONSTANT QueueSize      (* q.cap, WithMaxQueueSize *)

ASSUME QueueSizeAssumption == QueueSize \in Nat \ {0}

Enqueued(q, r) ==
  IF Len(q) < QueueSize THEN Append(q, r) ELSE Append(Tail(q), r)

(* What an Enqueue overwrites. *)
Overwritten(q) == IF Len(q) < QueueSize THEN {} ELSE {Head(q)}
=============================================================================
