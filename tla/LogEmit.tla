------------------------------- MODULE LogEmit -------------------------------
(***************************************************************************)
(* A logger that emits records through processors (sdk/log/logger.go): any *)
(* of them may change the record, and the batch processor (batch.go)       *)
(* enqueues a clone of it, which waits in the ring while the processors    *)
(* behind it go on with the original.  Clones are numbered; a number is    *)
(* what the ring holds.                                                    *)
(***************************************************************************)
EXTENDS LogQueue, LogRecord

emitVars == <<vars, recordVars>>

EmitInit == Init /\ RecordInit

(* BatchProcessor.OnEmit. *)
OnEmit ==
  /\ Len(cloned) + 1 \in Records
  /\ Clone
  /\ Enqueue(Len(cloned) + 1)

EmitNext ==
  \/ RecordNext /\ UNCHANGED vars
  \/ OnEmit
  \/ /\ \/ \E n \in 0..len : TryDequeue(n)
        \/ Flush
        \/ Dropped
     /\ UNCHANGED recordVars

EmitSpec == EmitInit /\ [][EmitNext]_emitVars
=============================================================================
