------------------------------ MODULE SpanLife ------------------------------
(***************************************************************************)
(* A span and the simple processor it is exported by: End calls OnEnd with *)
(* the snapshot, in the goroutine that ends the span.                      *)
(***************************************************************************)
EXTENDS Span, SimpleSpanProcessor

(* The goroutines that end spans are those that use the span.              *)
ASSUME EnderAssumption == Threads \subseteq Enders

lifeVars == <<vars, sspVars>>

LifeInit == Init /\ SspInit

OnEnd(t) ==
  /\ pc[t] = "OnEnd"
  /\ \/ OnEndExports(t, arg[t].n) /\ Goto(t, "export") /\ UNCHANGED arg
     \/ OnEndIgnores /\ Goto(t, "idle") /\ arg' = [arg EXCEPT ![t] = NoArg]
  /\ UNCHANGED <<starting, spanVars, calls, snaps, worker>>

Exported(t) ==
  /\ pc[t] = "export"
  /\ ExportReturns(t)
  /\ Return(t)
  /\ UNCHANGED <<starting, spanVars, snaps, worker>>

LifeNext ==
  \/ SpanNext /\ UNCHANGED sspVars
  \/ \E t \in Threads : OnEnd(t) \/ Exported(t)
  \/ SspNext /\ UNCHANGED vars

InCall(t) ==
  \/ LateSetAttributes(t) \/ LateAdd(t) \/ LateSetStatus(t) \/ LateAddChild(t)
  \/ EndPanicEvent(t) \/ EndMark(t) \/ Snapshot(t)

(* Goroutines go on within a call, and ExportSpans and the exporter's      *)
(* Shutdown return.  Nobody has to make a call, and no context has to end. *)
Fairness ==
  /\ \A t \in Threads :
       /\ WF_lifeVars(InCall(t) /\ UNCHANGED sspVars)
       /\ WF_lifeVars(OnEnd(t))
       /\ WF_lifeVars(Exported(t))
  /\ WF_lifeVars(WorkerNext /\ UNCHANGED vars)
  /\ \A p \in Stoppers : WF_lifeVars((AfterOthers(p) \/ TakeExporter(p) \/ Done(p)) /\ UNCHANGED vars)

Spec == LifeInit /\ [][LifeNext]_lifeVars

FairSpec == Spec /\ Fairness

-----------------------------------------------------------------------------
(* Properties. *)

(* When a span has ended and its goroutines are done, every snapshot taken *)
(* of it has reached the exporter, and there is one, unless Shutdown took  *)
(* the exporter away, however many goroutines called End (span.go, End).   *)
EndedIsExported ==
  ended /\ Sampled /\ exporter /\ (\A t \in Threads : pc[t] = "idle") =>
    snaps # <<>> /\ \A n \in DOMAIN snaps : \E i \in DOMAIN exported : exported[i] = n

(* Shutdown returns: the exporter's Shutdown, which may end a span and so  *)
(* call OnEnd, does not meet the lock held by Shutdown.                    *)
ShutdownReturns ==
  (\E p \in Stoppers : stopPc[p] \in {"lock", "once", "select"})
    ~> (\A p \in Stoppers : stopPc[p] \notin {"lock", "once", "select"})
=============================================================================
