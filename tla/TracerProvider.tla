--------------------------- MODULE TracerProvider ---------------------------
(***************************************************************************)
(* The list of span processors of sdk/trace/provider.go: a copy-on-write   *)
(* slice behind an atomic pointer, written under a mutex that is also held *)
(* while processors are shut down, and read without it by ForceFlush.      *)
(*                                                                         *)
(* A registration stands for the spanProcessorState it creates; the same   *)
(* processor may be registered more than once.                             *)
(***************************************************************************)
EXTENDS Integers, SequencesExt

CONSTANTS
  Processors,
  Registers,     (* the RegisterSpanProcessor calls                         *)
  Unregisters,   (* the UnregisterSpanProcessor calls                       *)
  Target,        (* the processor each of those calls is given              *)
  Shutdowns,     (* the Shutdown calls                                      *)
  Flushes,       (* the ForceFlush calls                                    *)
  Cancellable,   (* the Shutdown and ForceFlush calls with a mortal context *)
  Reentrant,     (* the processors whose Shutdown calls Tracer              *)
  WellUsed,      (* only processors that are registered are unregistered    *)
  NoCall         (* the owner of a free mutex                               *)

Writers == Registers \cup Unregisters \cup Shutdowns
Calls == Writers \cup Flushes

ASSUME TargetAssumption ==
  /\ Target \in [Registers \cup Unregisters -> Processors]
  /\ Reentrant \subseteq Processors
  /\ Cancellable \subseteq Shutdowns \cup Flushes
  /\ NoCall \notin Writers
  /\ WellUsed \in BOOLEAN

(* A call is one thing only. *)
ASSUME DistinctAssumption ==
  /\ Registers \cap (Unregisters \cup Shutdowns \cup Flushes) = {}
  /\ Unregisters \cap (Shutdowns \cup Flushes) = {}
  /\ Shutdowns \cap Flushes = {}

VARIABLES
  mu,          (* the owner of p.mu                                         *)
  list,        (* p.spanProcessors                                          *)
  isShutdown,  (* p.isShutdown                                              *)
  once,        (* the registrations whose sync.Once has run                 *)
  stopping,    (* the registrations a call of sp.Shutdown is running for    *)
  cancelled,   (* the calls whose context is done                           *)
  pc,          (* where each call is                                        *)
  todo,        (* what each call keeps of the list it loaded: the processors *)
               (* it has still to visit, or the list it will store          *)
  registered,  (* history: the registrations, in order                      *)
  stopped      (* history: registrations shut down by the provider's        *)
               (* Shutdown, in order                                        *)

vars == <<mu, list, isShutdown, once, stopping, cancelled, pc, todo,
          registered, stopped>>

Init ==
  /\ mu = NoCall /\ list = <<>> /\ isShutdown = FALSE
  /\ once = {} /\ stopping = {} /\ cancelled = {}
  /\ pc = [c \in Calls |-> "idle"]
  /\ todo = [c \in Calls |-> <<>>]
  /\ registered = <<>> /\ stopped = <<>>

Goto(c, place) == pc' = [pc EXCEPT ![c] = place]

Cancel(c) ==
  /\ c \in Cancellable \ cancelled
  /\ cancelled' = cancelled \cup {c}
  /\ UNCHANGED <<mu, list, isShutdown, once, stopping, pc, todo, registered,
                 stopped>>

-----------------------------------------------------------------------------
(* The writers look at isShutdown before they take the mutex and again     *)
(* once they have it.                                                      *)

Enter(c) ==
  /\ pc[c] = "idle"
  /\ c \in Unregisters /\ WellUsed =>
       \E r \in Registers : Target[r] = Target[c] /\ pc[r] = "done"
  /\ Goto(c, IF isShutdown THEN "ignored" ELSE "lock")
  /\ UNCHANGED <<mu, list, isShutdown, once, stopping, cancelled, todo,
                 registered, stopped>>

NoLock(c) == pc[c] = "lock"                            \* mutant: no Lock

Locks(c) == pc[c] = "lock" /\ mu = NoCall

NotRechecked == FALSE                                  \* mutant: one check only

ShutDownMeanwhile == isShutdown

Ignore(c) ==
  /\ Locks(c)
  /\ ShutDownMeanwhile \/ (c \in Unregisters /\ list = <<>>)
  /\ Goto(c, "ignored")
  /\ UNCHANGED <<mu, list, isShutdown, once, stopping, cancelled, todo,
                 registered, stopped>>

AtTheFront(l, r) == <<r>> \o l                         \* mutant: prepended

Extended(l, r) == Append(l, r)

Register(r) ==
  /\ Locks(r) /\ ~ShutDownMeanwhile
  /\ list' = Extended(list, r)
  /\ registered' = Append(registered, r)
  /\ Goto(r, "done")
  /\ UNCHANGED <<mu, isShutdown, once, stopping, cancelled, todo, stopped>>

(* idx and stopOnce: the last entry for the processor; without one, idx is *)
(* left at the first entry of the list and nothing is stopped.             *)
Matches(u) == {i \in DOMAIN list : Target[list[i]] = Target[u]}

IndexToRemove(u) == IF Matches(u) = {} THEN 1 ELSE Max(Matches(u))

Shortened(l, i) == RemoveAt(l, i)

UnregisterBegin(u) ==
  /\ Locks(u) /\ ~ShutDownMeanwhile
  /\ list # <<>>
  /\ mu' = u
  /\ LET fresh == {list[i] : i \in Matches(u) \cap {IndexToRemove(u)}} \ once
     IN  once' = once \cup fresh /\ stopping' = stopping \cup fresh
  /\ todo' = [todo EXCEPT ![u] = Shortened(list, IndexToRemove(u))]
  /\ Goto(u, "stop")
  /\ UNCHANGED <<list, isShutdown, cancelled, registered, stopped>>

AtTheMutex == mu = NoCall                   \* mutant: isShutdown read late

TracerReturns == isShutdown \/ mu = NoCall

(* sp.Shutdown of the registration returns, but not while a call of Tracer *)
(* that it makes waits for the mutex its caller holds.                     *)
StopReturns(r) ==
  /\ r \in stopping
  /\ Target[r] \in Reentrant => TracerReturns
  /\ stopping' = stopping \ {r}
  /\ UNCHANGED <<mu, list, isShutdown, once, cancelled, pc, todo, registered,
                 stopped>>

UnregisterEnd(u) ==
  /\ pc[u] = "stop" /\ u \in Unregisters
  /\ stopping = {}
  /\ list' = todo[u]
  /\ mu' = NoCall
  /\ Goto(u, "done")
  /\ UNCHANGED <<isShutdown, once, stopping, cancelled, todo, registered,
                 stopped>>

ShutdownBegin(s) ==
  /\ Locks(s) /\ ~ShutDownMeanwhile
  /\ isShutdown' = TRUE
  /\ mu' = s
  /\ todo' = [todo EXCEPT ![s] = list]
  /\ Goto(s, "stop")
  /\ UNCHANGED <<list, once, stopping, cancelled, registered, stopped>>

(* One turn of the loop: the context is done, and the rest is left; or the *)
(* next processor is shut down, unless its Once has run.                   *)
ShutdownGivesUp(s) ==
  /\ pc[s] = "stop" /\ s \in Shutdowns
  /\ stopping = {} /\ todo[s] # <<>>
  /\ s \in cancelled
  /\ mu' = NoCall
  /\ Goto(s, "ctxErr")
  /\ UNCHANGED <<list, isShutdown, once, stopping, cancelled, todo,
                 registered, stopped>>

ShutdownStops(s) ==
  /\ pc[s] = "stop" /\ s \in Shutdowns
  /\ stopping = {} /\ todo[s] # <<>>
  /\ s \notin cancelled
  /\ LET fresh == {Head(todo[s])} \ once
     IN  once' = once \cup fresh /\ stopping' = fresh
  /\ stopped' = Append(stopped, Head(todo[s]))
  /\ todo' = [todo EXCEPT ![s] = Tail(@)]
  /\ UNCHANGED <<mu, list, isShutdown, cancelled, pc, registered>>

ShutdownEnd(s) ==
  /\ pc[s] = "stop" /\ s \in Shutdowns
  /\ stopping = {} /\ todo[s] = <<>>
  /\ list' = <<>>
  /\ mu' = NoCall
  /\ Goto(s, "done")
  /\ UNCHANGED <<isShutdown, once, stopping, cancelled, todo, registered,
                 stopped>>

-----------------------------------------------------------------------------
(* ForceFlush loads the list once and calls every processor in it. *)

Load(f) ==
  /\ pc[f] = "idle"
  /\ todo' = [todo EXCEPT ![f] = list]
  /\ Goto(f, "visit")
  /\ UNCHANGED <<mu, list, isShutdown, once, stopping, cancelled, registered,
                 stopped>>

Visit(f) ==
  /\ pc[f] = "visit"
  /\ IF todo[f] = <<>> \/ f \in cancelled
     THEN /\ Goto(f, IF todo[f] = <<>> THEN "done" ELSE "ctxErr")
          /\ UNCHANGED <<todo>>
     ELSE /\ todo' = [todo EXCEPT ![f] = Tail(@)]
          /\ UNCHANGED pc
  /\ UNCHANGED <<mu, list, isShutdown, once, stopping, cancelled, registered,
                 stopped>>

(* A processor's ForceFlush fails: the provider returns its error. *)
FlushFails(f) ==
  /\ pc[f] = "visit" /\ todo[f] # <<>>
  /\ f \notin cancelled
  /\ Goto(f, "failed")
  /\ UNCHANGED <<mu, list, isShutdown, once, stopping, cancelled, todo,
                 registered, stopped>>

-----------------------------------------------------------------------------
Proceed(c) ==
  \/ Ignore(c)
  \/ c \in Registers /\ Register(c)
  \/ c \in Unregisters /\ (UnregisterBegin(c) \/ UnregisterEnd(c))
  \/ c \in Shutdowns /\ (ShutdownBegin(c) \/ ShutdownGivesUp(c)
                           \/ ShutdownStops(c) \/ ShutdownEnd(c))

Next ==
  \/ \E c \in Cancellable : Cancel(c)
  \/ \E c \in Writers : Enter(c) \/ Proceed(c)
  \/ \E r \in Registers : StopReturns(r)
  \/ \E f \in Flushes : Load(f) \/ Visit(f) \/ FlushFails(f)

Spec == Init /\ [][Next]_vars

(* Goroutines are scheduled, processors return from Shutdown unless they   *)
(* wait for the mutex, and the mutex serves its waiters.                   *)
FairSpec ==
  /\ Spec
  /\ \A c \in Writers : WF_vars(Proceed(c))
  /\ \A r \in Registers : WF_vars(StopReturns(r))
  /\ \A f \in Flushes : WF_vars(Visit(f))

-----------------------------------------------------------------------------
(* Properties. *)

Finished == {"done", "ignored", "ctxErr", "failed"}

(* A registration is never lost to a concurrent writer: once the call has  *)
(* returned, the processor is in the list, or it has been shut down.       *)
NoRegistrationLost ==
  \A r \in Registers : pc[r] = "done" => r \in ToSet(list) \cup once

(* No processor is registered behind the back of a Shutdown that has       *)
(* returned nil: the list is empty for good and everything ever            *)
(* registered has been shut down.                                          *)
ShutdownIsFinal ==
  (\E s \in Shutdowns : pc[s] = "done") =>
    /\ list = <<>>
    /\ \A r \in Registers : pc[r] = "done" => r \in once \ stopping

(* "All registered span processors are shut down in the order they were    *)
(* registered" (provider.go, Shutdown), and none twice: what Shutdown has  *)
(* stopped and has still to stop is in the order of the registrations,     *)
(* however they were interleaved with the removals.                        *)
ShutdownOrder ==
  \A s \in Shutdowns : pc[s] # "idle" /\ mu = s =>
    LET all == stopped \o todo[s]
        rank(r) == CHOOSE i \in DOMAIN registered : registered[i] = r
    IN  \A i, j \in DOMAIN all : i < j => rank(all[i]) < rank(all[j])

(* Every call returns, also one that found the mutex held by a Shutdown.   *)
Pending == {c \in Calls : pc[c] \notin Finished \cup {"idle"}}

CallsReturn == Pending # {} ~> Pending = {}

(* "UnregisterSpanProcessor removes the given SpanProcessor from the list" *)
(* (provider.go): and no other one.                                        *)
OnlyTheGivenIsRemoved ==
  ~isShutdown => \A r \in Registers :
    pc[r] = "done" /\ r \notin ToSet(list)
      => \E u \in Unregisters : Target[u] = Target[r]
=============================================================================
