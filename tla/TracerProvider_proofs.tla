------------------------ MODULE TracerProvider_proofs ------------------------
(***************************************************************************)
(* Proofs about the list of span processors of sdk/trace/provider.go: the  *)
(* properties of module TracerProvider for any number of processors,       *)
(* registrations and concurrent calls.                                     *)
(***************************************************************************)
EXTENDS TracerProvider, SequenceTheorems, SequenceLemmas, TLAPS

-----------------------------------------------------------------------------
(* Type correctness. *)

Places == {"idle", "lock", "ignored", "done", "stop", "ctxErr", "visit",
           "failed"}

TypeOK ==
  /\ mu \in Writers \cup {NoCall}
  /\ list \in Seq(Registers)
  /\ isShutdown \in BOOLEAN
  /\ once \in SUBSET Registers
  /\ stopping \in SUBSET Registers
  /\ cancelled \in SUBSET Cancellable
  /\ pc \in [Calls -> Places]
  /\ todo \in [Calls -> Seq(Registers)]
  /\ registered \in Seq(Registers)
  /\ stopped \in Seq(Registers)

LEMMA MatchesArePositions ==
  ASSUME TypeOK, NEW u \in Unregisters
  PROVE  /\ Matches(u) \in SUBSET (1 .. Len(list))
         /\ list # <<>> => IndexToRemove(u) \in 1 .. Len(list)
         /\ Matches(u) # {} => IndexToRemove(u) \in Matches(u)
<1>1. Len(list) \in Nat /\ Matches(u) \in SUBSET (1 .. Len(list))
  BY DEF TypeOK, Matches
<1>2. CASE Matches(u) = {}
  <2>1. list # <<>> => 1 \in 1 .. Len(list)
    BY DEF TypeOK
  <2> QED BY <1>1, <1>2, <2>1 DEF IndexToRemove
<1>3. CASE Matches(u) # {}
  <2>1. Max(Matches(u)) \in Matches(u)
    BY <1>1, <1>3, MaxOfPositions
  <2> QED BY <1>1, <1>3, <2>1 DEF IndexToRemove
<1> QED BY <1>2, <1>3

LEMMA InitTypeOK == Init => TypeOK
<1> SUFFICES ASSUME Init PROVE TypeOK
  OBVIOUS
<1>1. <<>> \in Seq(Registers)
  OBVIOUS
<1>2. pc \in [Calls -> Places] /\ todo \in [Calls -> Seq(Registers)]
  BY <1>1 DEF Init, Places
<1> QED BY <1>1, <1>2 DEF Init, TypeOK

LEMMA NextTypeOK == TypeOK /\ [Next]_vars => TypeOK'
<1> SUFFICES ASSUME TypeOK, [Next]_vars PROVE TypeOK'
  OBVIOUS
<1> USE TargetAssumption, DistinctAssumption
    DEF TypeOK, Places, Calls, Writers, Goto
<1>1. ASSUME NEW c \in Cancellable, Cancel(c) PROVE TypeOK'
  BY <1>1 DEF Cancel
<1>2. ASSUME NEW c \in Writers, Enter(c) PROVE TypeOK'
  BY <1>2 DEF Enter
<1>3. ASSUME NEW c \in Writers, Ignore(c) PROVE TypeOK'
  BY <1>3 DEF Ignore, Locks
<1>4. ASSUME NEW r \in Registers, Register(r) PROVE TypeOK'
  BY <1>4 DEF Register, Locks, Extended
<1>5. ASSUME NEW u \in Unregisters, UnregisterBegin(u) PROVE TypeOK'
  <2>1. IndexToRemove(u) \in 1 .. Len(list)
    BY <1>5, MatchesArePositions DEF UnregisterBegin
  <2>2. Shortened(list, IndexToRemove(u)) \in Seq(Registers)
    BY <2>1, RemoveAtProperties DEF Shortened
  <2>3. {list[i] : i \in Matches(u) \cap {IndexToRemove(u)}} \subseteq Registers
    BY <2>1
  <2>4. u \in Calls
    OBVIOUS
  <2>5. once' \in SUBSET Registers /\ stopping' \in SUBSET Registers
    BY <1>5, <2>3 DEF UnregisterBegin
  <2>6. todo' \in [Calls -> Seq(Registers)] /\ pc' \in [Calls -> Places]
    BY <1>5, <2>2, <2>4 DEF UnregisterBegin
  <2> QED BY <1>5, <2>5, <2>6 DEF UnregisterBegin
<1>6. ASSUME NEW u \in Unregisters, UnregisterEnd(u) PROVE TypeOK'
  BY <1>6 DEF UnregisterEnd
<1>7. ASSUME NEW s \in Shutdowns, ShutdownBegin(s) PROVE TypeOK'
  BY <1>7 DEF ShutdownBegin, Locks
<1>8. ASSUME NEW s \in Shutdowns, ShutdownGivesUp(s) PROVE TypeOK'
  BY <1>8 DEF ShutdownGivesUp
<1>9. ASSUME NEW s \in Shutdowns, ShutdownStops(s) PROVE TypeOK'
  <2>1. Head(todo[s]) \in Registers /\ Tail(todo[s]) \in Seq(Registers)
    BY <1>9 DEF ShutdownStops
  <2> QED BY <1>9, <2>1 DEF ShutdownStops
<1>10. ASSUME NEW s \in Shutdowns, ShutdownEnd(s) PROVE TypeOK'
  BY <1>10 DEF ShutdownEnd
<1>11. ASSUME NEW r \in Registers, StopReturns(r) PROVE TypeOK'
  BY <1>11 DEF StopReturns
<1>12. ASSUME NEW f \in Flushes, Load(f) PROVE TypeOK'
  BY <1>12 DEF Load
<1>13. ASSUME NEW f \in Flushes, Visit(f) PROVE TypeOK'
  <2>1. CASE todo[f] = <<>> \/ f \in cancelled
    BY <1>13, <2>1 DEF Visit
  <2>2. CASE ~(todo[f] = <<>> \/ f \in cancelled)
    <3>1. Tail(todo[f]) \in Seq(Registers)
      BY <2>2
    <3>2. todo' = [todo EXCEPT ![f] = Tail(@)]
      BY <1>13, <2>2 DEF Visit
    <3> QED BY <1>13, <2>2, <3>1, <3>2 DEF Visit
  <2> QED BY <2>1, <2>2
<1>14. ASSUME NEW f \in Flushes, FlushFails(f) PROVE TypeOK'
  BY <1>14 DEF FlushFails
<1>15. ASSUME UNCHANGED vars PROVE TypeOK'
  BY <1>15 DEF vars
<1> HIDE DEF TypeOK, Places, Calls, Writers, Goto
<1> QED
  BY <1>1, <1>2, <1>3, <1>4, <1>5, <1>6, <1>7, <1>8, <1>9, <1>10, <1>11,
     <1>12, <1>13, <1>14, <1>15 DEF Next, Proceed

-----------------------------------------------------------------------------
(* The inductive invariant. *)

(* p.mu is held exactly by the call that is shutting processors down. *)
MutexInv ==
  /\ \A c \in Writers : mu = c <=> pc[c] = "stop"
  /\ \A r \in Registers : pc[r] # "stop"

(* A registration is recorded once, when its call returns. *)
RegisteredInv ==
  /\ IsInjective(registered)
  /\ \A r \in Registers : pc[r] = "done" <=> r \in ToSet(registered)

(* The list an UnregisterSpanProcessor holds back is the current one       *)
(* without one entry, which nothing changes until it stores it.            *)
RemovalInv ==
  \A u \in Unregisters : pc[u] = "stop" =>
    /\ ~isShutdown
    /\ \E k \in 1 .. Len(list) : todo[u] = RemoveAt(list, k)

(* One Shutdown only gets past isShutdown; what it has stopped and has     *)
(* still to stop is the list, and after it nothing is being stopped.       *)
Past(s) == pc[s] \in {"stop", "done", "ctxErr"}

ShutdownInv ==
  /\ ~isShutdown => stopped = <<>> /\ \A s \in Shutdowns : ~Past(s)
  /\ \A s, t \in Shutdowns : Past(s) /\ Past(t) => s = t
  /\ \A s \in Shutdowns : pc[s] = "stop" =>
       stopped \o todo[s] = list /\ ToSet(stopped) \subseteq once
  /\ \A s \in Shutdowns : pc[s] = "done" => list = <<>> /\ stopping = {}

ListInv ==
  MutexInv /\ RegisteredInv /\ Ranked(list, registered) /\ RemovalInv /\ ShutdownInv

(* When each processor is unregistered by one call at most, and after it   *)
(* was registered, a call that looks for its processor finds it.           *)
OneUnregisterEach ==
  /\ WellUsed
  /\ \A u, v \in Unregisters : Target[u] = Target[v] => u = v

LossInv ==
  /\ \A u \in Unregisters : pc[u] = "lock" =>
       \E r \in Registers : Target[r] = Target[u] /\ pc[r] = "done"
  /\ ~isShutdown => \A r \in Registers :
       pc[r] = "done" /\ r \notin ToSet(list)
         => \E u \in Unregisters : Target[u] = Target[r] /\ pc[u] = "done"
  /\ \A u \in Unregisters : pc[u] = "stop" =>
       \E k \in 1 .. Len(list) :
          /\ todo[u] = RemoveAt(list, k)
          /\ list[k] \in once /\ Target[list[k]] = Target[u]
  /\ NoRegistrationLost

-----------------------------------------------------------------------------
(* It holds initially and every step keeps it. *)

LEMMA InitListInv == Init => ListInv
  BY TargetAssumption, DistinctAssumption
  DEF Init, ListInv, MutexInv, RegisteredInv, Ranked, RemovalInv, ShutdownInv,
      Past, ToSet, IsInjective, Writers, Calls

LEMMA NextMutexInv ==
  TypeOK /\ MutexInv /\ [Next]_vars => MutexInv'
<1> SUFFICES ASSUME TypeOK, MutexInv, [Next]_vars
             PROVE  MutexInv'
  OBVIOUS
<1> USE TargetAssumption, DistinctAssumption
    DEF TypeOK, Calls, Writers, Goto, Locks, ShutDownMeanwhile, MutexInv
<1>1. ASSUME NEW c \in Cancellable, Cancel(c) PROVE MutexInv'
  BY <1>1 DEF Cancel
<1>2. ASSUME NEW c \in Writers, Enter(c) PROVE MutexInv'
  BY <1>2 DEF Enter
<1>3. ASSUME NEW c \in Writers, Ignore(c) PROVE MutexInv'
  BY <1>3 DEF Ignore
<1>4. ASSUME NEW r \in Registers, Register(r) PROVE MutexInv'
  BY <1>4 DEF Register
<1>5. ASSUME NEW u \in Unregisters, UnregisterBegin(u) PROVE MutexInv'
  BY <1>5 DEF UnregisterBegin
<1>6. ASSUME NEW u \in Unregisters, UnregisterEnd(u) PROVE MutexInv'
  BY <1>6 DEF UnregisterEnd
<1>7. ASSUME NEW s \in Shutdowns, ShutdownBegin(s) PROVE MutexInv'
  BY <1>7 DEF ShutdownBegin
<1>8. ASSUME NEW s \in Shutdowns, ShutdownGivesUp(s) PROVE MutexInv'
  BY <1>8 DEF ShutdownGivesUp
<1>9. ASSUME NEW s \in Shutdowns, ShutdownStops(s) PROVE MutexInv'
  BY <1>9 DEF ShutdownStops
<1>10. ASSUME NEW s \in Shutdowns, ShutdownEnd(s) PROVE MutexInv'
  BY <1>10 DEF ShutdownEnd
<1>11. ASSUME NEW r \in Registers, StopReturns(r) PROVE MutexInv'
  BY <1>11 DEF StopReturns
<1>12. ASSUME NEW f \in Flushes, Load(f) PROVE MutexInv'
  BY <1>12 DEF Load
<1>13. ASSUME NEW f \in Flushes, Visit(f) PROVE MutexInv'
  BY <1>13 DEF Visit
<1>14. ASSUME NEW f \in Flushes, FlushFails(f) PROVE MutexInv'
  BY <1>14 DEF FlushFails
<1>15. ASSUME UNCHANGED vars PROVE MutexInv'
  BY <1>15 DEF vars
<1> QED
  BY <1>1, <1>2, <1>3, <1>4, <1>5, <1>6, <1>7, <1>8, <1>9, <1>10, <1>11,
     <1>12, <1>13, <1>14, <1>15 DEF Next, Proceed

LEMMA NextRegisteredInv ==
  TypeOK /\ RegisteredInv /\ [Next]_vars => RegisteredInv'
<1> SUFFICES ASSUME TypeOK, RegisteredInv, [Next]_vars
             PROVE  RegisteredInv'
  OBVIOUS
<1> USE TargetAssumption, DistinctAssumption
    DEF TypeOK, Calls, Writers, Goto, Locks, ShutDownMeanwhile, RegisteredInv
<1>1. ASSUME NEW c \in Cancellable, Cancel(c) PROVE RegisteredInv'
  BY <1>1 DEF Cancel
<1>2. ASSUME NEW c \in Writers, Enter(c) PROVE RegisteredInv'
  BY <1>2 DEF Enter
<1>3. ASSUME NEW c \in Writers, Ignore(c) PROVE RegisteredInv'
  BY <1>3 DEF Ignore
<1>4. ASSUME NEW r \in Registers, Register(r) PROVE RegisteredInv'
  <2>1. /\ registered' = Append(registered, r)
        /\ pc' = [pc EXCEPT ![r] = "done"]
        /\ pc[r] = "lock"
    BY <1>4 DEF Register
  <2>2. r \in Registers /\ registered \in Seq(Registers)
    OBVIOUS
  <2>3. r \notin ToSet(registered)
    BY <2>1
  <2>4. IsInjective(registered')
    BY <2>1, <2>2, <2>3, AppendKeepsInjective
  <2>5. ASSUME NEW q \in Registers
        PROVE  pc'[q] = "done" <=> q \in ToSet(registered')
    <3>1. ToSet(registered') = ToSet(registered) \cup {r}
      BY <2>1, <2>2, AppendToSet
    <3>2. pc'[q] = "done" <=> q = r \/ pc[q] = "done"
      BY <2>1
    <3> QED BY <3>1, <3>2
  <2> QED BY <2>4, <2>5
<1>5. ASSUME NEW u \in Unregisters, UnregisterBegin(u) PROVE RegisteredInv'
  BY <1>5 DEF UnregisterBegin
<1>6. ASSUME NEW u \in Unregisters, UnregisterEnd(u) PROVE RegisteredInv'
  BY <1>6 DEF UnregisterEnd
<1>7. ASSUME NEW s \in Shutdowns, ShutdownBegin(s) PROVE RegisteredInv'
  BY <1>7 DEF ShutdownBegin
<1>8. ASSUME NEW s \in Shutdowns, ShutdownGivesUp(s) PROVE RegisteredInv'
  BY <1>8 DEF ShutdownGivesUp
<1>9. ASSUME NEW s \in Shutdowns, ShutdownStops(s) PROVE RegisteredInv'
  BY <1>9 DEF ShutdownStops
<1>10. ASSUME NEW s \in Shutdowns, ShutdownEnd(s) PROVE RegisteredInv'
  BY <1>10 DEF ShutdownEnd
<1>11. ASSUME NEW r \in Registers, StopReturns(r) PROVE RegisteredInv'
  BY <1>11 DEF StopReturns
<1>12. ASSUME NEW f \in Flushes, Load(f) PROVE RegisteredInv'
  BY <1>12 DEF Load
<1>13. ASSUME NEW f \in Flushes, Visit(f) PROVE RegisteredInv'
  BY <1>13 DEF Visit
<1>14. ASSUME NEW f \in Flushes, FlushFails(f) PROVE RegisteredInv'
  BY <1>14 DEF FlushFails
<1>15. ASSUME UNCHANGED vars PROVE RegisteredInv'
  BY <1>15 DEF vars
<1> QED
  BY <1>1, <1>2, <1>3, <1>4, <1>5, <1>6, <1>7, <1>8, <1>9, <1>10, <1>11,
     <1>12, <1>13, <1>14, <1>15 DEF Next, Proceed

LEMMA NextRanked ==
  TypeOK /\ RegisteredInv /\ RemovalInv /\ Ranked(list, registered) /\ [Next]_vars => Ranked(list, registered)'
<1> SUFFICES ASSUME TypeOK, RegisteredInv, RemovalInv, Ranked(list, registered), [Next]_vars
             PROVE  Ranked(list, registered)'
  OBVIOUS
<1> USE TargetAssumption, DistinctAssumption
    DEF TypeOK, Calls, Writers, Goto, Locks, ShutDownMeanwhile
<1>1. ASSUME NEW c \in Cancellable, Cancel(c) PROVE Ranked(list, registered)'
  BY <1>1 DEF Cancel
<1>2. ASSUME NEW c \in Writers, Enter(c) PROVE Ranked(list, registered)'
  BY <1>2 DEF Enter
<1>3. ASSUME NEW c \in Writers, Ignore(c) PROVE Ranked(list, registered)'
  BY <1>3 DEF Ignore
<1>4. ASSUME NEW r \in Registers, Register(r) PROVE Ranked(list, registered)'
  <2>1. /\ registered' = Append(registered, r) /\ list' = Append(list, r)
        /\ pc[r] # "done"
    BY <1>4 DEF Register, Extended
  <2>2. \A i \in DOMAIN registered : registered[i] # r
    BY <2>1 DEF RegisteredInv, ToSet
  <2>3. list \in Seq(Registers) /\ registered \in Seq(Registers)
    OBVIOUS
  <2> QED BY <2>1, <2>2, <2>3, RankedAppend
<1>5. ASSUME NEW u \in Unregisters, UnregisterBegin(u) PROVE Ranked(list, registered)'
  BY <1>5 DEF UnregisterBegin
<1>6. ASSUME NEW u \in Unregisters, UnregisterEnd(u) PROVE Ranked(list, registered)'
  <2>1. PICK k \in 1 .. Len(list) : list' = RemoveAt(list, k)
    BY <1>6 DEF UnregisterEnd, RemovalInv
  <2>2. Ranked(RemoveAt(list, k), registered)
    BY RankedRemoval
  <2> QED BY <1>6, <2>1, <2>2 DEF UnregisterEnd
<1>7. ASSUME NEW s \in Shutdowns, ShutdownBegin(s) PROVE Ranked(list, registered)'
  BY <1>7 DEF ShutdownBegin
<1>8. ASSUME NEW s \in Shutdowns, ShutdownGivesUp(s) PROVE Ranked(list, registered)'
  BY <1>8 DEF ShutdownGivesUp
<1>9. ASSUME NEW s \in Shutdowns, ShutdownStops(s) PROVE Ranked(list, registered)'
  BY <1>9 DEF ShutdownStops
<1>10. ASSUME NEW s \in Shutdowns, ShutdownEnd(s) PROVE Ranked(list, registered)'
  <2>1. Ranked(<<>>, registered)
    BY DEF Ranked
  <2> QED BY <1>10, <2>1 DEF ShutdownEnd
<1>11. ASSUME NEW r \in Registers, StopReturns(r) PROVE Ranked(list, registered)'
  BY <1>11 DEF StopReturns
<1>12. ASSUME NEW f \in Flushes, Load(f) PROVE Ranked(list, registered)'
  BY <1>12 DEF Load
<1>13. ASSUME NEW f \in Flushes, Visit(f) PROVE Ranked(list, registered)'
  BY <1>13 DEF Visit
<1>14. ASSUME NEW f \in Flushes, FlushFails(f) PROVE Ranked(list, registered)'
  BY <1>14 DEF FlushFails
<1>15. ASSUME UNCHANGED vars PROVE Ranked(list, registered)'
  BY <1>15 DEF vars
<1> QED
  BY <1>1, <1>2, <1>3, <1>4, <1>5, <1>6, <1>7, <1>8, <1>9, <1>10, <1>11,
     <1>12, <1>13, <1>14, <1>15 DEF Next, Proceed

LEMMA NextRemovalInv ==
  TypeOK /\ MutexInv /\ RemovalInv /\ [Next]_vars => RemovalInv'
<1> SUFFICES ASSUME TypeOK, MutexInv, RemovalInv, [Next]_vars
             PROVE  RemovalInv'
  OBVIOUS
<1> USE TargetAssumption, DistinctAssumption
    DEF TypeOK, Calls, Writers, Goto, Locks, ShutDownMeanwhile, RemovalInv
<1>1. ASSUME NEW c \in Cancellable, Cancel(c) PROVE RemovalInv'
  BY <1>1 DEF Cancel
<1>2. ASSUME NEW c \in Writers, Enter(c) PROVE RemovalInv'
  BY <1>2 DEF Enter
<1>3. ASSUME NEW c \in Writers, Ignore(c) PROVE RemovalInv'
  BY <1>3 DEF Ignore
<1>4. ASSUME NEW r \in Registers, Register(r) PROVE RemovalInv'
  BY <1>4 DEF Register, MutexInv
<1>5. ASSUME NEW u \in Unregisters, UnregisterBegin(u) PROVE RemovalInv'
  <2>1. IndexToRemove(u) \in 1 .. Len(list)
    BY <1>5, MatchesArePositions DEF UnregisterBegin
  <2>2. /\ ~isShutdown' /\ list' = list /\ mu = NoCall
        /\ pc' = [pc EXCEPT ![u] = "stop"]
        /\ todo' = [todo EXCEPT ![u] = RemoveAt(list, IndexToRemove(u))]
    BY <1>5 DEF UnregisterBegin, Shortened
  <2>3. \A v \in Unregisters \ {u} : pc'[v] # "stop"
    BY <2>2 DEF MutexInv
  <2> QED BY <2>1, <2>2, <2>3
<1>6. ASSUME NEW u \in Unregisters, UnregisterEnd(u) PROVE RemovalInv'
  BY <1>6 DEF UnregisterEnd, MutexInv
<1>7. ASSUME NEW s \in Shutdowns, ShutdownBegin(s) PROVE RemovalInv'
  BY <1>7 DEF ShutdownBegin, MutexInv
<1>8. ASSUME NEW s \in Shutdowns, ShutdownGivesUp(s) PROVE RemovalInv'
  BY <1>8 DEF ShutdownGivesUp
<1>9. ASSUME NEW s \in Shutdowns, ShutdownStops(s) PROVE RemovalInv'
  BY <1>9 DEF ShutdownStops
<1>10. ASSUME NEW s \in Shutdowns, ShutdownEnd(s) PROVE RemovalInv'
  BY <1>10 DEF ShutdownEnd, MutexInv
<1>11. ASSUME NEW r \in Registers, StopReturns(r) PROVE RemovalInv'
  BY <1>11 DEF StopReturns
<1>12. ASSUME NEW f \in Flushes, Load(f) PROVE RemovalInv'
  BY <1>12 DEF Load
<1>13. ASSUME NEW f \in Flushes, Visit(f) PROVE RemovalInv'
  BY <1>13 DEF Visit
<1>14. ASSUME NEW f \in Flushes, FlushFails(f) PROVE RemovalInv'
  BY <1>14 DEF FlushFails
<1>15. ASSUME UNCHANGED vars PROVE RemovalInv'
  BY <1>15 DEF vars
<1> QED
  BY <1>1, <1>2, <1>3, <1>4, <1>5, <1>6, <1>7, <1>8, <1>9, <1>10, <1>11,
     <1>12, <1>13, <1>14, <1>15 DEF Next, Proceed

LEMMA NextShutdownInv ==
  TypeOK /\ MutexInv /\ RemovalInv /\ ShutdownInv /\ [Next]_vars => ShutdownInv'
<1> SUFFICES ASSUME TypeOK, MutexInv, RemovalInv, ShutdownInv, [Next]_vars
             PROVE  ShutdownInv'
  OBVIOUS
<1> USE TargetAssumption, DistinctAssumption
    DEF TypeOK, Calls, Writers, Goto, Locks, ShutDownMeanwhile, ShutdownInv, Past
<1>1. ASSUME NEW c \in Cancellable, Cancel(c) PROVE ShutdownInv'
  BY <1>1 DEF Cancel
<1>2. ASSUME NEW c \in Writers, Enter(c) PROVE ShutdownInv'
  BY <1>2 DEF Enter
<1>3. ASSUME NEW c \in Writers, Ignore(c) PROVE ShutdownInv'
  BY <1>3 DEF Ignore
<1>4. ASSUME NEW r \in Registers, Register(r) PROVE ShutdownInv'
  BY <1>4 DEF Register, MutexInv
<1>5. ASSUME NEW u \in Unregisters, UnregisterBegin(u) PROVE ShutdownInv'
  BY <1>5 DEF UnregisterBegin, MutexInv
<1>6. ASSUME NEW u \in Unregisters, UnregisterEnd(u) PROVE ShutdownInv'
  BY <1>6 DEF UnregisterEnd, MutexInv, RemovalInv
<1>7. ASSUME NEW s \in Shutdowns, ShutdownBegin(s) PROVE ShutdownInv'
  <2>1. /\ isShutdown' /\ list' = list /\ stopped' = <<>> /\ once' = once
        /\ todo'[s] = list /\ stopping' = stopping
        /\ pc' = [pc EXCEPT ![s] = "stop"]
    BY <1>7 DEF ShutdownBegin
  <2>2. \A t \in Shutdowns : Past(t)' => t = s
    BY <1>7, <2>1 DEF ShutdownBegin
  <2>3. <<>> \o list = list /\ ToSet(<<>>) = {}
    BY DEF ToSet
  <2> QED BY <2>1, <2>2, <2>3
<1>8. ASSUME NEW s \in Shutdowns, ShutdownGivesUp(s) PROVE ShutdownInv'
  BY <1>8 DEF ShutdownGivesUp
<1>9. ASSUME NEW s \in Shutdowns, ShutdownStops(s) PROVE ShutdownInv'
  <2>1. /\ pc[s] = "stop" /\ todo[s] # <<>>
        /\ isShutdown' = isShutdown /\ list' = list /\ pc' = pc
        /\ stopped' = Append(stopped, Head(todo[s]))
        /\ todo'[s] = Tail(todo[s])
        /\ once' = once \cup {Head(todo[s])}
    BY <1>9 DEF ShutdownStops
  <2>2. \A t \in Shutdowns : Past(t) => t = s
    BY <2>1
  <2>3. /\ Head(todo[s]) \in Registers /\ todo[s] \in Seq(Registers)
        /\ stopped \in Seq(Registers)
    BY <2>1
  <2>4. stopped' \o todo'[s] = stopped \o todo[s]
    <3>1. \A l, m \in Seq(Registers) :
            m # <<>> => Append(l, Head(m)) \o Tail(m) = l \o m
      BY AppendHead
    <3>2. Append(stopped, Head(todo[s])) \o Tail(todo[s]) = stopped \o todo[s]
      BY <2>1, <2>3, <3>1
    <3> QED BY <2>1, <3>2
  <2>5. ToSet(stopped') = ToSet(stopped) \cup {Head(todo[s])}
    BY <2>1, <2>3, AppendToSet
  <2> QED BY <2>1, <2>2, <2>4, <2>5
<1>10. ASSUME NEW s \in Shutdowns, ShutdownEnd(s) PROVE ShutdownInv'
  BY <1>10 DEF ShutdownEnd, MutexInv
<1>11. ASSUME NEW r \in Registers, StopReturns(r) PROVE ShutdownInv'
  BY <1>11 DEF StopReturns
<1>12. ASSUME NEW f \in Flushes, Load(f) PROVE ShutdownInv'
  BY <1>12 DEF Load
<1>13. ASSUME NEW f \in Flushes, Visit(f) PROVE ShutdownInv'
  <2>1. \A t \in Shutdowns : pc'[t] = pc[t] /\ todo'[t] = todo[t]
    BY <1>13 DEF Visit
  <2> QED BY <1>13, <2>1 DEF Visit
<1>14. ASSUME NEW f \in Flushes, FlushFails(f) PROVE ShutdownInv'
  BY <1>14 DEF FlushFails
<1>15. ASSUME UNCHANGED vars PROVE ShutdownInv'
  BY <1>15 DEF vars
<1> QED
  BY <1>1, <1>2, <1>3, <1>4, <1>5, <1>6, <1>7, <1>8, <1>9, <1>10, <1>11,
     <1>12, <1>13, <1>14, <1>15 DEF Next, Proceed

LEMMA InitLossInv == Init => LossInv
  BY TargetAssumption, DistinctAssumption
  DEF Init, LossInv, NoRegistrationLost, Writers, Calls

LEMMA NextLossInv ==
  ASSUME OneUnregisterEach
  PROVE  TypeOK /\ ListInv /\ LossInv /\ [Next]_vars => LossInv'
<1> SUFFICES ASSUME TypeOK, ListInv, LossInv, [Next]_vars
             PROVE  LossInv'
  OBVIOUS
<1> USE TargetAssumption, DistinctAssumption
    DEF TypeOK, Calls, Writers, Goto, Locks, ShutDownMeanwhile, LossInv,
        NoRegistrationLost
<1>1. ASSUME NEW c \in Cancellable, Cancel(c) PROVE LossInv'
  BY <1>1 DEF Cancel
<1>2. ASSUME NEW c \in Writers, Enter(c) PROVE LossInv'
  <2>1. /\ \A x \in Calls : pc'[x] # pc[x] =>
             x = c /\ pc[x] = "idle" /\ pc'[x] \in {"ignored", "lock"}
        /\ list' = list /\ once' = once /\ isShutdown' = isShutdown
        /\ todo' = todo
    BY <1>2 DEF Enter
  <2>2. \A q \in Registers : pc'[q] = "done" <=> pc[q] = "done"
    BY <2>1
  <2>3. \A v \in Unregisters : /\ pc'[v] = "done" <=> pc[v] = "done"
                               /\ pc'[v] = "stop" <=> pc[v] = "stop"
    BY <2>1
  <2>4. ASSUME NEW v \in Unregisters, pc'[v] = "lock"
        PROVE  \E r \in Registers : Target[r] = Target[v] /\ pc[r] = "done"
    <3>1. CASE pc[v] = "lock"
      BY <3>1
    <3>2. CASE pc[v] # "lock"
      BY <1>2, <2>1, <2>4, <3>2 DEF Enter, OneUnregisterEach
    <3> QED BY <3>1, <3>2
  <2> HIDE DEF TypeOK
  <2> QED BY <2>1, <2>2, <2>3, <2>4
<1>3. ASSUME NEW c \in Writers, Ignore(c) PROVE LossInv'
  BY <1>3 DEF Ignore
<1>4. ASSUME NEW r \in Registers, Register(r) PROVE LossInv'
  <2>1. /\ pc' = [pc EXCEPT ![r] = "done"] /\ mu = NoCall
        /\ list' = Append(list, r) /\ once' = once /\ ~isShutdown
    BY <1>4 DEF Register, Extended
  <2>2. ToSet(list') = ToSet(list) \cup {r}
    BY <2>1, AppendToSet
  <2>3. \A u \in Unregisters : pc'[u] = pc[u] /\ pc[u] # "stop"
    BY <2>1 DEF ListInv, MutexInv
  <2>4. \A q \in Registers : pc'[q] = "done" <=> q = r \/ pc[q] = "done"
    BY <2>1
  <2> HIDE DEF TypeOK
  <2> QED BY <1>4, <2>1, <2>2, <2>3, <2>4 DEF Register
<1>5. ASSUME NEW u \in Unregisters, UnregisterBegin(u) PROVE LossInv'
  <2>1. /\ pc' = [pc EXCEPT ![u] = "stop"] /\ mu = NoCall /\ pc[u] = "lock"
        /\ list' = list /\ ~isShutdown /\ isShutdown' = isShutdown
        /\ list # <<>>
        /\ todo' = [todo EXCEPT ![u] = RemoveAt(list, IndexToRemove(u))]
        /\ once' = once \cup
             ({list[i] : i \in Matches(u) \cap {IndexToRemove(u)}} \ once)
    BY <1>5 DEF UnregisterBegin, Shortened
  <2>2. PICK r \in Registers : Target[r] = Target[u] /\ pc[r] = "done"
    BY <2>1
  <2>3. r \in ToSet(list)
    <3>1. ASSUME NEW v \in Unregisters, Target[v] = Target[r], pc[v] = "done"
          PROVE  FALSE
      <4>1. v = u
        BY <2>2, <3>1 DEF OneUnregisterEach
      <4> QED BY <2>1, <3>1, <4>1
    <3>2. ~isShutdown
      BY <2>1
    <3>3. ASSUME r \notin ToSet(list)
          PROVE  \E v \in Unregisters : Target[v] = Target[r] /\ pc[v] = "done"
      BY <2>2, <3>2, <3>3
    <3> QED BY <3>1, <3>3
  <2>4. Matches(u) # {}
    BY <2>2, <2>3 DEF Matches, ToSet
  <2>5. /\ IndexToRemove(u) \in 1 .. Len(list)
        /\ IndexToRemove(u) \in Matches(u)
    BY <2>1, <2>4, MatchesArePositions
  <2>6. /\ list[IndexToRemove(u)] \in once'
        /\ Target[list[IndexToRemove(u)]] = Target[u]
    BY <2>1, <2>5 DEF Matches
  <2>7. \A v \in Unregisters \ {u} : pc'[v] = pc[v] /\ pc[v] # "stop"
    BY <2>1 DEF ListInv, MutexInv
  <2>8. \A q \in Registers : pc'[q] = "done" <=> pc[q] = "done"
    BY <2>1
  <2>9. \A v \in Unregisters : pc'[v] = "done" <=> pc[v] = "done"
    BY <2>1
  <2>10. todo'[u] = RemoveAt(list, IndexToRemove(u))
    BY <2>1
  <2>11. pc'[u] # "lock" /\ once \subseteq once'
    BY <2>1
  <2> HIDE DEF TypeOK
  <2> QED BY <2>1, <2>5, <2>6, <2>7, <2>8, <2>9, <2>10, <2>11
<1>6. ASSUME NEW u \in Unregisters, UnregisterEnd(u) PROVE LossInv'
  <2>1. PICK k \in 1 .. Len(list) :
          /\ todo[u] = RemoveAt(list, k)
          /\ list[k] \in once /\ Target[list[k]] = Target[u]
    BY <1>6 DEF UnregisterEnd
  <2>2. /\ pc' = [pc EXCEPT ![u] = "done"] /\ list' = RemoveAt(list, k)
        /\ once' = once /\ isShutdown' = isShutdown /\ todo' = todo
        /\ mu = u
    BY <1>6, <2>1 DEF UnregisterEnd, ListInv, MutexInv
  <2>3. ToSet(list) \subseteq ToSet(list') \cup {list[k]}
    BY <2>2, RemoveAtToSet
  <2>4. \A v \in Unregisters \ {u} : pc'[v] = pc[v] /\ pc[v] # "stop"
    BY <2>2 DEF ListInv, MutexInv
  <2>5. \A q \in Registers : pc'[q] = "done" <=> pc[q] = "done"
    BY <2>2
  <2>6. pc'[u] = "done"
    BY <2>2
  <2> HIDE DEF TypeOK
  <2> QED BY <2>1, <2>2, <2>3, <2>4, <2>5, <2>6
<1>7. ASSUME NEW s \in Shutdowns, ShutdownBegin(s) PROVE LossInv'
  BY <1>7 DEF ShutdownBegin, ListInv, MutexInv
<1>8. ASSUME NEW s \in Shutdowns, ShutdownGivesUp(s) PROVE LossInv'
  BY <1>8 DEF ShutdownGivesUp
<1>9. ASSUME NEW s \in Shutdowns, ShutdownStops(s) PROVE LossInv'
  <2>1. /\ pc' = pc /\ list' = list /\ isShutdown' = isShutdown
        /\ once \subseteq once' /\ \A u \in Unregisters : todo'[u] = todo[u]
    BY <1>9 DEF ShutdownStops
  <2>2. ASSUME NEW u \in Unregisters, pc'[u] = "stop"
        PROVE  \E k \in 1 .. Len(list') :
                 /\ todo'[u] = RemoveAt(list', k)
                 /\ list'[k] \in once' /\ Target[list'[k]] = Target[u]
    <3>1. PICK k \in 1 .. Len(list) :
            /\ todo[u] = RemoveAt(list, k)
            /\ list[k] \in once /\ Target[list[k]] = Target[u]
      BY <2>1, <2>2
    <3> QED BY <2>1, <3>1
  <2> HIDE DEF TypeOK
  <2> QED BY <2>1, <2>2
<1>10. ASSUME NEW s \in Shutdowns, ShutdownEnd(s) PROVE LossInv'
  <2>1. /\ pc' = [pc EXCEPT ![s] = "done"] /\ list' = <<>> /\ once' = once
        /\ isShutdown' = isShutdown /\ pc[s] = "stop" /\ todo[s] = <<>>
        /\ mu = s
    BY <1>10 DEF ShutdownEnd, ListInv, MutexInv
  <2>2. isShutdown
    BY <2>1 DEF ListInv, ShutdownInv, Past
  <2>3. stopped \o <<>> = list /\ stopped \in Seq(Registers)
    BY <2>1 DEF ListInv, ShutdownInv
  <2>4. list = stopped
    BY <2>3, ConcatEmptySeq
  <2>5. ToSet(list) \subseteq once
    BY <2>1, <2>4 DEF ListInv, ShutdownInv
  <2>6. \A v \in Unregisters : pc'[v] = pc[v] /\ pc[v] # "stop"
    BY <2>1 DEF ListInv, MutexInv
  <2>7. \A q \in Registers : pc'[q] = "done" <=> pc[q] = "done"
    BY <2>1
  <2> HIDE DEF TypeOK
  <2> QED BY <2>1, <2>2, <2>5, <2>6, <2>7
<1>11. ASSUME NEW r \in Registers, StopReturns(r) PROVE LossInv'
  BY <1>11 DEF StopReturns
<1>12. ASSUME NEW f \in Flushes, Load(f) PROVE LossInv'
  BY <1>12 DEF Load
<1>13. ASSUME NEW f \in Flushes, Visit(f) PROVE LossInv'
  <2>1. \A c \in Writers : pc'[c] = pc[c] /\ todo'[c] = todo[c]
    BY <1>13 DEF Visit
  <2> QED BY <1>13, <2>1 DEF Visit
<1>14. ASSUME NEW f \in Flushes, FlushFails(f) PROVE LossInv'
  BY <1>14 DEF FlushFails
<1>15. ASSUME UNCHANGED vars PROVE LossInv'
  BY <1>15 DEF vars
<1> QED
  BY <1>1, <1>2, <1>3, <1>4, <1>5, <1>6, <1>7, <1>8, <1>9, <1>10, <1>11,
     <1>12, <1>13, <1>14, <1>15 DEF Next, Proceed

-----------------------------------------------------------------------------
(* The theorems. *)

LEMMA NextListInv == TypeOK /\ ListInv /\ [Next]_vars => ListInv'
  BY NextMutexInv, NextRegisteredInv, NextRanked, NextRemovalInv,
     NextShutdownInv DEF ListInv

LEMMA ListCorrect == Spec => [](TypeOK /\ ListInv)
<1>1. Init => TypeOK /\ ListInv
  BY InitTypeOK, InitListInv
<1>2. TypeOK /\ ListInv /\ [Next]_vars => (TypeOK /\ ListInv)'
  BY NextTypeOK, NextListInv
<1> QED BY <1>1, <1>2, PTL DEF Spec

(* In every reachable state the list, the history of what was registered   *)
(* and what the calls keep of the list are sequences of registrations, and *)
(* each call is at one of the places of provider.go.                       *)
THEOREM TypeCorrect == Spec => []TypeOK
  BY ListCorrect, PTL

(* Whatever the calls that register, unregister and shut down do and in    *)
(* whichever order they take the mutex, Shutdown stops the processors in   *)
(* the order they were registered.                                         *)
THEOREM StoppedInOrder == Spec => []ShutdownOrder
<1>1. TypeOK /\ ListInv => ShutdownOrder
  <2> SUFFICES ASSUME TypeOK, ListInv, NEW s \in Shutdowns, mu = s
               PROVE  LET all == stopped \o todo[s]
                          rank(r) == CHOOSE i \in DOMAIN registered :
                                       registered[i] = r
                      IN  \A i, j \in DOMAIN all :
                            i < j => rank(all[i]) < rank(all[j])
    BY DEF ShutdownOrder
  <2> DEFINE rank(r) == CHOOSE i \in DOMAIN registered : registered[i] = r
  <2>1. stopped \o todo[s] = list
    BY DEF ListInv, MutexInv, ShutdownInv, Writers
  <2>2. ASSUME NEW a \in DOMAIN registered PROVE rank(registered[a]) = a
    BY DEF ListInv, RegisteredInv, IsInjective
  <2>3. ASSUME NEW i \in DOMAIN list, NEW j \in DOMAIN list, i < j
        PROVE  rank(list[i]) < rank(list[j])
    <3>1. PICK a \in DOMAIN registered : registered[a] = list[i]
      BY DEF ListInv, Ranked
    <3>2. PICK b \in DOMAIN registered : registered[b] = list[j]
      BY DEF ListInv, Ranked
    <3>3. a < b
      BY <2>3, <3>1, <3>2 DEF ListInv, Ranked
    <3>4. rank(list[i]) = a /\ rank(list[j]) = b
      BY <2>2, <3>1, <3>2
    <3> HIDE DEF rank
    <3> QED BY <3>3, <3>4
  <2> QED BY <2>1, <2>3
<1> QED BY <1>1, ListCorrect, PTL

LEMMA LossCorrect ==
  ASSUME OneUnregisterEach PROVE Spec => [](TypeOK /\ ListInv /\ LossInv)
<1>1. Init => LossInv
  BY InitLossInv
<1>2. TypeOK /\ ListInv /\ LossInv /\ [Next]_vars => LossInv'
  BY NextLossInv
<1> QED BY <1>1, <1>2, ListCorrect, PTL DEF Spec

(* When no call unregisters a processor that another one already has, a    *)
(* registration is in the list or shut down: no concurrent writer of the   *)
(* copied slice overwrites it. (With a call that does, the code drops the  *)
(* first processor of the list: OnlyTheGivenIsRemoved.)                    *)
THEOREM RegistrationsKept ==
  ASSUME OneUnregisterEach PROVE Spec => []NoRegistrationLost
<1>1. LossInv => NoRegistrationLost
  BY DEF LossInv
<1> QED BY <1>1, LossCorrect, PTL

(* Under the same assumption UnregisterSpanProcessor removes the processor *)
(* it is given and no other one.                                           *)
THEOREM OnlyTheGiven ==
  ASSUME OneUnregisterEach PROVE Spec => []OnlyTheGivenIsRemoved
<1>1. LossInv => OnlyTheGivenIsRemoved
  BY DEF LossInv, OnlyTheGivenIsRemoved
<1> QED BY <1>1, LossCorrect, PTL

(* Under the same assumption a Shutdown that returned nil has left nothing *)
(* behind: no processor is in the list, and each one whose registration    *)
(* returned has been shut down, its Shutdown having returned.              *)
THEOREM NothingAfterShutdown ==
  ASSUME OneUnregisterEach PROVE Spec => []ShutdownIsFinal
<1>1. TypeOK /\ ListInv /\ LossInv => ShutdownIsFinal
  BY DEF ListInv, ShutdownInv, LossInv, NoRegistrationLost, ShutdownIsFinal,
         ToSet
<1> QED BY <1>1, LossCorrect, PTL
=============================================================================
