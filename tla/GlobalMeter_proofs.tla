------------------------- MODULE GlobalMeter_proofs -------------------------
(***************************************************************************)
(* Proofs about the global MeterProvider (internal/global/state.go and     *)
(* meter.go): the safety properties of module GlobalMeter for any number   *)
(* of clients, setters, SDKs and meters.                                   *)
(***************************************************************************)
EXTENDS GlobalMeter, SequenceTheorems, SequenceLemmas, FiniteSetTheorems, TLAPS

-----------------------------------------------------------------------------
(* Type correctness. *)

Inside == {"setDelegate", "meters", "meter", "registry", "onceDone"}
Delegating == {"meters", "meter", "registry"}
Providers == SDKs \cup {Placeholder}

SetterPlaces == {"idle", "once", "store", "returned", "panicked"} \cup Inside
ClientPlaces ==
  {"start", "withSDK", "idle", "instrument", "callback", "unreg"}

SetterStates == [pc : SetterPlaces, current : Providers \cup {None},
                 mp : Providers \cup {None}]
ClientStates == [pc : ClientPlaces, meter : Meters \cup {None}]

TypeOK ==
  /\ global \in Providers
  /\ once \in {"new", "running", "done"}
  /\ setter \in [Setters -> SetterStates]
  /\ pMtx \in Setters \cup {None}
  /\ pDelegate \in SDKs \cup {None}
  /\ meters \in SUBSET Meters /\ todo \in Seq(Meters)
  /\ mDelegate \in [Meters -> SDKs \cup {None}]
  /\ mMtx \in [Meters -> Setters \cup {None}]
  /\ instruments \in [Meters -> SUBSET Clients]
  /\ registry \in [Meters -> Seq(Clients)]
  /\ client \in [Clients -> ClientStates]
  /\ inst \in [Clients -> Providers \cup {None}]
  /\ unreg \in [Clients -> {None, Placeholder, "sdk", "nil"}]
  /\ unregMu \in [Clients -> Clients \cup {None}]
  /\ sdk \in [Clients -> Int]
  /\ early \in [inst : SUBSET Clients, reg : SUBSET Clients]
  /\ refused \in [inst : SUBSET Clients, reg : SUBSET Clients]

-----------------------------------------------------------------------------
(* The inductive invariant. *)

(* One setter only is inside the Once, and it has an SDK to delegate to.   *)
SetterInv ==
  /\ \A s \in Setters : setter[s].pc \in Inside => once = "running"
  /\ \A s, t \in Setters :
       setter[s].pc \in Inside /\ setter[t].pc \in Inside => s = t
  /\ \A s \in Setters : setter[s].pc # "idle" => setter[s].mp \in Providers
  /\ once # "done" => global = Placeholder
  /\ \A s \in Setters : setter[s].pc = "store" => once = "done"
  /\ \A s \in Setters : setter[s].pc = "once" /\ once # "done" =>
       setter[s].current = Placeholder
  /\ \A s \in Setters :
       setter[s].pc \in {"once", "setDelegate"} \cup Delegating
         /\ setter[s].current = Placeholder => setter[s].mp \in SDKs
  /\ \A s \in Setters : setter[s].pc \in {"setDelegate"} \cup Delegating =>
       setter[s].current = Placeholder

(* The provider's delegate is set inside the Once, and a meter's is it.    *)
DelegateInv ==
  /\ once = "new" => pDelegate = None
  /\ \A s \in Setters : setter[s].pc = "setDelegate" => pDelegate = None
  /\ \A s \in Setters : setter[s].pc \in Delegating => pDelegate = setter[s].mp
  /\ \A s \in Setters : setter[s].pc = "onceDone" =>
       pDelegate # None /\ todo = <<>>
  /\ once = "done" => pDelegate # None /\ todo = <<>>
  /\ \A m \in Meters : mDelegate[m] \in {None, pDelegate}
  /\ \A s \in Setters : setter[s].pc \in {"meter", "registry"} =>
       todo # <<>> /\ mDelegate[Head(todo)] = pDelegate

(* setDelegate met a callback that the SDK refused.                        *)
Panicked == refused.reg # {}

(* A meter somebody holds is known to the provider, waits its turn in      *)
(* setDelegate, or has the delegate, but for a setDelegate that panicked.  *)
HeldInv ==
  /\ IsFiniteSet(meters) /\ IsInjective(todo)
  /\ \A c \in Clients : client[c].meter # None =>
       \/ pDelegate = None /\ client[c].meter \in meters
       \/ /\ pDelegate # None
          /\ \/ client[c].meter \in ToSet(todo)
             \/ mDelegate[client[c].meter] = pDelegate
             \/ Panicked

(* A registration is in its meter's registry until it is delegated or      *)
(* unregistered, whichever is first, and the SDK has it in between.        *)
RegistryInv ==
  /\ \A m \in Meters : IsInjective(registry[m])
  /\ \A c \in Clients, m \in Meters :
       c \in ToSet(registry[m]) <=> unreg[c] = Placeholder /\ client[c].meter = m
  /\ \A c \in Clients : sdk[c] = IF unreg[c] = "sdk" THEN 1 ELSE 0
  /\ \A c \in Clients :
       /\ client[c].meter = None <=> client[c].pc \in {"start", "withSDK"}
       /\ client[c].pc = "callback" => unreg[c] = None
       /\ client[c].pc = "unreg" => unreg[c] = Placeholder /\ unregMu[c] = c
       /\ unreg[c] # None => client[c].meter # None

(* Before setDelegate an instrument is in its meter's map; the ones that   *)
(* were there when it began are there until the meter's turn, when they    *)
(* get a delegate or are refused.                                          *)
InstrumentInv ==
  /\ \A c \in Clients :
       /\ inst[c] # None => client[c].meter # None
       /\ client[c].pc = "instrument" => inst[c] = None
  /\ \A c \in Clients, m \in Meters :
       c \in instruments[m] => inst[c] # None /\ client[c].meter = m
  /\ pDelegate = None => \A c \in Clients :
       inst[c] = Placeholder => c \in instruments[client[c].meter]

EarlyInv ==
  /\ pDelegate = None => early.inst = {} /\ early.reg = {}
  /\ \A c \in early.inst :
       \/ inst[c] = pDelegate /\ pDelegate # None
       \/ inst[c] = Placeholder /\ (c \in refused.inst \/ Panicked)
       \/ /\ inst[c] = Placeholder /\ c \in instruments[client[c].meter]
          /\ \E i \in DOMAIN todo :
               /\ todo[i] = client[c].meter
               /\ \A s \in Setters : setter[s].pc = "registry" => i # 1
  /\ \A c \in early.reg :
       \/ unreg[c] \in {"sdk", "nil"}
       \/ unreg[c] = Placeholder /\ (Panicked \/ client[c].meter \in ToSet(todo))

(* While setDelegate has a meter's callbacks registered it holds the       *)
(* meter, whose instruments have had their turn: one without a delegate    *)
(* was refused.  So the callback it panics over is of a refused one.       *)
RefusedInv ==
  /\ refused.reg \subseteq refused.inst
  /\ \A s \in Setters : setter[s].pc = "registry" =>
       /\ mMtx[Head(todo)] = s
       /\ \A c \in ToSet(registry[Head(todo)]) : inst[c] = Placeholder => c \in refused.inst
  /\ \A c \in Clients :
       unreg[c] = Placeholder \/ client[c].pc = "callback" => inst[c] # None
  /\ \A c \in Clients : inst[c] = Placeholder /\ client[c].meter \in ToSet(todo) =>
       c \in instruments[client[c].meter]

MeterInv ==
  SetterInv /\ DelegateInv /\ HeldInv /\ RegistryInv /\ InstrumentInv /\ EarlyInv
    /\ RefusedInv

-----------------------------------------------------------------------------
(* They hold initially and every step keeps them. *)

LEMMA InitTypeOK == Init => TypeOK
  BY NameAssumption DEF Init, TypeOK, Providers, Inside, SetterStates,
     SetterPlaces, ClientStates, ClientPlaces

LEMMA InitMeterInv == Init => MeterInv
<1> SUFFICES ASSUME Init PROVE MeterInv
  OBVIOUS
<1>1. SetterInv
  BY DEF Init, SetterInv, Inside, Delegating
<1>5. DelegateInv
  BY DEF Init, DelegateInv, Delegating
<1>6. None # Placeholder
  BY DEF None, Placeholder
<1>7. InstrumentInv /\ EarlyInv /\ RefusedInv
  BY <1>6 DEF Init, InstrumentInv, EarlyInv, RefusedInv
<1>2. HeldInv
  BY FS_EmptySet DEF Init, HeldInv, IsInjective
<1>3. IsInjective(<<>>) /\ ToSet(<<>>) = {}
  BY DEF IsInjective, ToSet
<1>4. RegistryInv
  BY <1>3, <1>6 DEF Init, RegistryInv, None
<1> QED BY <1>1, <1>2, <1>4, <1>5, <1>7 DEF MeterInv

(* setDelegate visits every meter the provider knows. *)
LEMMA SetToSeqsProperties ==
  ASSUME NEW S, IsFiniteSet(S), NEW q \in SetToSeqs(S)
  PROVE  q \in Seq(S) /\ ToSet(q) = S /\ IsInjective(q)
<1> DEFINE D == 1 .. Cardinality(S)
<1>1. Cardinality(S) \in Nat
  BY FS_CardinalityType
<1>2. q \in [D -> S] /\ \A i, j \in D : i # j => q[i] # q[j]
  BY DEF SetToSeqs
<1>3. q \in Injection(D, S)
  BY <1>2 DEF Injection, IsInjective
<1>4. IsFiniteSet(D) /\ Cardinality(D) = Cardinality(S)
  BY <1>1, FS_Interval
<1>5. q \in Surjection(D, S)
  BY <1>3, <1>4, FS_Injection
<1>6. ToSet(q) = S
  BY <1>2, <1>5 DEF Surjection, ToSet
<1>7. IsInjective(q)
  BY <1>2 DEF IsInjective
<1> QED BY <1>1, <1>2, <1>6, <1>7

LEMMA UnregMoves ==
  ASSUME unreg \in [Clients -> {None, Placeholder, "sdk", "nil"}],
         NEW c, NEW v \in {None, Placeholder, "sdk", "nil"},
         unreg' = unreg \/ unreg' = [unreg EXCEPT ![c] = v]
  PROVE  unreg' \in [Clients -> {None, Placeholder, "sdk", "nil"}]
  OBVIOUS

(* A goroutine goes on to another place. *)
LEMMA GotoMoves ==
  ASSUME setter \in [Setters -> SetterStates], NEW s \in Setters,
         NEW label \in SetterPlaces, Goto(s, label)
  PROVE  /\ setter' \in [Setters -> SetterStates]
         /\ setter'[s].pc = label
         /\ setter'[s].current = setter[s].current
         /\ setter'[s].mp = setter[s].mp
         /\ \A t \in Setters \ {s} : setter'[t] = setter[t]
  BY DEF Goto, SetterStates

LEMMA BecomeMoves ==
  ASSUME client \in [Clients -> ClientStates], NEW c \in Clients,
         NEW label \in ClientPlaces, Become(c, label)
  PROVE  /\ client' \in [Clients -> ClientStates]
         /\ client'[c].pc = label
         /\ client'[c].meter = client[c].meter
         /\ \A d \in Clients \ {c} : client'[d] = client[d]
  BY DEF Become, ClientStates

(* A client goes on to another place or stays where it is. *)
LEMMA MayBecome ==
  ASSUME client \in [Clients -> ClientStates], NEW c \in Clients,
         NEW label \in ClientPlaces, client' = client \/ Become(c, label)
  PROVE  /\ client' \in [Clients -> ClientStates]
         /\ \A d \in Clients : client'[d].meter = client[d].meter
         /\ client'[c].pc \in {client[c].pc, label}
         /\ \A d \in Clients \ {c} : client'[d] = client[d]
<1>1. CASE client' = client
  BY <1>1
<1>2. CASE Become(c, label)
  BY <1>2, BecomeMoves
<1> QED BY <1>1, <1>2

LEMMA NextTypeOK ==
  TypeOK /\ MeterInv /\ [Next]_vars => TypeOK'
<1> SUFFICES ASSUME TypeOK, MeterInv, [Next]_vars
             PROVE  TypeOK'
  OBVIOUS
<1> USE NameAssumption
    DEF TypeOK, At, stateVars, providerVars, meterVars, regVars, histories
<1>0. SetterInv
  BY DEF MeterInv
<1>1. ASSUME NEW s \in Setters, NEW mp \in SDKs \cup {Placeholder}, SetMeterProvider(s, mp)
      PROVE  TypeOK'
  <2> DEFINE v == [current |-> global, mp |-> mp,
                   pc |-> IF global = Placeholder /\ mp = Placeholder
                          THEN "returned" ELSE "once"]
  <2>1. setter' \in [Setters -> SetterStates]
    <3>1. setter' = [setter EXCEPT ![s] = v]
      BY <1>1 DEF SetMeterProvider
    <3>2. v \in SetterStates
      BY DEF SetterStates, SetterPlaces, Providers
    <3> HIDE DEF v
    <3> QED BY <3>1, <3>2
  <2> QED BY <1>1, <2>1 DEF SetMeterProvider
<1>2. ASSUME NEW s \in Setters, OnceDo(s) PROVE TypeOK'
  BY <1>2, GotoMoves DEF OnceDo, SetterPlaces, Inside
<1>3. ASSUME NEW s \in Setters, SetDelegate(s) PROVE TypeOK'
  <2>1. setter' \in [Setters -> SetterStates]
    BY <1>3, GotoMoves DEF SetDelegate, SetterPlaces, Inside
  <2>2. pDelegate' \in SDKs
    BY <1>3, <1>0 DEF SetDelegate, SetterInv
  <2>3. todo' \in Seq(Meters)
    <3>1. todo' \in Seq(meters)
      BY <1>3, SetToSeqsProperties DEF SetDelegate, MeterInv, HeldInv
    <3> QED BY <3>1
  <2>4. early' \in [inst : SUBSET Clients, reg : SUBSET Clients]
    BY <1>3 DEF SetDelegate
  <2> QED BY <1>3, <2>1, <2>2, <2>3, <2>4 DEF SetDelegate
<1>4. ASSUME NEW s \in Setters, MeterSetDelegate(s) PROVE TypeOK'
  <2>1. setter' \in [Setters -> SetterStates]
    BY <1>4, GotoMoves DEF MeterSetDelegate, SetterPlaces, Inside
  <2>2. setter[s].mp \in SDKs
    BY <1>4, <1>0 DEF MeterSetDelegate, SetterInv, Delegating
  <2> QED BY <1>4, <2>1, <2>2 DEF MeterSetDelegate
<1>5. ASSUME NEW s \in Setters, DelegateInstruments(s) PROVE TypeOK'
  <2>1. setter' \in [Setters -> SetterStates]
    BY <1>5, GotoMoves DEF DelegateInstruments, SetterPlaces, Inside
  <2>2. setter[s].mp \in Providers \cup {None}
    BY DEF SetterStates
  <2>3. PICK refusing \in SUBSET instruments[Head(todo)] :
          /\ inst' = [c \in Clients |-> IF c \in instruments[Head(todo)] \ refusing
                                        THEN setter[s].mp ELSE inst[c]]
          /\ refused' = [refused EXCEPT !.inst = @ \cup refusing]
    BY <1>5 DEF DelegateInstruments
  <2>4. Head(todo) \in Meters
    BY <1>5 DEF DelegateInstruments, MeterInv, DelegateInv
  <2>5. refused' \in [inst : SUBSET Clients, reg : SUBSET Clients]
    BY <2>3, <2>4
  <2>6. inst' \in [Clients -> Providers \cup {None}]
    BY <2>2, <2>3
  <2> QED BY <1>5, <2>1, <2>5, <2>6 DEF DelegateInstruments
<1>6. ASSUME NEW s \in Setters, DelegateRegistration(s) PROVE TypeOK'
  <2>1. registry[Head(todo)] \in Seq(Clients) /\ Head(todo) \in Meters
    BY <1>6 DEF DelegateRegistration, MeterInv, DelegateInv
  <2>2. registry' \in [Meters -> Seq(Clients)]
    BY <1>6, <2>1 DEF DelegateRegistration, AfterFirst
  <2>3. sdk' \in [Clients -> Int]
    <3>1. sdk' = sdk \/ sdk' = [sdk EXCEPT ![Head(registry[Head(todo)])] = @ + 1]
      BY <1>6 DEF DelegateRegistration
    <3> QED BY <3>1
  <2>4. unreg' \in [Clients -> {None, Placeholder, "sdk", "nil"}]
    <3>1. unreg' = unreg \/ unreg' = [unreg EXCEPT ![Head(registry[Head(todo)])] = "sdk"]
      BY <1>6 DEF DelegateRegistration
    <3>2. unreg \in [Clients -> {None, Placeholder, "sdk", "nil"}]
      OBVIOUS
    <3> QED BY <3>1, <3>2, UnregMoves
  <2> QED BY <1>6, <2>2, <2>3, <2>4 DEF DelegateRegistration
<1>7. ASSUME NEW s \in Setters, MeterDelegated(s) PROVE TypeOK'
  <2>1. setter' \in [Setters -> SetterStates]
    BY <1>7, GotoMoves DEF MeterDelegated, SetterPlaces, Inside
  <2>2. todo # <<>>
    BY <1>7 DEF MeterDelegated, MeterInv, DelegateInv
  <2>3. todo' \in Seq(Meters)
    BY <1>7, <2>2 DEF MeterDelegated
  <2> QED BY <1>7, <2>1, <2>3 DEF MeterDelegated
<1>8. ASSUME NEW s \in Setters, ProviderDelegated(s) PROVE TypeOK'
  BY <1>8, GotoMoves DEF ProviderDelegated, SetterPlaces, Inside
<1>9. ASSUME NEW s \in Setters, OnceDone(s) PROVE TypeOK'
  BY <1>9, GotoMoves DEF OnceDone, SetterPlaces, Inside
<1>10. ASSUME NEW s \in Setters, Store(s) PROVE TypeOK'
  <2>1. setter' \in [Setters -> SetterStates]
    BY <1>10, GotoMoves DEF Store, SetterPlaces, Inside
  <2>2. global' \in Providers
    BY <1>10, <1>0 DEF Store, SetterInv
  <2> QED BY <1>10, <2>1, <2>2 DEF Store
<1>11. ASSUME NEW c \in Clients, NEW m \in Meters, Meter(c, m) PROVE TypeOK'
  <2>1. client' \in [Clients -> ClientStates]
    <3>1. CASE NotDelegated
      <4>1. client' = [client EXCEPT ![c] = [pc |-> "idle", meter |-> m]]
        BY <1>11, <3>1 DEF Meter
      <4>2. [pc |-> "idle", meter |-> m] \in ClientStates
        BY DEF ClientStates, ClientPlaces
      <4> QED BY <4>1, <4>2
    <3>2. CASE ~NotDelegated
      <4>1. Become(c, "withSDK") /\ "withSDK" \in ClientPlaces
        BY <1>11, <3>2 DEF Meter, ClientPlaces
      <4> QED BY <4>1, BecomeMoves
    <3> QED BY <3>1, <3>2
  <2> QED BY <1>11, <2>1 DEF Meter
<1>12. ASSUME NEW c \in Clients, LoadDelegate(c) PROVE TypeOK'
  <2>1. client' \in [Clients -> ClientStates]
    BY <1>12, BecomeMoves DEF LoadDelegate, ClientPlaces
  <2>2. inst' \in [Clients -> Providers \cup {None}]
    <3>1. client[c].meter \in Meters
      <4>1. client[c].pc = "idle"
        BY <1>12 DEF LoadDelegate
      <4>2. client[c].meter # None
        BY <4>1 DEF MeterInv, RegistryInv
      <4> QED BY <4>2 DEF ClientStates
    <3>2. mDelegate[client[c].meter] \in Providers \cup {None}
      BY <3>1 DEF Providers
    <3>3. inst' = inst \/ inst' = [inst EXCEPT ![c] = mDelegate[client[c].meter]]
      BY <1>12 DEF LoadDelegate
    <3> QED BY <3>2, <3>3
  <2> QED BY <1>12, <2>1, <2>2 DEF LoadDelegate
<1>13. ASSUME NEW c \in Clients, AddInstrument(c) PROVE TypeOK'
  <2>1. client' \in [Clients -> ClientStates]
    BY <1>13, BecomeMoves DEF AddInstrument, ClientPlaces
  <2>2. inst' \in [Clients -> Providers \cup {None}]
    <3>1. inst' = [inst EXCEPT ![c] = Placeholder]
      BY <1>13 DEF AddInstrument
    <3> QED BY <3>1 DEF Providers
  <2>3. instruments' \in [Meters -> SUBSET Clients]
    <3>1. instruments' = [instruments EXCEPT ![client[c].meter] = @ \cup {c}]
      BY <1>13 DEF AddInstrument
    <3>2. instruments \in [Meters -> SUBSET Clients] /\ c \in Clients
      OBVIOUS
    <3> HIDE DEF TypeOK
    <3> QED BY <3>1, <3>2
  <2> QED BY <1>13, <2>1, <2>2, <2>3 DEF AddInstrument
<1>14. ASSUME NEW c \in Clients, LoadForCallback(c) PROVE TypeOK'
  <2>1. client' \in [Clients -> ClientStates]
    BY <1>14, BecomeMoves DEF LoadForCallback, ClientPlaces
  <2>2. sdk' \in [Clients -> Int]
    <3>1. sdk' = sdk \/ sdk' = [sdk EXCEPT ![c] = @ + 1]
      BY <1>14 DEF LoadForCallback
    <3> QED BY <3>1
  <2>3. unreg' \in [Clients -> {None, Placeholder, "sdk", "nil"}]
    <3>1. unreg' = unreg \/ unreg' = [unreg EXCEPT ![c] = "sdk"]
      BY <1>14 DEF LoadForCallback
    <3>2. unreg \in [Clients -> {None, Placeholder, "sdk", "nil"}]
      OBVIOUS
    <3> QED BY <3>1, <3>2, UnregMoves
  <2> QED BY <1>14, <2>1, <2>2, <2>3 DEF LoadForCallback
<1>15. ASSUME NEW c \in Clients, RegisterCallback(c) PROVE TypeOK'
  <2>1. client' \in [Clients -> ClientStates]
    BY <1>15, BecomeMoves DEF RegisterCallback, ClientPlaces
  <2>2. registry' \in [Meters -> Seq(Clients)]
    <3>1. registry' = [registry EXCEPT ![client[c].meter] = Append(@, c)]
      BY <1>15 DEF RegisterCallback
    <3>2. \A m \in Meters : Append(registry[m], c) \in Seq(Clients)
      OBVIOUS
    <3>3. registry \in [Meters -> Seq(Clients)]
      OBVIOUS
    <3> HIDE DEF TypeOK
    <3> QED BY <3>1, <3>2, <3>3
  <2>3. unreg' \in [Clients -> {None, Placeholder, "sdk", "nil"}]
    <3>1. unreg' = unreg \/ unreg' = [unreg EXCEPT ![c] = Placeholder]
      BY <1>15 DEF RegisterCallback
    <3>2. unreg \in [Clients -> {None, Placeholder, "sdk", "nil"}]
      OBVIOUS
    <3> QED BY <3>1, <3>2, UnregMoves
  <2> QED BY <1>15, <2>1, <2>2, <2>3 DEF RegisterCallback
<1>16. ASSUME NEW c \in Clients, Unregister(c) PROVE TypeOK'
  <2>1. client' \in [Clients -> ClientStates]
    BY <1>16, BecomeMoves DEF Unregister, ClientPlaces
  <2>2. sdk' \in [Clients -> Int]
    <3>1. sdk' = sdk \/ sdk' = [sdk EXCEPT ![c] = @ - 1]
      BY <1>16 DEF Unregister
    <3> QED BY <3>1
  <2>3. unreg' \in [Clients -> {None, Placeholder, "sdk", "nil"}]
    <3>1. unreg' = unreg \/ unreg' = [unreg EXCEPT ![c] = "nil"]
      BY <1>16 DEF Unregister
    <3>2. unreg \in [Clients -> {None, Placeholder, "sdk", "nil"}]
      OBVIOUS
    <3> QED BY <3>1, <3>2, UnregMoves
  <2>4. unregMu' \in [Clients -> Clients \cup {None}]
    <3>1. unregMu' = unregMu \/ unregMu' = [unregMu EXCEPT ![c] = c]
      BY <1>16 DEF Unregister, HeldBy
    <3>2. unregMu \in [Clients -> Clients \cup {None}] /\ c \in Clients
      OBVIOUS
    <3> HIDE DEF TypeOK
    <3> QED BY <3>1, <3>2
  <2> QED BY <1>16, <2>1, <2>2, <2>3, <2>4 DEF Unregister
<1>17. ASSUME NEW c \in Clients, RemoveRegistration(c) PROVE TypeOK'
  <2>1. client' \in [Clients -> ClientStates]
    BY <1>17, BecomeMoves DEF RemoveRegistration, ClientPlaces
  <2>2. registry' \in [Meters -> Seq(Clients)]
    <3>1. \A m \in Meters : RemoveFirst(registry[m], c) \in Seq(Clients)
      BY RemoveFirstInjective DEF MeterInv, RegistryInv
    <3> QED BY <1>17, <3>1 DEF RemoveRegistration
  <2>3. unreg' \in [Clients -> {None, Placeholder, "sdk", "nil"}]
    <3>1. unreg' = unreg \/ unreg' = [unreg EXCEPT ![c] = "nil"]
      BY <1>17 DEF RemoveRegistration
    <3>2. unreg \in [Clients -> {None, Placeholder, "sdk", "nil"}]
      OBVIOUS
    <3> QED BY <3>1, <3>2, UnregMoves
  <2>4. unregMu' \in [Clients -> Clients \cup {None}]
    <3>1. unregMu' = [unregMu EXCEPT ![c] = None]
      BY <1>17 DEF RemoveRegistration
    <3> QED BY <3>1
  <2> QED BY <1>17, <2>1, <2>2, <2>3, <2>4 DEF RemoveRegistration
<1>18. ASSUME UNCHANGED vars PROVE TypeOK'
  BY <1>18 DEF vars
<1>19. ASSUME NEW s \in Setters, RegistrationPanics(s) PROVE TypeOK'
  <2>1. setter' \in [Setters -> SetterStates]
    BY <1>19, GotoMoves DEF RegistrationPanics, SetterPlaces
  <2>2. registry[Head(todo)] \in Seq(Clients) /\ registry[Head(todo)] # <<>>
    BY <1>19 DEF RegistrationPanics, MeterInv, DelegateInv
  <2>3. Head(registry[Head(todo)]) \in Clients
    BY <2>2
  <2>4. refused' \in [inst : SUBSET Clients, reg : SUBSET Clients]
    BY <1>19, <2>3 DEF RegistrationPanics
  <2>5. todo' \in Seq(Meters)
    BY <1>19 DEF RegistrationPanics
  <2>6. mMtx' \in [Meters -> Setters \cup {None}]
    BY <1>19 DEF RegistrationPanics
  <2> QED BY <1>19, <2>1, <2>4, <2>5, <2>6 DEF RegistrationPanics
<1> QED
  BY <1>1, <1>2, <1>3, <1>4, <1>5, <1>6, <1>7, <1>8, <1>9, <1>10, <1>11,
     <1>12, <1>13, <1>14, <1>15, <1>16, <1>17, <1>18, <1>19
     DEF Next, SetterNext, ClientNext

LEMMA NextSetterInv ==
  TypeOK /\ SetterInv /\ [Next]_vars => SetterInv'
<1> SUFFICES ASSUME TypeOK, SetterInv, [Next]_vars
             PROVE  SetterInv'
  OBVIOUS
<1> USE NameAssumption
    DEF Inside, Delegating, At, stateVars, providerVars, meterVars, regVars, histories, SetterInv
<1>1. ASSUME NEW s \in Setters, NEW mp \in SDKs \cup {Placeholder}, SetMeterProvider(s, mp)
      PROVE  SetterInv'
  <2>1. /\ setter[s].pc = "idle" /\ setter'[s].mp = mp
        /\ setter'[s].current = global /\ setter'[s].pc \in {"once", "returned"}
        /\ setter'[s].pc = "once" =>
             ~(global = Placeholder /\ mp = Placeholder)
        /\ \A t \in Setters \ {s} : setter'[t] = setter[t]
    BY <1>1 DEF SetMeterProvider, TypeOK
  <2> QED BY <1>1, <2>1 DEF SetMeterProvider, Providers
<1>2. ASSUME NEW s \in Setters, OnceDo(s) PROVE SetterInv'
  <2>1. /\ setter'[s].current = setter[s].current
        /\ setter'[s].mp = setter[s].mp
        /\ \A t \in Setters \ {s} : setter'[t] = setter[t]
    BY <1>2, GotoMoves DEF OnceDo, TypeOK, SetterPlaces, Inside
  <2>2. \/ /\ once = "new" /\ once' = "running"
           /\ setter'[s].pc = IF setter[s].current = Placeholder
                              THEN "setDelegate" ELSE "onceDone"
        \/ once = "done" /\ once' = "done" /\ setter'[s].pc = "store"
    BY <1>2, GotoMoves DEF OnceDo, OnceFree, TypeOK, SetterPlaces, Inside
  <2>3. setter[s].pc = "once"
    BY <1>2 DEF OnceDo
  <2> QED BY <1>2, <2>1, <2>2, <2>3 DEF OnceDo
<1>3. ASSUME NEW s \in Setters, SetDelegate(s) PROVE SetterInv'
  <2>1. /\ setter'[s].current = setter[s].current
        /\ setter'[s].mp = setter[s].mp
        /\ \A t \in Setters \ {s} : setter'[t] = setter[t]
    BY <1>3, GotoMoves DEF SetDelegate, TypeOK, SetterPlaces, Inside
  <2>2. setter'[s].pc = "meters" /\ setter[s].pc = "setDelegate"
    BY <1>3, GotoMoves DEF SetDelegate, TypeOK, SetterPlaces, Inside
  <2> QED BY <1>3, <2>1, <2>2 DEF SetDelegate
<1>4. ASSUME NEW s \in Setters, MeterSetDelegate(s) PROVE SetterInv'
  <2>1. /\ setter'[s].current = setter[s].current
        /\ setter'[s].mp = setter[s].mp
        /\ \A t \in Setters \ {s} : setter'[t] = setter[t]
    BY <1>4, GotoMoves DEF MeterSetDelegate, TypeOK, SetterPlaces, Inside
  <2>2. setter'[s].pc = "meter" /\ setter[s].pc = "meters"
    BY <1>4, GotoMoves DEF MeterSetDelegate, TypeOK, SetterPlaces, Inside
  <2> QED BY <1>4, <2>1, <2>2 DEF MeterSetDelegate
<1>5. ASSUME NEW s \in Setters, DelegateInstruments(s) PROVE SetterInv'
  <2>1. /\ setter'[s].current = setter[s].current
        /\ setter'[s].mp = setter[s].mp
        /\ \A t \in Setters \ {s} : setter'[t] = setter[t]
    BY <1>5, GotoMoves DEF DelegateInstruments, TypeOK, SetterPlaces, Inside
  <2>2. setter'[s].pc = "registry" /\ setter[s].pc = "meter"
    BY <1>5, GotoMoves DEF DelegateInstruments, TypeOK, SetterPlaces, Inside
  <2> QED BY <1>5, <2>1, <2>2 DEF DelegateInstruments
<1>6. ASSUME NEW s \in Setters, DelegateRegistration(s) PROVE SetterInv'
  BY <1>6 DEF DelegateRegistration
<1>7. ASSUME NEW s \in Setters, MeterDelegated(s) PROVE SetterInv'
  <2>1. /\ setter'[s].current = setter[s].current
        /\ setter'[s].mp = setter[s].mp
        /\ \A t \in Setters \ {s} : setter'[t] = setter[t]
    BY <1>7, GotoMoves DEF MeterDelegated, TypeOK, SetterPlaces, Inside
  <2>2. setter'[s].pc = "meters" /\ setter[s].pc = "registry"
    BY <1>7, GotoMoves DEF MeterDelegated, TypeOK, SetterPlaces, Inside
  <2> QED BY <1>7, <2>1, <2>2 DEF MeterDelegated
<1>8. ASSUME NEW s \in Setters, ProviderDelegated(s) PROVE SetterInv'
  <2>1. /\ setter'[s].current = setter[s].current
        /\ setter'[s].mp = setter[s].mp
        /\ \A t \in Setters \ {s} : setter'[t] = setter[t]
    BY <1>8, GotoMoves DEF ProviderDelegated, TypeOK, SetterPlaces, Inside
  <2>2. setter'[s].pc = "onceDone" /\ setter[s].pc = "meters"
    BY <1>8, GotoMoves DEF ProviderDelegated, TypeOK, SetterPlaces, Inside
  <2> QED BY <1>8, <2>1, <2>2 DEF ProviderDelegated
<1>9. ASSUME NEW s \in Setters, OnceDone(s) PROVE SetterInv'
  <2>1. /\ setter'[s].current = setter[s].current
        /\ setter'[s].mp = setter[s].mp
        /\ \A t \in Setters \ {s} : setter'[t] = setter[t]
    BY <1>9, GotoMoves DEF OnceDone, TypeOK, SetterPlaces, Inside
  <2>2. setter'[s].pc = "store" /\ setter[s].pc = "onceDone"
    BY <1>9, GotoMoves DEF OnceDone, TypeOK, SetterPlaces, Inside
  <2> QED BY <1>9, <2>1, <2>2 DEF OnceDone
<1>10. ASSUME NEW s \in Setters, Store(s) PROVE SetterInv'
  <2>1. /\ setter'[s].current = setter[s].current
        /\ setter'[s].mp = setter[s].mp
        /\ \A t \in Setters \ {s} : setter'[t] = setter[t]
    BY <1>10, GotoMoves DEF Store, TypeOK, SetterPlaces, Inside
  <2>2. setter'[s].pc = "returned" /\ setter[s].pc = "store"
    BY <1>10, GotoMoves DEF Store, TypeOK, SetterPlaces, Inside
  <2> QED BY <1>10, <2>1, <2>2 DEF Store
<1>11. ASSUME NEW c \in Clients, NEW m \in Meters, Meter(c, m)
      PROVE  SetterInv'
  BY <1>11 DEF Meter
<1>12. ASSUME NEW c \in Clients, LoadDelegate(c) PROVE SetterInv'
  BY <1>12 DEF LoadDelegate
<1>13. ASSUME NEW c \in Clients, AddInstrument(c) PROVE SetterInv'
  BY <1>13 DEF AddInstrument
<1>14. ASSUME NEW c \in Clients, LoadForCallback(c) PROVE SetterInv'
  BY <1>14 DEF LoadForCallback
<1>15. ASSUME NEW c \in Clients, RegisterCallback(c) PROVE SetterInv'
  BY <1>15 DEF RegisterCallback
<1>16. ASSUME NEW c \in Clients, Unregister(c) PROVE SetterInv'
  BY <1>16 DEF Unregister
<1>17. ASSUME NEW c \in Clients, RemoveRegistration(c) PROVE SetterInv'
  BY <1>17 DEF RemoveRegistration
<1>18. ASSUME UNCHANGED vars PROVE SetterInv'
  BY <1>18 DEF vars
<1>19. ASSUME NEW s \in Setters, RegistrationPanics(s) PROVE SetterInv'
  <2>1. /\ setter'[s].current = setter[s].current
        /\ setter'[s].mp = setter[s].mp
        /\ \A t \in Setters \ {s} : setter'[t] = setter[t]
    BY <1>19, GotoMoves DEF RegistrationPanics, TypeOK, SetterPlaces
  <2>2. setter'[s].pc = "panicked" /\ setter[s].pc = "registry"
    BY <1>19, GotoMoves DEF RegistrationPanics, TypeOK, SetterPlaces
  <2> QED BY <1>19, <2>1, <2>2 DEF RegistrationPanics
<1> QED
  BY <1>1, <1>2, <1>3, <1>4, <1>5, <1>6, <1>7, <1>8, <1>9, <1>10, <1>11,
     <1>12, <1>13, <1>14, <1>15, <1>16, <1>17, <1>18, <1>19
     DEF Next, SetterNext, ClientNext

LEMMA NextDelegateInv ==
  TypeOK /\ SetterInv /\ DelegateInv /\ [Next]_vars => DelegateInv'
<1> SUFFICES ASSUME TypeOK, SetterInv, DelegateInv, [Next]_vars
             PROVE  DelegateInv'
  OBVIOUS
<1> USE NameAssumption
    DEF Inside, Delegating, At, stateVars, providerVars, meterVars, regVars, histories, DelegateInv
<1>1. ASSUME NEW s \in Setters, NEW mp \in SDKs \cup {Placeholder}, SetMeterProvider(s, mp)
      PROVE  DelegateInv'
  <2>1. /\ setter[s].pc = "idle" /\ setter'[s].mp = mp
        /\ setter'[s].current = global /\ setter'[s].pc \in {"once", "returned"}
        /\ setter'[s].pc = "once" =>
             ~(global = Placeholder /\ mp = Placeholder)
        /\ \A t \in Setters \ {s} : setter'[t] = setter[t]
    BY <1>1 DEF SetMeterProvider, TypeOK
  <2> QED BY <1>1, <2>1 DEF SetMeterProvider
<1>2. ASSUME NEW s \in Setters, OnceDo(s) PROVE DelegateInv'
  <2>1. /\ setter'[s].current = setter[s].current
        /\ setter'[s].mp = setter[s].mp
        /\ \A t \in Setters \ {s} : setter'[t] = setter[t]
    BY <1>2, GotoMoves DEF OnceDo, TypeOK, SetterPlaces, Inside
  <2>2. \/ /\ once = "new" /\ once' = "running"
           /\ setter'[s].pc = IF setter[s].current = Placeholder
                              THEN "setDelegate" ELSE "onceDone"
        \/ once = "done" /\ once' = "done" /\ setter'[s].pc = "store"
    BY <1>2, GotoMoves DEF OnceDo, OnceFree, TypeOK, SetterPlaces, Inside
  <2>3. setter[s].pc = "once"
    BY <1>2 DEF OnceDo
  <2> QED BY <1>2, <2>1, <2>2, <2>3 DEF OnceDo, SetterInv
<1>3. ASSUME NEW s \in Setters, SetDelegate(s) PROVE DelegateInv'
  <2>1. /\ setter'[s].current = setter[s].current
        /\ setter'[s].mp = setter[s].mp
        /\ \A t \in Setters \ {s} : setter'[t] = setter[t]
    BY <1>3, GotoMoves DEF SetDelegate, TypeOK, SetterPlaces, Inside
  <2>2. setter'[s].pc = "meters" /\ setter[s].pc = "setDelegate"
    BY <1>3, GotoMoves DEF SetDelegate, TypeOK, SetterPlaces, Inside
  <2>3. pDelegate' = setter[s].mp /\ setter[s].mp \in SDKs /\ once = "running"
    BY <1>3, <2>2 DEF SetDelegate, SetterInv
  <2>4. \A t \in Setters \ {s} : setter[t].pc \notin Inside
    BY <2>2 DEF SetterInv
  <2>5. \A m \in Meters : mDelegate'[m] = None
    BY <1>3, <2>2 DEF SetDelegate
  <2> QED BY <1>3, <2>1, <2>2, <2>3, <2>4, <2>5 DEF SetDelegate
<1>4. ASSUME NEW s \in Setters, MeterSetDelegate(s) PROVE DelegateInv'
  <2>1. /\ setter'[s].current = setter[s].current
        /\ setter'[s].mp = setter[s].mp
        /\ \A t \in Setters \ {s} : setter'[t] = setter[t]
    BY <1>4, GotoMoves DEF MeterSetDelegate, TypeOK, SetterPlaces, Inside
  <2>2. setter'[s].pc = "meter" /\ setter[s].pc = "meters"
    BY <1>4, GotoMoves DEF MeterSetDelegate, TypeOK, SetterPlaces, Inside
  <2>3. Head(todo) \in Meters /\ pDelegate = setter[s].mp
    BY <1>4, <2>2 DEF MeterSetDelegate, TypeOK
  <2>4. mDelegate' = [mDelegate EXCEPT ![Head(todo)] = pDelegate]
        /\ todo' = todo /\ pDelegate' = pDelegate /\ once' = once /\ todo # <<>>
    BY <1>4, <2>3 DEF MeterSetDelegate
  <2>5. mDelegate \in [Meters -> SDKs \cup {None}]
    BY DEF TypeOK
  <2>6. mDelegate'[Head(todo)] = pDelegate
        /\ \A m \in Meters : mDelegate'[m] \in {None, pDelegate}
    BY <2>3, <2>4, <2>5
  <2>7. \A t \in Setters \ {s} : setter[t].pc \notin Inside
    BY <2>2 DEF SetterInv
  <2> QED BY <2>1, <2>2, <2>3, <2>4, <2>6, <2>7
<1>5. ASSUME NEW s \in Setters, DelegateInstruments(s) PROVE DelegateInv'
  <2>1. /\ setter'[s].current = setter[s].current
        /\ setter'[s].mp = setter[s].mp
        /\ \A t \in Setters \ {s} : setter'[t] = setter[t]
    BY <1>5, GotoMoves DEF DelegateInstruments, TypeOK, SetterPlaces, Inside
  <2>2. setter'[s].pc = "registry" /\ setter[s].pc = "meter"
    BY <1>5, GotoMoves DEF DelegateInstruments, TypeOK, SetterPlaces, Inside
  <2> QED BY <1>5, <2>1, <2>2 DEF DelegateInstruments, SetterInv
<1>6. ASSUME NEW s \in Setters, DelegateRegistration(s) PROVE DelegateInv'
  BY <1>6 DEF DelegateRegistration
<1>7. ASSUME NEW s \in Setters, MeterDelegated(s) PROVE DelegateInv'
  <2>1. /\ setter'[s].current = setter[s].current
        /\ setter'[s].mp = setter[s].mp
        /\ \A t \in Setters \ {s} : setter'[t] = setter[t]
    BY <1>7, GotoMoves DEF MeterDelegated, TypeOK, SetterPlaces, Inside
  <2>2. setter'[s].pc = "meters" /\ setter[s].pc = "registry"
    BY <1>7, GotoMoves DEF MeterDelegated, TypeOK, SetterPlaces, Inside
  <2>3. \A t \in Setters \ {s} : setter[t].pc \notin Inside
    BY <2>2 DEF SetterInv
  <2>4. once = "running" /\ once' = once /\ pDelegate' = pDelegate
        /\ mDelegate' = mDelegate
    BY <1>7, <2>2 DEF MeterDelegated, SetterInv
  <2> QED BY <2>1, <2>2, <2>3, <2>4
<1>8. ASSUME NEW s \in Setters, ProviderDelegated(s) PROVE DelegateInv'
  <2>1. /\ setter'[s].current = setter[s].current
        /\ setter'[s].mp = setter[s].mp
        /\ \A t \in Setters \ {s} : setter'[t] = setter[t]
    BY <1>8, GotoMoves DEF ProviderDelegated, TypeOK, SetterPlaces, Inside
  <2>2. setter'[s].pc = "onceDone" /\ setter[s].pc = "meters"
    BY <1>8, GotoMoves DEF ProviderDelegated, TypeOK, SetterPlaces, Inside
  <2>3. setter[s].mp \in SDKs /\ pDelegate = setter[s].mp
    BY <2>2 DEF SetterInv
  <2>4. pDelegate # None
    BY <2>3, NameAssumption
  <2> QED BY <1>8, <2>1, <2>2, <2>3, <2>4 DEF ProviderDelegated
<1>9. ASSUME NEW s \in Setters, OnceDone(s) PROVE DelegateInv'
  <2>1. /\ setter'[s].current = setter[s].current
        /\ setter'[s].mp = setter[s].mp
        /\ \A t \in Setters \ {s} : setter'[t] = setter[t]
    BY <1>9, GotoMoves DEF OnceDone, TypeOK, SetterPlaces, Inside
  <2>2. setter'[s].pc = "store" /\ setter[s].pc = "onceDone"
    BY <1>9, GotoMoves DEF OnceDone, TypeOK, SetterPlaces, Inside
  <2> QED BY <1>9, <2>1, <2>2 DEF OnceDone, SetterInv
<1>10. ASSUME NEW s \in Setters, Store(s) PROVE DelegateInv'
  <2>1. /\ setter'[s].current = setter[s].current
        /\ setter'[s].mp = setter[s].mp
        /\ \A t \in Setters \ {s} : setter'[t] = setter[t]
    BY <1>10, GotoMoves DEF Store, TypeOK, SetterPlaces, Inside
  <2>2. setter'[s].pc = "returned" /\ setter[s].pc = "store"
    BY <1>10, GotoMoves DEF Store, TypeOK, SetterPlaces, Inside
  <2> QED BY <1>10, <2>1, <2>2 DEF Store, SetterInv
<1>11. ASSUME NEW c \in Clients, NEW m \in Meters, Meter(c, m)
      PROVE  DelegateInv'
  BY <1>11 DEF Meter
<1>12. ASSUME NEW c \in Clients, LoadDelegate(c) PROVE DelegateInv'
  BY <1>12 DEF LoadDelegate
<1>13. ASSUME NEW c \in Clients, AddInstrument(c) PROVE DelegateInv'
  BY <1>13 DEF AddInstrument
<1>14. ASSUME NEW c \in Clients, LoadForCallback(c) PROVE DelegateInv'
  BY <1>14 DEF LoadForCallback
<1>15. ASSUME NEW c \in Clients, RegisterCallback(c) PROVE DelegateInv'
  BY <1>15 DEF RegisterCallback
<1>16. ASSUME NEW c \in Clients, Unregister(c) PROVE DelegateInv'
  BY <1>16 DEF Unregister
<1>17. ASSUME NEW c \in Clients, RemoveRegistration(c) PROVE DelegateInv'
  BY <1>17 DEF RemoveRegistration
<1>18. ASSUME UNCHANGED vars PROVE DelegateInv'
  BY <1>18 DEF vars
<1>19. ASSUME NEW s \in Setters, RegistrationPanics(s) PROVE DelegateInv'
  <2>1. /\ setter'[s].current = setter[s].current
        /\ setter'[s].mp = setter[s].mp
        /\ \A t \in Setters \ {s} : setter'[t] = setter[t]
    BY <1>19, GotoMoves DEF RegistrationPanics, TypeOK, SetterPlaces
  <2>2. setter'[s].pc = "panicked" /\ setter[s].pc = "registry"
    BY <1>19, GotoMoves DEF RegistrationPanics, TypeOK, SetterPlaces
  <2>3. setter[s].mp \in SDKs /\ pDelegate = setter[s].mp
    BY <2>2 DEF SetterInv
  <2>4. pDelegate # None
    BY <2>3, NameAssumption
  <2>5. \A t \in Setters \ {s} : setter[t].pc \notin Inside
    BY <2>2 DEF SetterInv
  <2> QED BY <1>19, <2>1, <2>2, <2>4, <2>5 DEF RegistrationPanics
<1> QED
  BY <1>1, <1>2, <1>3, <1>4, <1>5, <1>6, <1>7, <1>8, <1>9, <1>10, <1>11,
     <1>12, <1>13, <1>14, <1>15, <1>16, <1>17, <1>18, <1>19
     DEF Next, SetterNext, ClientNext

LEMMA NextHeldInv ==
  TypeOK /\ SetterInv /\ DelegateInv /\ HeldInv /\ [Next]_vars => HeldInv'
<1> SUFFICES ASSUME TypeOK, SetterInv, DelegateInv, HeldInv, [Next]_vars
             PROVE  HeldInv'
  OBVIOUS
<1> USE DEF At, stateVars, providerVars, meterVars, regVars, histories, HeldInv, Panicked
<1>1. ASSUME NEW s \in Setters, NEW mp \in SDKs \cup {Placeholder}, SetMeterProvider(s, mp)
      PROVE  HeldInv'
  BY <1>1 DEF SetMeterProvider
<1>2. ASSUME NEW s \in Setters, OnceDo(s) PROVE HeldInv'
  BY <1>2 DEF OnceDo
<1>3. ASSUME NEW s \in Setters, SetDelegate(s) PROVE HeldInv'
  <2>1. pDelegate = None /\ pDelegate' = setter[s].mp
    BY <1>3 DEF SetDelegate, DelegateInv
  <2>2. pDelegate' # None
    BY <1>3, <2>1, NameAssumption DEF SetDelegate, SetterInv, Delegating
  <2>3. ToSet(todo') = meters /\ IsInjective(todo')
    BY <1>3, SetToSeqsProperties DEF SetDelegate
  <2> QED BY <1>3, <2>1, <2>2, <2>3 DEF SetDelegate
<1>4. ASSUME NEW s \in Setters, MeterSetDelegate(s) PROVE HeldInv'
  <2>1. pDelegate = setter[s].mp /\ Head(todo) \in Meters
    BY <1>4 DEF MeterSetDelegate, DelegateInv, Delegating, TypeOK
  <2>2. mDelegate' = [mDelegate EXCEPT ![Head(todo)] = pDelegate]
    BY <1>4, <2>1 DEF MeterSetDelegate
  <2>3. \A m \in Meters : mDelegate[m] = pDelegate => mDelegate'[m] = pDelegate
    BY <2>2 DEF TypeOK
  <2>4. \A c \in Clients : client[c].meter \in Meters \cup {None}
    BY DEF TypeOK, ClientStates
  <2> QED BY <1>4, <2>3, <2>4 DEF MeterSetDelegate
<1>5. ASSUME NEW s \in Setters, DelegateInstruments(s) PROVE HeldInv'
  <2>1. refused'.reg = refused.reg
    BY <1>5 DEF DelegateInstruments, TypeOK
  <2> QED BY <1>5, <2>1 DEF DelegateInstruments
<1>6. ASSUME NEW s \in Setters, DelegateRegistration(s) PROVE HeldInv'
  BY <1>6 DEF DelegateRegistration
<1>7. ASSUME NEW s \in Setters, MeterDelegated(s) PROVE HeldInv'
  <2>1. todo # <<>> /\ todo \in Seq(Meters) /\ mDelegate[Head(todo)] = pDelegate
    BY <1>7 DEF MeterDelegated, DelegateInv, TypeOK
  <2>2. ToSet(todo) = ToSet(todo') \cup {Head(todo)}
    BY <1>7, <2>1, TailToSet DEF MeterDelegated
  <2>3. IsInjective(todo')
    BY <1>7, <2>1, TailInjective DEF MeterDelegated
  <2> QED BY <1>7, <2>1, <2>2, <2>3 DEF MeterDelegated
<1>8. ASSUME NEW s \in Setters, ProviderDelegated(s) PROVE HeldInv'
  <2>1. pDelegate # None
    BY <1>8, NameAssumption DEF ProviderDelegated, DelegateInv, SetterInv, Delegating
  <2> QED BY <1>8, <2>1, FS_EmptySet DEF ProviderDelegated
<1>9. ASSUME NEW s \in Setters, OnceDone(s) PROVE HeldInv'
  BY <1>9 DEF OnceDone
<1>10. ASSUME NEW s \in Setters, Store(s) PROVE HeldInv'
  BY <1>10 DEF Store
<1>11. ASSUME NEW c \in Clients, NEW m \in Meters, Meter(c, m) PROVE HeldInv'
  <2>1. CASE NotDelegated
    <3>1. /\ client' = [client EXCEPT ![c] = [pc |-> "idle", meter |-> m]]
          /\ meters' = meters \cup {m}
      BY <1>11, <2>1 DEF Meter
    <3>2. IsFiniteSet(meters')
      BY <3>1, FS_AddElement
    <3> QED BY <1>11, <2>1, <3>1, <3>2 DEF Meter, NotDelegated, TypeOK
  <2>2. CASE ~NotDelegated
    <3>1. \A d \in Clients : client'[d].meter = client[d].meter
      BY <1>11, <2>2, BecomeMoves DEF Meter, TypeOK, ClientPlaces
    <3> QED BY <1>11, <2>2, <3>1 DEF Meter
  <2> QED BY <2>1, <2>2
<1>12. ASSUME NEW c \in Clients, LoadDelegate(c) PROVE HeldInv'
  <2>1. \A d \in Clients : client'[d].meter = client[d].meter
    BY <1>12, BecomeMoves DEF LoadDelegate, TypeOK, ClientPlaces
  <2> QED BY <1>12, <2>1 DEF LoadDelegate
<1>13. ASSUME NEW c \in Clients, AddInstrument(c) PROVE HeldInv'
  <2>1. \A d \in Clients : client'[d].meter = client[d].meter
    BY <1>13, BecomeMoves DEF AddInstrument, TypeOK, ClientPlaces
  <2> QED BY <1>13, <2>1 DEF AddInstrument
<1>14. ASSUME NEW c \in Clients, LoadForCallback(c) PROVE HeldInv'
  <2>1. \A d \in Clients : client'[d].meter = client[d].meter
    BY <1>14, BecomeMoves DEF LoadForCallback, TypeOK, ClientPlaces
  <2> QED BY <1>14, <2>1 DEF LoadForCallback
<1>15. ASSUME NEW c \in Clients, RegisterCallback(c) PROVE HeldInv'
  <2>1. \A d \in Clients : client'[d].meter = client[d].meter
    BY <1>15, BecomeMoves DEF RegisterCallback, TypeOK, ClientPlaces
  <2> QED BY <1>15, <2>1 DEF RegisterCallback
<1>16. ASSUME NEW c \in Clients, Unregister(c) PROVE HeldInv'
  <2>1. \A d \in Clients : client'[d].meter = client[d].meter
    BY <1>16, BecomeMoves DEF Unregister, TypeOK, ClientPlaces
  <2> QED BY <1>16, <2>1 DEF Unregister
<1>17. ASSUME NEW c \in Clients, RemoveRegistration(c) PROVE HeldInv'
  <2>1. \A d \in Clients : client'[d].meter = client[d].meter
    BY <1>17, BecomeMoves DEF RemoveRegistration, TypeOK, ClientPlaces
  <2> QED BY <1>17, <2>1 DEF RemoveRegistration
<1>18. ASSUME UNCHANGED vars PROVE HeldInv'
  BY <1>18 DEF vars
<1>19. ASSUME NEW s \in Setters, RegistrationPanics(s) PROVE HeldInv'
  <2>1. pDelegate # None
    BY <1>19, NameAssumption DEF RegistrationPanics, DelegateInv, SetterInv, Delegating
  <2>2. refused'.reg # {}
    BY <1>19 DEF RegistrationPanics, TypeOK
  <2>3. IsInjective(<<>>)
    BY DEF IsInjective
  <2> QED BY <1>19, <2>1, <2>2, <2>3 DEF RegistrationPanics
<1> QED
  BY <1>1, <1>2, <1>3, <1>4, <1>5, <1>6, <1>7, <1>8, <1>9, <1>10, <1>11,
     <1>12, <1>13, <1>14, <1>15, <1>16, <1>17, <1>18, <1>19
     DEF Next, SetterNext, ClientNext

LEMMA NextRegistryInv ==
  TypeOK /\ DelegateInv /\ RegistryInv /\ [Next]_vars => RegistryInv'
<1> SUFFICES ASSUME TypeOK, DelegateInv, RegistryInv, [Next]_vars
             PROVE  RegistryInv'
  OBVIOUS
<1> USE DEF At, stateVars, providerVars, meterVars, regVars, histories, RegistryInv
<1>1. ASSUME NEW s \in Setters, NEW mp \in SDKs \cup {Placeholder}, SetMeterProvider(s, mp)
      PROVE  RegistryInv'
  BY <1>1 DEF SetMeterProvider
<1>2. ASSUME NEW s \in Setters, OnceDo(s) PROVE RegistryInv'
  BY <1>2 DEF OnceDo
<1>3. ASSUME NEW s \in Setters, SetDelegate(s) PROVE RegistryInv'
  BY <1>3 DEF SetDelegate
<1>4. ASSUME NEW s \in Setters, MeterSetDelegate(s) PROVE RegistryInv'
  BY <1>4 DEF MeterSetDelegate
<1>5. ASSUME NEW s \in Setters, DelegateInstruments(s) PROVE RegistryInv'
  BY <1>5 DEF DelegateInstruments
<1>6. ASSUME NEW s \in Setters, DelegateRegistration(s) PROVE RegistryInv'
  <2> DEFINE m == Head(todo)
             c == Head(registry[m])
  <2>1. m \in Meters
    BY <1>6 DEF DelegateRegistration, DelegateInv, TypeOK
  <2>2. registry[m] \in Seq(Clients) /\ registry[m] # <<>>
    BY <1>6, <2>1 DEF DelegateRegistration, TypeOK
  <2>3. c \in Clients /\ c \in ToSet(registry[m])
    BY <2>2, TailEntries, TailToSet
  <2>4. unreg[c] = Placeholder /\ client[c].meter = m
    BY <2>1, <2>3
  <2>5. /\ unregMu[c] = None /\ sdk' = [sdk EXCEPT ![c] = @ + 1]
        /\ unreg' = [unreg EXCEPT ![c] = "sdk"]
        /\ registry' = [registry EXCEPT ![m] = Tail(@)]
        /\ client' = client /\ unregMu' = unregMu
    BY <1>6, <2>4 DEF DelegateRegistration, AfterFirst, Placeholder
  <2> HIDE DEF m, c
  <2>6. client[c].pc # "unreg" /\ client[c].pc # "callback"
    BY <2>3, <2>4, <2>5, NameAssumption DEF None, Placeholder
  <2>7. /\ IsInjective(registry'[m]) /\ ToSet(registry'[m]) = ToSet(registry[m]) \ {c}
        /\ \A n \in Meters \ {m} : registry'[n] = registry[n]
    <3>1. registry'[m] = Tail(registry[m])
          /\ \A n \in Meters \ {m} : registry'[n] = registry[n]
      BY <2>1, <2>5 DEF TypeOK
    <3>2. IsInjective(registry[m])
      BY <2>1
    <3>3. IsInjective(Tail(registry[m])) /\ c \notin ToSet(Tail(registry[m]))
      BY <2>2, <3>2, TailInjective DEF c
    <3>4. ToSet(registry[m]) = ToSet(Tail(registry[m])) \cup {c}
      BY <2>2, TailToSet DEF c
    <3> QED BY <3>1, <3>3, <3>4
  <2>8. /\ unreg'[c] = "sdk" /\ sdk'[c] = sdk[c] + 1 /\ sdk[c] = 0
        /\ \A d \in Clients \ {c} : unreg'[d] = unreg[d] /\ sdk'[d] = sdk[d]
    BY <2>3, <2>4, <2>5 DEF TypeOK, Placeholder
  <2>9. \A n \in Meters : IsInjective(registry'[n])
    BY <2>7
  <2>10. ASSUME NEW d \in Clients, NEW n \in Meters
         PROVE  d \in ToSet(registry'[n]) <=>
                  unreg'[d] = Placeholder /\ client[d].meter = n
    <3>1. CASE d = c
      BY <2>1, <2>4, <2>7, <2>8, <3>1 DEF Placeholder
    <3>2. CASE d # c
      BY <2>7, <2>8, <3>2
    <3> QED BY <3>1, <3>2
  <2>11. \A d \in Clients : sdk'[d] = IF unreg'[d] = "sdk" THEN 1 ELSE 0
    BY <2>8
  <2>12. \A d \in Clients :
           /\ client[d].pc = "callback" => unreg'[d] = None
           /\ client[d].pc = "unreg" => unreg'[d] = Placeholder /\ unregMu[d] = d
           /\ unreg'[d] # None => client[d].meter # None
    BY <2>1, <2>4, <2>6, <2>8, NameAssumption
  <2> QED BY <2>5, <2>9, <2>10, <2>11, <2>12
<1>7. ASSUME NEW s \in Setters, MeterDelegated(s) PROVE RegistryInv'
  BY <1>7 DEF MeterDelegated
<1>8. ASSUME NEW s \in Setters, ProviderDelegated(s) PROVE RegistryInv'
  BY <1>8 DEF ProviderDelegated
<1>9. ASSUME NEW s \in Setters, OnceDone(s) PROVE RegistryInv'
  BY <1>9 DEF OnceDone
<1>10. ASSUME NEW s \in Setters, Store(s) PROVE RegistryInv'
  BY <1>10 DEF Store
<1>11. ASSUME NEW c \in Clients, NEW m \in Meters, Meter(c, m)
      PROVE  RegistryInv'
  <2>1. /\ client[c].pc = "start"
        /\ client'[c].meter = None <=> client'[c].pc \in {"start", "withSDK"}
        /\ client'[c].pc \in {"withSDK", "idle"}
        /\ \A d \in Clients \ {c} : client'[d] = client[d]
        /\ registry' = registry /\ unreg' = unreg /\ sdk' = sdk
        /\ unregMu' = unregMu
    <3>1. client[c].pc = "start" /\ client[c].meter = None
      BY <1>11 DEF Meter
    <3>2. CASE NotDelegated
      <4>1. client' = [client EXCEPT ![c] = [pc |-> "idle", meter |-> m]]
        BY <1>11, <3>2 DEF Meter
      <4> QED BY <1>11, <3>1, <4>1, NameAssumption DEF Meter, TypeOK
    <3>3. CASE ~NotDelegated
      BY <1>11, <3>1, <3>3, BecomeMoves DEF Meter, TypeOK, ClientPlaces
    <3> QED BY <3>2, <3>3
  <2>2. unreg[c] = None
    BY <2>1
  <2>3. \A n \in Meters : c \notin ToSet(registry[n])
    BY <2>2 DEF Placeholder, None
  <2> QED BY <2>1, <2>2, <2>3 DEF Placeholder, None
<1>12. ASSUME NEW c \in Clients, LoadDelegate(c) PROVE RegistryInv'
  <2>1. /\ client' \in [Clients -> ClientStates]
        /\ \A d \in Clients : client'[d].meter = client[d].meter
        /\ \A d \in Clients \ {c} : client'[d] = client[d]
        /\ client'[c].pc \in {client[c].pc, "instrument"}
    <3>1. client' = client \/ Become(c, "instrument")
      BY <1>12 DEF LoadDelegate
    <3> QED BY <3>1, MayBecome DEF TypeOK, ClientPlaces
  <2>2. client[c].pc \in {"idle", "instrument"} /\ client'[c].pc \in {"idle", "instrument"}
    BY <1>12, <2>1 DEF LoadDelegate
  <2> QED BY <1>12, <2>1, <2>2 DEF LoadDelegate
<1>13. ASSUME NEW c \in Clients, AddInstrument(c) PROVE RegistryInv'
  <2>1. /\ client' \in [Clients -> ClientStates]
        /\ \A d \in Clients : client'[d].meter = client[d].meter
        /\ \A d \in Clients \ {c} : client'[d] = client[d]
    BY <1>13, BecomeMoves DEF AddInstrument, TypeOK, ClientPlaces
  <2>2. client[c].pc \in {"idle", "instrument"} /\ client'[c].pc \in {"idle", "instrument"}
    BY <1>13, BecomeMoves DEF AddInstrument, TypeOK, ClientPlaces
  <2> QED BY <1>13, <2>1, <2>2 DEF AddInstrument
<1>14. ASSUME NEW c \in Clients, LoadForCallback(c) PROVE RegistryInv'
  <2>1. /\ client' \in [Clients -> ClientStates]
        /\ \A d \in Clients : client'[d].meter = client[d].meter
        /\ \A d \in Clients \ {c} : client'[d] = client[d]
    <3>1. client' = client \/ Become(c, "callback")
      BY <1>14 DEF LoadForCallback
    <3> QED BY <3>1, MayBecome DEF TypeOK, ClientPlaces
  <2>2. client[c].pc = "idle" /\ unreg[c] = None /\ client[c].meter # None
    BY <1>14 DEF LoadForCallback
  <2>3. \/ sdk' = [sdk EXCEPT ![c] = @ + 1] /\ unreg' = [unreg EXCEPT ![c] = "sdk"]
           /\ client' = client
        \/ sdk' = sdk /\ unreg' = unreg /\ client'[c].pc = "callback"
    BY <1>14, BecomeMoves DEF LoadForCallback, TypeOK, ClientPlaces
  <2>4. \/ sdk'[c] = 1 /\ unreg'[c] = "sdk" /\ client' = client
        \/ sdk'[c] = 0 /\ unreg'[c] = None /\ client'[c].pc = "callback"
    BY <2>2, <2>3 DEF TypeOK, None
  <2>5. \A d \in Clients \ {c} : sdk'[d] = sdk[d] /\ unreg'[d] = unreg[d]
    BY <2>3 DEF TypeOK
  <2>6. registry' = registry /\ unregMu' = unregMu
    BY <1>14 DEF LoadForCallback
  <2>7. \A n \in Meters : c \notin ToSet(registry[n])
    BY <2>2 DEF Placeholder, None
  <2> QED BY <2>1, <2>2, <2>4, <2>5, <2>6, <2>7 DEF Placeholder, None
<1>15. ASSUME NEW c \in Clients, RegisterCallback(c) PROVE RegistryInv'
  <2>1. /\ client' \in [Clients -> ClientStates]
        /\ \A d \in Clients : client'[d].meter = client[d].meter
        /\ \A d \in Clients \ {c} : client'[d] = client[d]
    BY <1>15, BecomeMoves DEF RegisterCallback, TypeOK, ClientPlaces
  <2> DEFINE m == client[c].meter
  <2>2. /\ client[c].pc = "callback" /\ unreg[c] = None
        /\ registry' = [registry EXCEPT ![m] = Append(@, c)]
        /\ unreg' = [unreg EXCEPT ![c] = Placeholder]
        /\ sdk' = sdk /\ unregMu' = unregMu
    BY <1>15 DEF RegisterCallback
  <2>3. client'[c].pc = "idle"
    BY <1>15, BecomeMoves DEF RegisterCallback, TypeOK, ClientPlaces
  <2>4. m \in Meters /\ m # None
    <3>1. m # None
      BY <2>2
    <3>2. m \in Meters \cup {None}
      BY DEF TypeOK, ClientStates
    <3> QED BY <3>1, <3>2
  <2>5. unreg'[c] = Placeholder /\ \A d \in Clients \ {c} : unreg'[d] = unreg[d]
    BY <2>2 DEF TypeOK
  <2> HIDE DEF m
  <2>6. /\ registry'[m] = Append(registry[m], c)
        /\ \A n \in Meters \ {m} : registry'[n] = registry[n]
    BY <2>2, <2>4 DEF TypeOK
  <2>7. registry[m] \in Seq(Clients) /\ IsInjective(registry[m])
        /\ c \notin ToSet(registry[m])
    BY <2>2, <2>4 DEF TypeOK, Placeholder, None
  <2>8. ToSet(registry'[m]) = ToSet(registry[m]) \cup {c}
    BY <2>6, <2>7, AppendToSet
  <2>9. IsInjective(registry'[m])
    BY <2>6, <2>7, AppendKeepsInjective
  <2>10. \A n \in Meters : IsInjective(registry'[n])
    BY <2>6, <2>9
  <2>11. ASSUME NEW d \in Clients, NEW n \in Meters
         PROVE  d \in ToSet(registry'[n]) <=>
                  unreg'[d] = Placeholder /\ client[d].meter = n
    <3>1. CASE d = c
      BY <2>2, <2>5, <2>6, <2>8, <3>1 DEF m, Placeholder, None
    <3>2. CASE d # c
      <4>1. d \in ToSet(registry'[n]) <=> d \in ToSet(registry[n])
        <5>1. CASE n = m
          BY <2>8, <3>2, <5>1
        <5>2. CASE n # m
          BY <2>6, <5>2
        <5> QED BY <5>1, <5>2
      <4> QED BY <2>5, <3>2, <4>1
    <3> QED BY <3>1, <3>2
  <2>12. \A d \in Clients : sdk[d] = IF unreg'[d] = "sdk" THEN 1 ELSE 0
    BY <2>2, <2>5 DEF Placeholder, None
  <2> QED BY <2>1, <2>2, <2>3, <2>4, <2>5, <2>10, <2>11, <2>12 DEF m
<1>16. ASSUME NEW c \in Clients, Unregister(c) PROVE RegistryInv'
  <2>1. /\ client' \in [Clients -> ClientStates]
        /\ \A d \in Clients : client'[d].meter = client[d].meter
        /\ \A d \in Clients \ {c} : client'[d] = client[d]
    <3>1. client' = client \/ Become(c, "unreg")
      BY <1>16 DEF Unregister
    <3>2. CASE client' = client
      BY <3>2 DEF TypeOK
    <3>3. CASE Become(c, "unreg")
      BY <3>3, BecomeMoves DEF TypeOK, ClientPlaces
    <3> QED BY <3>1, <3>2, <3>3
  <2>2. client[c].pc = "idle" /\ registry' = registry
        /\ \/ /\ unreg[c] = "sdk" /\ sdk' = [sdk EXCEPT ![c] = @ - 1]
              /\ unreg' = [unreg EXCEPT ![c] = "nil"]
              /\ client' = client /\ unregMu' = unregMu
           \/ /\ unreg[c] = Placeholder /\ sdk' = sdk /\ unreg' = unreg
              /\ unregMu' = [unregMu EXCEPT ![c] = c] /\ client'[c].pc = "unreg"
    <3>1. client[c].pc = "idle" /\ registry' = registry
      BY <1>16 DEF Unregister
    <3>2. CASE unreg[c] = "sdk"
      BY <1>16, <3>1, <3>2 DEF Unregister
    <3>3. CASE unreg[c] # "sdk"
      <4>1. client'[c].pc = "unreg"
        BY <1>16, <3>3, BecomeMoves DEF Unregister, TypeOK, ClientPlaces
      <4> QED BY <1>16, <3>1, <3>3, <4>1 DEF Unregister, HeldBy
    <3> QED BY <3>2, <3>3
  <2>3. \/ /\ unreg[c] = "sdk" /\ unreg'[c] = "nil" /\ sdk'[c] = 0
           /\ client' = client /\ unregMu' = unregMu
        \/ /\ unreg[c] = Placeholder /\ unreg'[c] = Placeholder /\ sdk' = sdk
           /\ unregMu'[c] = c /\ client'[c].pc = "unreg"
    BY <2>2 DEF TypeOK
  <2>4. \A d \in Clients \ {c} :
          unreg'[d] = unreg[d] /\ sdk'[d] = sdk[d] /\ unregMu'[d] = unregMu[d]
    BY <2>2 DEF TypeOK
  <2>5. \A d \in Clients : unreg'[d] = Placeholder <=> unreg[d] = Placeholder
    BY <2>3, <2>4 DEF Placeholder
  <2>6. \A d \in Clients : sdk'[d] = IF unreg'[d] = "sdk" THEN 1 ELSE 0
    BY <2>3, <2>4 DEF Placeholder
  <2>7. client[c].meter # None
    BY <2>2
  <2> QED BY <2>1, <2>2, <2>3, <2>4, <2>5, <2>6, <2>7
<1>17. ASSUME NEW c \in Clients, RemoveRegistration(c) PROVE RegistryInv'
  <2>1. /\ client' \in [Clients -> ClientStates]
        /\ \A d \in Clients : client'[d].meter = client[d].meter
        /\ \A d \in Clients \ {c} : client'[d] = client[d]
    BY <1>17, BecomeMoves DEF RemoveRegistration, TypeOK, ClientPlaces
  <2> DEFINE m == client[c].meter
  <2>2. /\ client[c].pc = "unreg" /\ unreg[c] = Placeholder
        /\ registry' = [registry EXCEPT ![m] = RemoveFirst(@, c)]
        /\ unreg' = [unreg EXCEPT ![c] = "nil"]
        /\ unregMu' = [unregMu EXCEPT ![c] = None] /\ sdk' = sdk
    BY <1>17 DEF RemoveRegistration
  <2>3. client'[c].pc = "idle"
    BY <1>17, BecomeMoves DEF RemoveRegistration, TypeOK, ClientPlaces
  <2>4. m \in Meters /\ m # None
    <3>1. m # None
      BY <2>2
    <3>2. m \in Meters \cup {None}
      BY DEF TypeOK, ClientStates
    <3> QED BY <3>1, <3>2
  <2>5. unreg'[c] = "nil" /\ \A d \in Clients \ {c} :
          unreg'[d] = unreg[d] /\ unregMu'[d] = unregMu[d]
    BY <2>2 DEF TypeOK
  <2> HIDE DEF m
  <2>6. /\ registry'[m] = RemoveFirst(registry[m], c)
        /\ \A n \in Meters \ {m} : registry'[n] = registry[n]
    BY <2>2, <2>4 DEF TypeOK
  <2>7. registry[m] \in Seq(Clients) /\ IsInjective(registry[m])
    BY <2>4 DEF TypeOK
  <2>8. /\ ToSet(registry'[m]) = ToSet(registry[m]) \ {c}
        /\ IsInjective(registry'[m])
    BY <2>6, <2>7, RemoveFirstInjective
  <2>10. \A n \in Meters : IsInjective(registry'[n])
    BY <2>6, <2>8
  <2>11. ASSUME NEW d \in Clients, NEW n \in Meters
         PROVE  d \in ToSet(registry'[n]) <=>
                  unreg'[d] = Placeholder /\ client[d].meter = n
    <3>1. CASE d = c
      <4>1. d \notin ToSet(registry'[n])
        BY <2>6, <2>8, <3>1 DEF m
      <4> QED BY <2>5, <3>1, <4>1 DEF Placeholder
    <3>2. CASE d # c
      BY <2>5, <2>6, <2>8, <3>2
    <3> QED BY <3>1, <3>2
  <2>12. \A d \in Clients : sdk[d] = IF unreg'[d] = "sdk" THEN 1 ELSE 0
    BY <2>2, <2>5 DEF Placeholder
  <2> QED BY <2>1, <2>2, <2>3, <2>4, <2>5, <2>10, <2>11, <2>12 DEF m
<1>18. ASSUME UNCHANGED vars PROVE RegistryInv'
  BY <1>18 DEF vars
<1>19. ASSUME NEW s \in Setters, RegistrationPanics(s) PROVE RegistryInv'
  BY <1>19 DEF RegistrationPanics
<1> QED
  BY <1>1, <1>2, <1>3, <1>4, <1>5, <1>6, <1>7, <1>8, <1>9, <1>10, <1>11,
     <1>12, <1>13, <1>14, <1>15, <1>16, <1>17, <1>18, <1>19
     DEF Next, SetterNext, ClientNext

LEMMA NextInstrumentInv ==
  TypeOK /\ SetterInv /\ DelegateInv /\ RegistryInv /\ InstrumentInv /\ [Next]_vars => InstrumentInv'
<1> SUFFICES ASSUME TypeOK, SetterInv, DelegateInv, RegistryInv, InstrumentInv, [Next]_vars
             PROVE  InstrumentInv'
  OBVIOUS
<1> USE DEF At, stateVars, providerVars, meterVars, regVars, histories, InstrumentInv
<1>1. ASSUME NEW s \in Setters, NEW mp \in SDKs \cup {Placeholder}, SetMeterProvider(s, mp)
      PROVE  InstrumentInv'
  BY <1>1 DEF SetMeterProvider
<1>2. ASSUME NEW s \in Setters, OnceDo(s) PROVE InstrumentInv'
  BY <1>2 DEF OnceDo
<1>3. ASSUME NEW s \in Setters, SetDelegate(s) PROVE InstrumentInv'
  <2>1. pDelegate = None /\ pDelegate' = setter[s].mp
    BY <1>3 DEF SetDelegate, DelegateInv
  <2>2. pDelegate' # None
    BY <1>3, <2>1, NameAssumption DEF SetDelegate, SetterInv, Delegating
  <2> QED BY <1>3, <2>1, <2>2 DEF SetDelegate
<1>4. ASSUME NEW s \in Setters, MeterSetDelegate(s) PROVE InstrumentInv'
  BY <1>4 DEF MeterSetDelegate
<1>5. ASSUME NEW s \in Setters, DelegateInstruments(s) PROVE InstrumentInv'
  <2> DEFINE m == Head(todo)
  <2>1. pDelegate = setter[s].mp /\ pDelegate \in SDKs /\ m \in Meters
    BY <1>5 DEF DelegateInstruments, DelegateInv, SetterInv, Delegating, TypeOK
  <2> HIDE DEF m
  <2>2. PICK refusing \in SUBSET instruments[m] :
          inst' = [c \in Clients |-> IF c \in instruments[m] \ refusing
                                    THEN setter[s].mp ELSE inst[c]]
    BY <1>5 DEF DelegateInstruments, m
  <2>5. instruments' = instruments /\ client' = client /\ pDelegate' = pDelegate
    BY <1>5 DEF DelegateInstruments, m
  <2>3. pDelegate # None
    BY <2>1, NameAssumption
  <2>4. \A c \in Clients : inst'[c] # None <=> inst[c] # None
    BY <2>1, <2>2, <2>3
  <2> QED BY <2>1, <2>2, <2>3, <2>4, <2>5
<1>6. ASSUME NEW s \in Setters, DelegateRegistration(s) PROVE InstrumentInv'
  BY <1>6 DEF DelegateRegistration
<1>7. ASSUME NEW s \in Setters, MeterDelegated(s) PROVE InstrumentInv'
  <2>1. pDelegate # None
    BY <1>7, NameAssumption DEF MeterDelegated, DelegateInv, SetterInv, Delegating
  <2> QED BY <1>7, <2>1 DEF MeterDelegated, TypeOK
<1>8. ASSUME NEW s \in Setters, ProviderDelegated(s) PROVE InstrumentInv'
  BY <1>8 DEF ProviderDelegated
<1>9. ASSUME NEW s \in Setters, OnceDone(s) PROVE InstrumentInv'
  BY <1>9 DEF OnceDone
<1>10. ASSUME NEW s \in Setters, Store(s) PROVE InstrumentInv'
  BY <1>10 DEF Store
<1>11. ASSUME NEW c \in Clients, NEW m \in Meters, Meter(c, m)
      PROVE  InstrumentInv'
  <2>1. client[c].pc = "start" /\ client[c].meter = None /\ inst[c] = None
    BY <1>11 DEF Meter, RegistryInv
  <2>2. client'[c].pc # "instrument" /\ \A d \in Clients \ {c} : client'[d] = client[d]
    <3>1. CASE NotDelegated
      <4>1. client' = [client EXCEPT ![c] = [pc |-> "idle", meter |-> m]]
        BY <1>11, <3>1 DEF Meter
      <4> QED BY <4>1 DEF TypeOK
    <3>2. CASE ~NotDelegated
      BY <1>11, <3>2, BecomeMoves DEF Meter, TypeOK, ClientPlaces
    <3> QED BY <3>1, <3>2
  <2>3. inst' = inst /\ instruments' = instruments /\ pDelegate' = pDelegate
    BY <1>11 DEF Meter
  <2>4. inst[c] # Placeholder
    BY <2>1 DEF Placeholder, None
  <2> QED BY <2>1, <2>2, <2>3, <2>4
<1>12. ASSUME NEW c \in Clients, LoadDelegate(c) PROVE InstrumentInv'
  <2>1. /\ client' \in [Clients -> ClientStates]
        /\ \A d \in Clients : client'[d].meter = client[d].meter
        /\ \A d \in Clients \ {c} : client'[d] = client[d]
    BY <1>12, BecomeMoves DEF LoadDelegate, TypeOK, ClientPlaces
  <2> DEFINE m == client[c].meter
  <2>2. client[c].pc = "idle" /\ inst[c] = None /\ m # None
    BY <1>12 DEF LoadDelegate, RegistryInv
  <2>3. m \in Meters
    <3>1. m \in Meters \cup {None}
      BY DEF TypeOK, ClientStates
    <3> QED BY <2>2, <3>1
  <2>4. \/ /\ inst' = [inst EXCEPT ![c] = mDelegate[m]] /\ mDelegate[m] # None
           /\ client' = client
        \/ inst' = inst /\ client'[c].pc = "instrument"
    <3>1. CASE mDelegate[m] # None
      BY <1>12, <3>1 DEF LoadDelegate
    <3>2. CASE mDelegate[m] = None
      BY <1>12, <3>2, BecomeMoves DEF LoadDelegate, TypeOK, ClientPlaces
    <3> QED BY <3>1, <3>2
  <2>5. mDelegate[m] # None => pDelegate # None
    BY <2>3 DEF DelegateInv
  <2>6. instruments' = instruments /\ pDelegate' = pDelegate
    BY <1>12 DEF LoadDelegate
  <2>7. \A d \in Clients \ {c} : inst'[d] = inst[d]
    BY <2>4 DEF TypeOK
  <2>8. \/ inst'[c] # None /\ pDelegate # None /\ client' = client
        \/ inst'[c] = None /\ client'[c].pc = "instrument"
    BY <2>2, <2>4, <2>5 DEF TypeOK
  <2>9. None # Placeholder
    BY DEF None, Placeholder
  <2> HIDE DEF m
  <2> QED BY <2>1, <2>2, <2>6, <2>7, <2>8, <2>9 DEF m
<1>13. ASSUME NEW c \in Clients, AddInstrument(c) PROVE InstrumentInv'
  <2>1. /\ client' \in [Clients -> ClientStates]
        /\ \A d \in Clients : client'[d].meter = client[d].meter
        /\ \A d \in Clients \ {c} : client'[d] = client[d]
    BY <1>13, BecomeMoves DEF AddInstrument, TypeOK, ClientPlaces
  <2> DEFINE m == client[c].meter
  <2>2. client[c].pc = "instrument" /\ inst[c] = None /\ m # None
    BY <1>13 DEF AddInstrument, RegistryInv
  <2>3. m \in Meters
    <3>1. m \in Meters \cup {None}
      BY DEF TypeOK, ClientStates
    <3> QED BY <2>2, <3>1
  <2>4. client'[c].pc = "idle"
    BY <1>13, BecomeMoves DEF AddInstrument, TypeOK, ClientPlaces
  <2> HIDE DEF m
  <2>5. /\ instruments'[m] = instruments[m] \cup {c}
        /\ \A n \in Meters \ {m} : instruments'[n] = instruments[n]
        /\ inst'[c] = Placeholder
        /\ \A d \in Clients \ {c} : inst'[d] = inst[d]
        /\ pDelegate' = pDelegate
    BY <1>13, <2>3 DEF AddInstrument, TypeOK, m
  <2>6. None # Placeholder
    BY DEF None, Placeholder
  <2>7. \A d \in Clients : /\ inst'[d] # None => client'[d].meter # None
                           /\ client'[d].pc = "instrument" => inst'[d] = None
    BY <2>1, <2>2, <2>4, <2>5 DEF m
  <2>8. ASSUME NEW d \in Clients, NEW n \in Meters, d \in instruments'[n]
        PROVE  inst'[d] # None /\ client'[d].meter = n
    <3>1. d \in instruments[n] \/ (d = c /\ n = m)
      BY <2>3, <2>5, <2>8
    <3> QED BY <2>1, <2>5, <2>6, <3>1 DEF m
  <2>9. ASSUME pDelegate = None, NEW d \in Clients, inst'[d] = Placeholder
        PROVE  d \in instruments'[client'[d].meter]
    <3>1. CASE d = c
      BY <2>1, <2>5, <3>1 DEF m
    <3>2. CASE d # c
      <4>1. inst[d] = Placeholder /\ client[d].meter # None
        BY <2>5, <2>6, <2>9, <3>2
      <4>2. d \in instruments[client[d].meter]
        BY <2>9, <4>1
      <4>3. client[d].meter \in Meters
        <5>1. client[d].meter \in Meters \cup {None}
          BY DEF TypeOK, ClientStates
        <5> QED BY <4>1, <5>1
      <4> QED BY <2>1, <2>3, <2>5, <4>2, <4>3
    <3> QED BY <3>1, <3>2
  <2> QED BY <2>5, <2>7, <2>8, <2>9
<1>14. ASSUME NEW c \in Clients, LoadForCallback(c) PROVE InstrumentInv'
  <2>1. /\ client' \in [Clients -> ClientStates]
        /\ \A d \in Clients : client'[d].meter = client[d].meter
        /\ \A d \in Clients \ {c} : client'[d] = client[d]
    BY <1>14, BecomeMoves DEF LoadForCallback, TypeOK, ClientPlaces
  <2>2. client'[c].pc # "instrument" /\ inst' = inst /\ instruments' = instruments
        /\ pDelegate' = pDelegate
    BY <1>14, BecomeMoves DEF LoadForCallback, TypeOK, ClientPlaces
  <2> QED BY <2>1, <2>2
<1>15. ASSUME NEW c \in Clients, RegisterCallback(c) PROVE InstrumentInv'
  <2>1. /\ client' \in [Clients -> ClientStates]
        /\ \A d \in Clients : client'[d].meter = client[d].meter
        /\ \A d \in Clients \ {c} : client'[d] = client[d]
    BY <1>15, BecomeMoves DEF RegisterCallback, TypeOK, ClientPlaces
  <2>2. client'[c].pc # "instrument" /\ inst' = inst /\ instruments' = instruments
        /\ pDelegate' = pDelegate
    BY <1>15, BecomeMoves DEF RegisterCallback, TypeOK, ClientPlaces
  <2> QED BY <2>1, <2>2
<1>16. ASSUME NEW c \in Clients, Unregister(c) PROVE InstrumentInv'
  <2>1. /\ \A d \in Clients : client'[d].meter = client[d].meter
        /\ \A d \in Clients \ {c} : client'[d] = client[d]
    <3>1. client' = client \/ Become(c, "unreg")
      BY <1>16 DEF Unregister
    <3>2. CASE client' = client
      BY <3>2
    <3>3. CASE Become(c, "unreg")
      BY <3>3, BecomeMoves DEF TypeOK, ClientPlaces
    <3> QED BY <3>1, <3>2, <3>3
  <2>2. client'[c].pc # "instrument"
    <3>1. client' = client \/ Become(c, "unreg")
      BY <1>16 DEF Unregister
    <3>2. CASE client' = client
      BY <1>16, <3>2 DEF Unregister
    <3>3. CASE Become(c, "unreg")
      BY <3>3, BecomeMoves DEF TypeOK, ClientPlaces
    <3> QED BY <3>1, <3>2, <3>3
  <2> QED BY <1>16, <2>1, <2>2 DEF Unregister
<1>17. ASSUME NEW c \in Clients, RemoveRegistration(c) PROVE InstrumentInv'
  <2>1. /\ client' \in [Clients -> ClientStates]
        /\ \A d \in Clients : client'[d].meter = client[d].meter
        /\ \A d \in Clients \ {c} : client'[d] = client[d]
    BY <1>17, BecomeMoves DEF RemoveRegistration, TypeOK, ClientPlaces
  <2>2. client'[c].pc # "instrument" /\ inst' = inst /\ instruments' = instruments
        /\ pDelegate' = pDelegate
    BY <1>17, BecomeMoves DEF RemoveRegistration, TypeOK, ClientPlaces
  <2> QED BY <2>1, <2>2
<1>18. ASSUME UNCHANGED vars PROVE InstrumentInv'
  BY <1>18 DEF vars
<1>19. ASSUME NEW s \in Setters, RegistrationPanics(s) PROVE InstrumentInv'
  BY <1>19 DEF RegistrationPanics
<1> QED
  BY <1>1, <1>2, <1>3, <1>4, <1>5, <1>6, <1>7, <1>8, <1>9, <1>10, <1>11,
     <1>12, <1>13, <1>14, <1>15, <1>16, <1>17, <1>18, <1>19
     DEF Next, SetterNext, ClientNext

LEMMA NextEarlyInv ==
  TypeOK /\ SetterInv /\ DelegateInv /\ HeldInv /\ RegistryInv
    /\ InstrumentInv /\ EarlyInv /\ [Next]_vars => EarlyInv'
<1> SUFFICES ASSUME TypeOK, SetterInv, DelegateInv, HeldInv, RegistryInv,
                    InstrumentInv, EarlyInv, [Next]_vars
             PROVE  EarlyInv'
  OBVIOUS
<1> USE DEF At, stateVars, providerVars, meterVars, regVars, histories, EarlyInv, Panicked
<1>1. ASSUME NEW s \in Setters, NEW mp \in SDKs \cup {Placeholder}, SetMeterProvider(s, mp)
      PROVE  EarlyInv'
  <2>1. \A t \in Setters : setter'[t].pc = "registry" => setter[t].pc = "registry"
    BY <1>1 DEF SetMeterProvider, TypeOK
  <2> QED BY <1>1, <2>1 DEF SetMeterProvider
<1>2. ASSUME NEW s \in Setters, OnceDo(s) PROVE EarlyInv'
  <2>1. \A t \in Setters : setter'[t].pc = "registry" => setter[t].pc = "registry"
    <3>1. setter'[s].pc # "registry"
          /\ \A t \in Setters \ {s} : setter'[t] = setter[t]
      BY <1>2, GotoMoves DEF OnceDo, TypeOK, SetterPlaces, Inside
    <3> QED BY <3>1
  <2> QED BY <1>2, <2>1 DEF OnceDo
<1>3. ASSUME NEW s \in Setters, SetDelegate(s) PROVE EarlyInv'
  <2>1. pDelegate = None /\ pDelegate' # None
    <3>1. pDelegate = None /\ pDelegate' = setter[s].mp
      BY <1>3 DEF SetDelegate, DelegateInv
    <3> QED BY <1>3, <3>1, NameAssumption DEF SetDelegate, SetterInv, Delegating
  <2>2. /\ early'.inst = {c \in Clients : inst[c] = Placeholder}
        /\ early'.reg = {c \in Clients : unreg[c] = Placeholder}
        /\ inst' = inst /\ unreg' = unreg /\ client' = client
        /\ instruments' = instruments
    BY <1>3 DEF SetDelegate
  <2>3. ToSet(todo') = meters
    BY <1>3, SetToSeqsProperties DEF SetDelegate, HeldInv
  <2>4. \A t \in Setters : setter'[t].pc # "registry"
    <3>1. setter[s].pc = "setDelegate" /\ setter'[s].pc = "meters"
          /\ \A t \in Setters \ {s} : setter'[t] = setter[t]
      BY <1>3, GotoMoves DEF SetDelegate, TypeOK, SetterPlaces, Inside
    <3> QED BY <3>1 DEF SetterInv, Inside
  <2>5. None # Placeholder
    BY DEF None, Placeholder
  <2>6. ASSUME NEW c \in Clients, inst[c] = Placeholder
        PROVE  /\ c \in instruments[client[c].meter]
               /\ \E i \in DOMAIN todo' : todo'[i] = client[c].meter
    <3>1. client[c].meter # None /\ c \in instruments[client[c].meter]
      BY <2>1, <2>5, <2>6 DEF InstrumentInv
    <3>2. client[c].meter \in ToSet(todo')
      BY <2>1, <2>3, <3>1 DEF HeldInv
    <3> QED BY <3>1, <3>2 DEF ToSet
  <2>7. ASSUME NEW c \in Clients, unreg[c] = Placeholder
        PROVE  client[c].meter \in ToSet(todo')
    <3>1. client[c].meter # None
      BY <2>5, <2>7 DEF RegistryInv
    <3> QED BY <2>1, <2>3, <3>1 DEF HeldInv
  <2>8. \A c \in early'.inst :
          /\ inst'[c] = Placeholder /\ c \in instruments'[client'[c].meter]
          /\ \E i \in DOMAIN todo' : todo'[i] = client'[c].meter
    BY <2>2, <2>6
  <2>9. \A c \in early'.reg :
          unreg'[c] = Placeholder /\ client'[c].meter \in ToSet(todo')
    BY <2>2, <2>7
  <2> QED BY <2>1, <2>4, <2>8, <2>9
<1>4. ASSUME NEW s \in Setters, MeterSetDelegate(s) PROVE EarlyInv'
  <2>1. \A t \in Setters : setter'[t].pc = "registry" => setter[t].pc = "registry"
    <3>1. setter'[s].pc = "meter"
          /\ \A t \in Setters \ {s} : setter'[t] = setter[t]
      BY <1>4, GotoMoves DEF MeterSetDelegate, TypeOK, SetterPlaces, Inside
    <3> QED BY <3>1
  <2> QED BY <1>4, <2>1 DEF MeterSetDelegate
<1>5. ASSUME NEW s \in Setters, DelegateInstruments(s) PROVE EarlyInv'
  <2> DEFINE m == Head(todo)
  <2>1. pDelegate = setter[s].mp /\ pDelegate \in SDKs /\ m \in Meters /\ todo # <<>>
    BY <1>5 DEF DelegateInstruments, DelegateInv, SetterInv, Delegating, TypeOK
  <2>2. m = todo[1]
    BY <2>1, TailEntries DEF TypeOK
  <2> HIDE DEF m
  <2>6. PICK refusing \in SUBSET instruments[m] :
          /\ inst' = [c \in Clients |-> IF c \in instruments[m] \ refusing
                                        THEN setter[s].mp ELSE inst[c]]
          /\ refused' = [refused EXCEPT !.inst = @ \cup refusing]
    BY <1>5 DEF DelegateInstruments, m
  <2>7. refused'.inst = refused.inst \cup refusing /\ refused'.reg = refused.reg
    BY <2>6 DEF TypeOK
  <2>3. /\ instruments' = instruments /\ client' = client /\ pDelegate' = pDelegate
        /\ todo' = todo /\ early' = early /\ unreg' = unreg
    BY <1>5 DEF DelegateInstruments, m
  <2>4. pDelegate # None
    BY <2>1, NameAssumption
  <2>5. ASSUME NEW c \in early.inst
        PROVE  \/ inst'[c] = pDelegate
               \/ inst'[c] = Placeholder /\ (c \in refused'.inst \/ refused.reg # {})
               \/ /\ inst'[c] = Placeholder /\ c \in instruments[client[c].meter]
                  /\ \E i \in DOMAIN todo : todo[i] = client[c].meter /\ i # 1
    <3>1. c \in Clients
      BY DEF TypeOK
    <3>2. inst'[c] = inst[c] \/ inst'[c] = pDelegate
      BY <2>1, <2>6, <3>1
    <3>3. CASE inst[c] = pDelegate \/ (inst[c] = Placeholder /\ (c \in refused.inst \/ refused.reg # {}))
      BY <2>7, <3>2, <3>3
    <3>4. CASE ~(inst[c] = pDelegate \/ (inst[c] = Placeholder /\ (c \in refused.inst \/ refused.reg # {})))
      <4>1. inst[c] = Placeholder /\ c \in instruments[client[c].meter]
        BY <3>4
      <4>2. PICK i \in DOMAIN todo : todo[i] = client[c].meter
        BY <3>4
      <4>3. CASE i = 1
        <5>1. c \in instruments[m]
          BY <2>2, <4>1, <4>2, <4>3
        <5>2. CASE c \in refusing
          BY <2>6, <2>7, <3>1, <4>1, <5>2
        <5>3. CASE c \notin refusing
          BY <2>1, <2>6, <3>1, <5>1, <5>3
        <5> QED BY <5>2, <5>3
      <4>4. CASE i # 1
        BY <3>2, <4>1, <4>2, <4>4
      <4> QED BY <4>3, <4>4
    <3> QED BY <3>3, <3>4
  <2> QED BY <2>3, <2>4, <2>5, <2>7
<1>6. ASSUME NEW s \in Setters, DelegateRegistration(s) PROVE EarlyInv'
  <2>1. \A c \in Clients : unreg'[c] = unreg[c] \/ unreg'[c] = "sdk"
    <3>1. unreg' = unreg \/ unreg' = [unreg EXCEPT ![Head(registry[Head(todo)])] = "sdk"]
      BY <1>6 DEF DelegateRegistration
    <3> QED BY <3>1 DEF TypeOK
  <2>2. early.reg \subseteq Clients
    BY DEF TypeOK
  <2>3. /\ setter' = setter /\ inst' = inst /\ instruments' = instruments
        /\ client' = client /\ pDelegate' = pDelegate
        /\ todo' = todo /\ early' = early /\ refused' = refused
    BY <1>6 DEF DelegateRegistration
  <2> QED BY <2>1, <2>2, <2>3
<1>7. ASSUME NEW s \in Setters, MeterDelegated(s) PROVE EarlyInv'
  <2> DEFINE m == Head(todo)
  <2>1. todo # <<>> /\ m \in Meters /\ setter[s].pc = "registry"
    BY <1>7 DEF MeterDelegated, DelegateInv, TypeOK
  <2>2. /\ Len(todo) \in Nat \ {0} /\ DOMAIN todo = 1 .. Len(todo) /\ m = todo[1]
        /\ DOMAIN Tail(todo) = 1 .. Len(todo) - 1
        /\ \A i \in 1 .. Len(todo) - 1 : Tail(todo)[i] = todo[i + 1]
    BY <2>1, TailEntries DEF TypeOK
  <2>3. ToSet(todo) = ToSet(Tail(todo)) \cup {m}
    BY <2>1, TailToSet DEF TypeOK
  <2>4. /\ instruments' = [instruments EXCEPT ![m] = {}] /\ todo' = Tail(todo)
        /\ registry[m] = <<>> /\ inst' = inst /\ unreg' = unreg
        /\ client' = client /\ pDelegate' = pDelegate /\ early' = early
        /\ refused' = refused
    BY <1>7 DEF MeterDelegated
  <2>5. \A t \in Setters : setter'[t].pc # "registry"
    <3>1. setter'[s].pc = "meters"
          /\ \A t \in Setters \ {s} : setter'[t] = setter[t]
      BY <1>7, GotoMoves DEF MeterDelegated, TypeOK, SetterPlaces, Inside
    <3> QED BY <2>1, <3>1 DEF SetterInv, Inside
  <2> HIDE DEF m
  <2>6. ASSUME NEW c \in early.inst
        PROVE  \/ inst[c] = pDelegate /\ pDelegate # None
               \/ inst[c] = Placeholder /\ (c \in refused.inst \/ refused.reg # {})
               \/ /\ inst[c] = Placeholder /\ c \in instruments'[client[c].meter]
                  /\ \E i \in DOMAIN todo' : todo'[i] = client[c].meter
    <3> DEFINE Settled == \/ inst[c] = pDelegate /\ pDelegate # None
                          \/ inst[c] = Placeholder /\ (c \in refused.inst \/ refused.reg # {})
    <3>1. CASE Settled
      BY <3>1
    <3>2. CASE ~Settled
      <4>1. inst[c] = Placeholder /\ c \in instruments[client[c].meter]
        BY <3>2
      <4>2. PICK i \in DOMAIN todo : i # 1 /\ todo[i] = client[c].meter
        BY <2>1, <3>2
      <4>3. client[c].meter # m /\ client[c].meter \in Meters
        <5>1. 1 \in DOMAIN todo
          BY <2>2
        <5>2. todo[i] # todo[1]
          BY <4>2, <5>1 DEF HeldInv, IsInjective
        <5>3. todo[i] \in Meters
          BY <4>2 DEF TypeOK
        <5> QED BY <2>2, <4>2, <5>2, <5>3
      <4>4. c \in instruments'[client[c].meter]
        BY <2>4, <4>1, <4>3 DEF TypeOK
      <4>5. i - 1 \in 1 .. Len(todo) - 1 /\ (i - 1) + 1 = i
        BY <2>2, <4>2
      <4>6. i - 1 \in DOMAIN todo' /\ todo'[i - 1] = client[c].meter
        BY <2>2, <2>4, <4>2, <4>5
      <4> QED BY <4>1, <4>4, <4>6
    <3> QED BY <3>1, <3>2
  <2>7. ASSUME NEW c \in early.reg
        PROVE  \/ unreg[c] \in {"sdk", "nil"}
               \/ unreg[c] = Placeholder /\ (refused.reg # {} \/ client[c].meter \in ToSet(todo'))
    <3>1. CASE unreg[c] \in {"sdk", "nil"} \/ refused.reg # {}
      BY <3>1
    <3>2. CASE unreg[c] \notin {"sdk", "nil"} /\ refused.reg = {}
      <4>1. c \in Clients /\ unreg[c] = Placeholder /\ client[c].meter \in ToSet(todo)
        BY <3>2 DEF TypeOK
      <4>2. ToSet(registry[m]) = {}
        BY <2>4 DEF ToSet
      <4>3. client[c].meter # m
        BY <2>1, <4>1, <4>2 DEF RegistryInv
      <4> QED BY <2>3, <2>4, <4>1, <4>3
    <3> QED BY <3>1, <3>2
  <2> QED BY <2>4, <2>5, <2>6, <2>7
<1>8. ASSUME NEW s \in Setters, ProviderDelegated(s) PROVE EarlyInv'
  <2>1. \A t \in Setters : setter'[t].pc = "registry" => setter[t].pc = "registry"
    <3>1. setter'[s].pc = "onceDone"
          /\ \A t \in Setters \ {s} : setter'[t] = setter[t]
      BY <1>8, GotoMoves DEF ProviderDelegated, TypeOK, SetterPlaces, Inside
    <3> QED BY <3>1
  <2> QED BY <1>8, <2>1 DEF ProviderDelegated
<1>9. ASSUME NEW s \in Setters, OnceDone(s) PROVE EarlyInv'
  <2>1. \A t \in Setters : setter'[t].pc = "registry" => setter[t].pc = "registry"
    <3>1. setter'[s].pc = "store"
          /\ \A t \in Setters \ {s} : setter'[t] = setter[t]
      BY <1>9, GotoMoves DEF OnceDone, TypeOK, SetterPlaces, Inside
    <3> QED BY <3>1
  <2> QED BY <1>9, <2>1 DEF OnceDone
<1>10. ASSUME NEW s \in Setters, Store(s) PROVE EarlyInv'
  <2>1. \A t \in Setters : setter'[t].pc = "registry" => setter[t].pc = "registry"
    <3>1. setter'[s].pc = "returned"
          /\ \A t \in Setters \ {s} : setter'[t] = setter[t]
      BY <1>10, GotoMoves DEF Store, TypeOK, SetterPlaces, Inside
    <3> QED BY <3>1
  <2> QED BY <1>10, <2>1 DEF Store
<1>11. ASSUME NEW c \in Clients, NEW m \in Meters, Meter(c, m) PROVE EarlyInv'
  <2>1. /\ inst[c] = None /\ unreg[c] = None
        /\ \A d \in Clients \ {c} : client'[d] = client[d]
    <3>1. client[c].pc = "start" /\ client[c].meter = None
      BY <1>11 DEF Meter, RegistryInv
    <3>2. CASE NotDelegated
      <4>1. client' = [client EXCEPT ![c] = [pc |-> "idle", meter |-> m]]
        BY <1>11, <3>2 DEF Meter
      <4> QED BY <3>1, <4>1 DEF RegistryInv, InstrumentInv, TypeOK
    <3>3. CASE ~NotDelegated
      BY <1>11, <3>1, <3>3, BecomeMoves DEF Meter, TypeOK, ClientPlaces, RegistryInv, InstrumentInv
    <3> QED BY <3>2, <3>3
  <2>2. None # Placeholder /\ None # "sdk" /\ None # "nil"
    BY DEF None, Placeholder
  <2>3. c \notin early.inst /\ c \notin early.reg
    BY <2>1, <2>2
  <2>4. early.inst \subseteq Clients /\ early.reg \subseteq Clients
    BY DEF TypeOK
  <2>5. /\ setter' = setter /\ inst' = inst /\ instruments' = instruments
        /\ unreg' = unreg /\ pDelegate' = pDelegate
        /\ todo' = todo /\ early' = early /\ refused' = refused
    BY <1>11 DEF Meter
  <2> QED BY <2>1, <2>3, <2>4, <2>5
<1>12. ASSUME NEW c \in Clients, LoadDelegate(c) PROVE EarlyInv'
  <2>1. \A d \in Clients : client'[d].meter = client[d].meter
    BY <1>12, BecomeMoves DEF LoadDelegate, TypeOK, ClientPlaces
  <2>2. None # Placeholder /\ None # "sdk" /\ None # "nil"
    BY DEF None, Placeholder
  <2>3. early.inst \subseteq Clients /\ early.reg \subseteq Clients
    BY DEF TypeOK
  <2>4. c \notin early.inst
    BY <1>12, <2>2 DEF LoadDelegate
  <2>5. \A d \in Clients \ {c} : inst'[d] = inst[d]
    BY <1>12 DEF LoadDelegate, TypeOK
  <2>6. /\ setter' = setter /\ instruments' = instruments
        /\ unreg' = unreg /\ pDelegate' = pDelegate
        /\ todo' = todo /\ early' = early /\ refused' = refused
    BY <1>12 DEF LoadDelegate
  <2> QED BY <2>1, <2>3, <2>4, <2>5, <2>6
<1>13. ASSUME NEW c \in Clients, AddInstrument(c) PROVE EarlyInv'
  <2>1. \A d \in Clients : client'[d].meter = client[d].meter
    BY <1>13, BecomeMoves DEF AddInstrument, TypeOK, ClientPlaces
  <2>2. None # Placeholder /\ None # "sdk" /\ None # "nil"
    BY DEF None, Placeholder
  <2>3. early.inst \subseteq Clients /\ early.reg \subseteq Clients
    BY DEF TypeOK
  <2>4. c \notin early.inst
    BY <1>13, <2>2 DEF AddInstrument, InstrumentInv
  <2>5. \A d \in Clients \ {c} : inst'[d] = inst[d]
    BY <1>13 DEF AddInstrument, TypeOK
  <2>6. /\ setter' = setter
        /\ unreg' = unreg /\ pDelegate' = pDelegate
        /\ todo' = todo /\ early' = early /\ refused' = refused
    BY <1>13 DEF AddInstrument
  <2>7. \A d \in Clients : d \in instruments[client[d].meter] =>
                             d \in instruments'[client[d].meter]
    <3>1. instruments' = [instruments EXCEPT ![client[c].meter] = @ \cup {c}]
      BY <1>13 DEF AddInstrument
    <3>2. DOMAIN instruments' = DOMAIN instruments
      BY <3>1
    <3>3. \A x \in DOMAIN instruments : instruments[x] \subseteq instruments'[x]
      BY <3>1
    <3>4. ASSUME NEW d \in Clients, d \in instruments[client[d].meter]
          PROVE  d \in instruments'[client[d].meter]
      BY <3>1, <3>3, <3>4
    <3> QED BY <3>4
  <2> QED BY <2>1, <2>3, <2>4, <2>5, <2>6, <2>7
<1>14. ASSUME NEW c \in Clients, LoadForCallback(c) PROVE EarlyInv'
  <2>1. \A d \in Clients : client'[d].meter = client[d].meter
    BY <1>14, BecomeMoves DEF LoadForCallback, TypeOK, ClientPlaces
  <2>2. None # Placeholder /\ None # "sdk" /\ None # "nil"
    BY DEF None, Placeholder
  <2>3. early.inst \subseteq Clients /\ early.reg \subseteq Clients
    BY DEF TypeOK
  <2>4. c \notin early.reg
    BY <1>14, <2>2 DEF LoadForCallback
  <2>5. \A d \in Clients \ {c} : unreg'[d] = unreg[d]
    BY <1>14 DEF LoadForCallback, TypeOK
  <2>6. /\ setter' = setter /\ instruments' = instruments
        /\ inst' = inst /\ pDelegate' = pDelegate
        /\ todo' = todo /\ early' = early /\ refused' = refused
    BY <1>14 DEF LoadForCallback
  <2> QED BY <2>1, <2>3, <2>4, <2>5, <2>6
<1>15. ASSUME NEW c \in Clients, RegisterCallback(c) PROVE EarlyInv'
  <2>1. \A d \in Clients : client'[d].meter = client[d].meter
    BY <1>15, BecomeMoves DEF RegisterCallback, TypeOK, ClientPlaces
  <2>2. None # Placeholder /\ None # "sdk" /\ None # "nil"
    BY DEF None, Placeholder
  <2>3. early.inst \subseteq Clients /\ early.reg \subseteq Clients
    BY DEF TypeOK
  <2>4. c \notin early.reg
    BY <1>15, <2>2 DEF RegisterCallback, RegistryInv
  <2>5. \A d \in Clients \ {c} : unreg'[d] = unreg[d]
    BY <1>15 DEF RegisterCallback, TypeOK
  <2>6. /\ setter' = setter /\ instruments' = instruments
        /\ inst' = inst /\ pDelegate' = pDelegate
        /\ todo' = todo /\ early' = early /\ refused' = refused
    BY <1>15 DEF RegisterCallback
  <2> QED BY <2>1, <2>3, <2>4, <2>5, <2>6
<1>16. ASSUME NEW c \in Clients, Unregister(c) PROVE EarlyInv'
  <2>1. /\ \A d \in Clients : client'[d].meter = client[d].meter
        /\ \A d \in Clients \ {c} : client'[d] = client[d]
    <3>1. client' = client \/ Become(c, "unreg")
      BY <1>16 DEF Unregister
    <3>2. CASE client' = client
      BY <3>2
    <3>3. CASE Become(c, "unreg")
      BY <3>3, BecomeMoves DEF TypeOK, ClientPlaces
    <3> QED BY <3>1, <3>2, <3>3
  <2>2. None # Placeholder /\ None # "sdk" /\ None # "nil"
    BY DEF None, Placeholder
  <2>3. early.inst \subseteq Clients /\ early.reg \subseteq Clients
    BY DEF TypeOK
  <2>5. \A d \in Clients : unreg'[d] = unreg[d] \/ unreg'[d] = "nil"
    <3>1. unreg' = unreg \/ unreg' = [unreg EXCEPT ![c] = "nil"]
      BY <1>16 DEF Unregister
    <3> QED BY <3>1 DEF TypeOK
  <2>6. /\ setter' = setter /\ instruments' = instruments
        /\ inst' = inst /\ pDelegate' = pDelegate
        /\ todo' = todo /\ early' = early /\ refused' = refused
    BY <1>16 DEF Unregister
  <2> QED BY <2>1, <2>3, <2>5, <2>6
<1>17. ASSUME NEW c \in Clients, RemoveRegistration(c) PROVE EarlyInv'
  <2>1. \A d \in Clients : client'[d].meter = client[d].meter
    BY <1>17, BecomeMoves DEF RemoveRegistration, TypeOK, ClientPlaces
  <2>2. None # Placeholder /\ None # "sdk" /\ None # "nil"
    BY DEF None, Placeholder
  <2>3. early.inst \subseteq Clients /\ early.reg \subseteq Clients
    BY DEF TypeOK
  <2>5. \A d \in Clients : unreg'[d] = unreg[d] \/ unreg'[d] = "nil"
    <3>1. unreg' = unreg \/ unreg' = [unreg EXCEPT ![c] = "nil"]
      BY <1>17 DEF RemoveRegistration
    <3> QED BY <3>1 DEF TypeOK
  <2>6. /\ setter' = setter /\ instruments' = instruments
        /\ inst' = inst /\ pDelegate' = pDelegate
        /\ todo' = todo /\ early' = early /\ refused' = refused
    BY <1>17 DEF RemoveRegistration
  <2> QED BY <2>1, <2>3, <2>5, <2>6
<1>18. ASSUME UNCHANGED vars PROVE EarlyInv'
  BY <1>18 DEF vars
<1>19. ASSUME NEW s \in Setters, RegistrationPanics(s) PROVE EarlyInv'
  <2>1. pDelegate # None
    BY <1>19, NameAssumption DEF RegistrationPanics, DelegateInv, SetterInv, Delegating
  <2>2. refused'.reg # {}
    BY <1>19 DEF RegistrationPanics, TypeOK
  <2>3. /\ inst' = inst /\ unreg' = unreg /\ client' = client
        /\ pDelegate' = pDelegate /\ early' = early
    BY <1>19 DEF RegistrationPanics
  <2> QED BY <2>1, <2>2, <2>3
<1> QED
  BY <1>1, <1>2, <1>3, <1>4, <1>5, <1>6, <1>7, <1>8, <1>9, <1>10, <1>11,
     <1>12, <1>13, <1>14, <1>15, <1>16, <1>17, <1>18, <1>19
     DEF Next, SetterNext, ClientNext

LEMMA NextRefusedInv ==
  TypeOK /\ SetterInv /\ DelegateInv /\ HeldInv /\ RegistryInv
    /\ InstrumentInv /\ RefusedInv /\ [Next]_vars => RefusedInv'
<1> SUFFICES ASSUME TypeOK, SetterInv, DelegateInv, HeldInv, RegistryInv,
                    InstrumentInv, RefusedInv, [Next]_vars
             PROVE  RefusedInv'
  OBVIOUS
<1> USE DEF At, stateVars, providerVars, meterVars, regVars, histories, RefusedInv
<1>0. None # Placeholder /\ None # "sdk" /\ None # "nil" /\ Placeholder # "sdk" /\ Placeholder # "nil"
  BY DEF None, Placeholder
<1>1. ASSUME NEW s \in Setters, NEW mp \in SDKs \cup {Placeholder}, SetMeterProvider(s, mp)
      PROVE  RefusedInv'
  <2>1. setter'[s].pc # "registry" /\ \A t \in Setters \ {s} : setter'[t] = setter[t]
    BY <1>1 DEF SetMeterProvider, TypeOK
  <2> QED BY <1>1, <2>1 DEF SetMeterProvider
<1>2. ASSUME NEW s \in Setters, OnceDo(s) PROVE RefusedInv'
  <2>1. setter'[s].pc # "registry" /\ \A t \in Setters \ {s} : setter'[t] = setter[t]
    BY <1>2, GotoMoves DEF OnceDo, TypeOK, SetterPlaces, Inside
  <2> QED BY <1>2, <2>1 DEF OnceDo
<1>3. ASSUME NEW s \in Setters, SetDelegate(s) PROVE RefusedInv'
  <2>1. pDelegate = None
    BY <1>3 DEF SetDelegate, DelegateInv
  <2>2. \A t \in Setters : setter'[t].pc # "registry"
    <3>1. setter[s].pc = "setDelegate" /\ setter'[s].pc = "meters"
          /\ \A t \in Setters \ {s} : setter'[t] = setter[t]
      BY <1>3, GotoMoves DEF SetDelegate, TypeOK, SetterPlaces, Inside
    <3> QED BY <3>1 DEF SetterInv, Inside
  <2> QED BY <1>3, <2>1, <2>2 DEF SetDelegate, InstrumentInv
<1>4. ASSUME NEW s \in Setters, MeterSetDelegate(s) PROVE RefusedInv'
  <2>1. setter'[s].pc # "registry" /\ \A t \in Setters \ {s} : setter'[t] = setter[t]
    BY <1>4, GotoMoves DEF MeterSetDelegate, TypeOK, SetterPlaces, Inside
  <2> QED BY <1>4, <2>1 DEF MeterSetDelegate
<1>5. ASSUME NEW s \in Setters, DelegateInstruments(s) PROVE RefusedInv'
  <2> DEFINE m == Head(todo)
  <2>1. pDelegate = setter[s].mp /\ pDelegate \in SDKs /\ m \in Meters /\ todo # <<>>
    BY <1>5 DEF DelegateInstruments, DelegateInv, SetterInv, Delegating, TypeOK
  <2>2. m \in ToSet(todo)
    BY <2>1, TailToSet DEF TypeOK
  <2> HIDE DEF m
  <2>3. PICK refusing \in SUBSET instruments[m] :
          /\ inst' = [c \in Clients |-> IF c \in instruments[m] \ refusing
                                        THEN setter[s].mp ELSE inst[c]]
          /\ refused' = [refused EXCEPT !.inst = @ \cup refusing]
    BY <1>5 DEF DelegateInstruments, m
  <2>4. refused'.inst = refused.inst \cup refusing /\ refused'.reg = refused.reg
    BY <2>3 DEF TypeOK
  <2>5. /\ todo' = todo /\ registry' = registry /\ unreg' = unreg /\ client' = client
        /\ instruments' = instruments /\ mMtx' = [mMtx EXCEPT ![m] = s]
    BY <1>5 DEF DelegateInstruments, m
  <2>6. \A t \in Setters : setter'[t].pc = "registry" => t = s
    <3>1. setter[s].pc = "meter" /\ \A t \in Setters \ {s} : setter'[t] = setter[t]
      BY <1>5, GotoMoves DEF DelegateInstruments, TypeOK, SetterPlaces, Inside
    <3> QED BY <3>1 DEF SetterInv, Inside
  <2>7. mMtx'[m] = s
    BY <2>1, <2>5 DEF TypeOK
  <2>8. pDelegate # None /\ pDelegate # Placeholder
    BY <2>1, NameAssumption
  <2>9. \A c \in Clients :
          /\ inst'[c] = None <=> inst[c] = None
          /\ inst'[c] = Placeholder <=> inst[c] = Placeholder /\ (c \notin instruments[m] \/ c \in refusing)
    <3>1. InstrumentInv
      OBVIOUS
    <3>2. \A c \in instruments[m] : c \in Clients => inst[c] # None
      BY <2>1 DEF InstrumentInv
    <3> QED BY <2>1, <2>3, <2>8, <3>2
  <2>10. ASSUME NEW c \in ToSet(registry[m]), inst'[c] = Placeholder PROVE c \in refused'.inst
    <3>1. c \in Clients
      BY <2>1, EntryInToSet DEF TypeOK
    <3>2. client[c].meter = m /\ inst[c] = Placeholder
      BY <2>1, <2>9, <2>10, <3>1 DEF RegistryInv
    <3>3. c \in instruments[m]
      BY <2>2, <3>1, <3>2
    <3> QED BY <2>4, <2>9, <2>10, <3>1, <3>3
  <2> QED BY <2>4, <2>5, <2>6, <2>7, <2>9, <2>10 DEF m
<1>6. ASSUME NEW s \in Setters, DelegateRegistration(s) PROVE RefusedInv'
  <2> DEFINE m == Head(todo)
  <2>1. m \in Meters /\ setter[s].pc = "registry"
    BY <1>6 DEF DelegateRegistration, DelegateInv, TypeOK
  <2>2. registry[m] \in Seq(Clients) /\ registry[m] # <<>>
    BY <1>6, <2>1 DEF DelegateRegistration, TypeOK
  <2> HIDE DEF m
  <2>3. registry' = [registry EXCEPT ![m] = Tail(@)]
    BY <1>6 DEF DelegateRegistration, AfterFirst, m
  <2>4. ToSet(registry'[m]) \subseteq ToSet(registry[m])
    <3>1. registry'[m] = Tail(registry[m])
      BY <2>1, <2>3 DEF TypeOK
    <3> QED BY <2>2, <3>1, TailToSet
  <2>5. \A c \in Clients : unreg'[c] = unreg[c] \/ unreg'[c] = "sdk"
    <3>1. unreg' = unreg \/ unreg' = [unreg EXCEPT ![Head(registry[Head(todo)])] = "sdk"]
      BY <1>6 DEF DelegateRegistration
    <3> QED BY <3>1 DEF TypeOK
  <2>6. /\ setter' = setter /\ inst' = inst /\ instruments' = instruments /\ mMtx' = mMtx
        /\ client' = client /\ todo' = todo /\ refused' = refused
    BY <1>6 DEF DelegateRegistration
  <2> QED BY <1>0, <2>4, <2>5, <2>6 DEF m
<1>7. ASSUME NEW s \in Setters, MeterDelegated(s) PROVE RefusedInv'
  <2> DEFINE m == Head(todo)
  <2>1. todo \in Seq(Meters) /\ todo # <<>> /\ m \in Meters
    BY <1>7 DEF MeterDelegated, DelegateInv, TypeOK
  <2>2. /\ ToSet(todo) = ToSet(Tail(todo)) \cup {m}
        /\ m \notin ToSet(Tail(todo))
    BY <2>1, TailToSet, TailInjective DEF HeldInv
  <2>3. \A t \in Setters : setter'[t].pc # "registry"
    <3>1. setter[s].pc = "registry" /\ setter'[s].pc = "meters"
          /\ \A t \in Setters \ {s} : setter'[t] = setter[t]
      BY <1>7, GotoMoves DEF MeterDelegated, TypeOK, SetterPlaces, Inside
    <3> QED BY <3>1 DEF SetterInv, Inside
  <2> HIDE DEF m
  <2>4. /\ instruments' = [instruments EXCEPT ![m] = {}] /\ todo' = Tail(todo)
        /\ inst' = inst /\ unreg' = unreg /\ client' = client /\ refused' = refused
    BY <1>7 DEF MeterDelegated, m
  <2>5. \A n \in Meters \ {m} : instruments'[n] = instruments[n]
    BY <2>4 DEF TypeOK
  <2>6. ToSet(todo') \subseteq Meters
    <3>1. todo' \in Seq(Meters)
      BY <2>1, <2>4
    <3> QED BY <3>1, EntryInToSet
  <2> QED BY <2>2, <2>3, <2>4, <2>5, <2>6
<1>8. ASSUME NEW s \in Setters, ProviderDelegated(s) PROVE RefusedInv'
  <2>1. setter'[s].pc # "registry" /\ \A t \in Setters \ {s} : setter'[t] = setter[t]
    BY <1>8, GotoMoves DEF ProviderDelegated, TypeOK, SetterPlaces, Inside
  <2> QED BY <1>8, <2>1 DEF ProviderDelegated
<1>9. ASSUME NEW s \in Setters, OnceDone(s) PROVE RefusedInv'
  <2>1. setter'[s].pc # "registry" /\ \A t \in Setters \ {s} : setter'[t] = setter[t]
    BY <1>9, GotoMoves DEF OnceDone, TypeOK, SetterPlaces, Inside
  <2> QED BY <1>9, <2>1 DEF OnceDone
<1>10. ASSUME NEW s \in Setters, Store(s) PROVE RefusedInv'
  <2>1. setter'[s].pc # "registry" /\ \A t \in Setters \ {s} : setter'[t] = setter[t]
    BY <1>10, GotoMoves DEF Store, TypeOK, SetterPlaces, Inside
  <2> QED BY <1>10, <2>1 DEF Store
<1>11. ASSUME NEW c \in Clients, NEW m \in Meters, Meter(c, m) PROVE RefusedInv'
  <2>1. client[c].pc = "start" /\ inst[c] = None
    BY <1>11 DEF Meter, RegistryInv, InstrumentInv
  <2>2. client'[c].pc # "callback" /\ unreg[c] # Placeholder
        /\ \A d \in Clients \ {c} : client'[d] = client[d]
    <3>1. unreg[c] # Placeholder
      BY <1>0, <2>1
    <3>2. CASE NotDelegated
      <4>1. client' = [client EXCEPT ![c] = [pc |-> "idle", meter |-> m]]
        BY <1>11, <3>2 DEF Meter
      <4> QED BY <3>1, <4>1 DEF TypeOK
    <3>3. CASE ~NotDelegated
      BY <1>11, <3>1, <3>3, BecomeMoves DEF Meter, TypeOK, ClientPlaces
    <3> QED BY <3>2, <3>3
  <2>3. /\ setter' = setter /\ inst' = inst /\ instruments' = instruments /\ mMtx' = mMtx
        /\ todo' = todo /\ refused' = refused /\ unreg' = unreg /\ registry' = registry
    BY <1>11 DEF Meter
  <2> QED BY <1>0, <2>1, <2>2, <2>3
<1>12. ASSUME NEW c \in Clients, LoadDelegate(c) PROVE RefusedInv'
  <2>1. /\ \A d \in Clients : client'[d].meter = client[d].meter
        /\ client'[c].pc # "callback"
        /\ \A d \in Clients \ {c} : client'[d] = client[d]
    BY <1>12, BecomeMoves DEF LoadDelegate, TypeOK, ClientPlaces
  <2>2. inst[c] = None /\ client[c].meter \in Meters
    <3>1. client[c].meter # None
      BY <1>12 DEF LoadDelegate, RegistryInv
    <3>2. client[c].meter \in Meters \cup {None}
      BY DEF TypeOK, ClientStates
    <3> QED BY <1>12, <3>1, <3>2 DEF LoadDelegate
  <2>3. unreg[c] # Placeholder
    BY <2>2
  <2>4. inst'[c] # Placeholder /\ \A d \in Clients \ {c} : inst'[d] = inst[d]
    <3>1. mDelegate[client[c].meter] # Placeholder
      BY <1>0, <2>2, NameAssumption DEF TypeOK
    <3>2. inst' = inst \/ inst' = [inst EXCEPT ![c] = mDelegate[client[c].meter]]
      BY <1>12 DEF LoadDelegate
    <3> QED BY <1>0, <2>2, <3>1, <3>2 DEF TypeOK
  <2>5. /\ setter' = setter /\ instruments' = instruments /\ mMtx' = mMtx
        /\ todo' = todo /\ refused' = refused /\ unreg' = unreg /\ registry' = registry
    BY <1>12 DEF LoadDelegate
  <2>6. \A t \in Setters : setter[t].pc = "registry" => ToSet(registry[Head(todo)]) \subseteq Clients
    BY EntryInToSet DEF DelegateInv, TypeOK
  <2> QED BY <2>1, <2>3, <2>4, <2>5, <2>6
<1>13. ASSUME NEW c \in Clients, AddInstrument(c) PROVE RefusedInv'
  <2> DEFINE m == client[c].meter
  <2>1. /\ \A d \in Clients : client'[d].meter = client[d].meter
        /\ client'[c].pc # "callback"
        /\ \A d \in Clients \ {c} : client'[d] = client[d]
    BY <1>13, BecomeMoves DEF AddInstrument, TypeOK, ClientPlaces
  <2>2. m \in Meters /\ mMtx[m] = None /\ inst[c] = None
    <3>1. client[c].meter # None
      BY <1>13 DEF AddInstrument, RegistryInv
    <3>2. client[c].meter \in Meters \cup {None}
      BY DEF TypeOK, ClientStates
    <3> QED BY <1>13, <3>1, <3>2 DEF AddInstrument, InstrumentInv
  <2>3. unreg[c] # Placeholder
    BY <2>2
  <2>4. \A n \in Meters : c \notin ToSet(registry[n])
    BY <2>3 DEF RegistryInv
  <2> HIDE DEF m
  <2>5. inst'[c] = Placeholder /\ \A d \in Clients \ {c} : inst'[d] = inst[d]
    BY <1>13 DEF AddInstrument, TypeOK
  <2>6. /\ instruments'[m] = instruments[m] \cup {c}
        /\ \A n \in Meters \ {m} : instruments'[n] = instruments[n]
    BY <1>13, <2>2 DEF AddInstrument, TypeOK, m
  <2>7. /\ setter' = setter /\ mMtx' = mMtx
        /\ todo' = todo /\ refused' = refused /\ unreg' = unreg /\ registry' = registry
    BY <1>13 DEF AddInstrument
  <2>8. \A t \in Setters : setter[t].pc = "registry" =>
          Head(todo) \in Meters /\ ToSet(registry[Head(todo)]) \subseteq Clients
    BY EntryInToSet DEF DelegateInv, TypeOK
  <2>9. ToSet(todo) \subseteq Meters
    BY EntryInToSet DEF TypeOK
  <2>10. ASSUME NEW d \in Clients, inst'[d] = Placeholder, client'[d].meter \in ToSet(todo')
         PROVE  d \in instruments'[client'[d].meter]
    <3>1. CASE d = c
      BY <2>1, <2>6, <3>1 DEF m
    <3>2. CASE d # c
      BY <2>1, <2>2, <2>5, <2>6, <2>7, <2>9, <2>10, <3>2
    <3> QED BY <3>1, <3>2
  <2>11. \A d \in Clients : unreg[d] = Placeholder \/ client'[d].pc = "callback" => inst'[d] # None
    BY <1>0, <2>1, <2>5
  <2>12. \A t \in Setters : setter[t].pc = "registry" =>
           \A d \in ToSet(registry[Head(todo)]) : inst'[d] = Placeholder => d \in refused.inst
    BY <2>4, <2>5, <2>8
  <2> QED BY <2>7, <2>10, <2>11, <2>12
<1>14. ASSUME NEW c \in Clients, LoadForCallback(c) PROVE RefusedInv'
  <2>1. /\ \A d \in Clients : client'[d].meter = client[d].meter
        /\ \A d \in Clients \ {c} : client'[d] = client[d]
    BY <1>14, BecomeMoves DEF LoadForCallback, TypeOK, ClientPlaces
  <2>2. inst[c] # None /\ \A d \in Clients : unreg'[d] = Placeholder => unreg[d] = Placeholder
    <3>1. unreg' = unreg \/ unreg' = [unreg EXCEPT ![c] = "sdk"]
      BY <1>14 DEF LoadForCallback
    <3> QED BY <1>0, <1>14, <3>1 DEF LoadForCallback, TypeOK
  <2>3. /\ setter' = setter /\ inst' = inst /\ instruments' = instruments /\ mMtx' = mMtx
        /\ todo' = todo /\ refused' = refused /\ registry' = registry
    BY <1>14 DEF LoadForCallback
  <2> QED BY <2>1, <2>2, <2>3
<1>15. ASSUME NEW c \in Clients, RegisterCallback(c) PROVE RefusedInv'
  <2> DEFINE m == client[c].meter
  <2>1. /\ \A d \in Clients : client'[d].meter = client[d].meter
        /\ \A d \in Clients \ {c} : client'[d] = client[d]
    BY <1>15, BecomeMoves DEF RegisterCallback, TypeOK, ClientPlaces
  <2>2. inst[c] # None /\ m \in Meters /\ mMtx[m] = None
    <3>1. client[c].meter # None
      BY <1>15 DEF RegisterCallback, RegistryInv
    <3>2. client[c].meter \in Meters \cup {None}
      BY DEF TypeOK, ClientStates
    <3> QED BY <1>15, <3>1, <3>2 DEF RegisterCallback
  <2> HIDE DEF m
  <2>3. \A n \in Meters \ {m} : registry'[n] = registry[n]
    BY <1>15 DEF RegisterCallback, TypeOK, m
  <2>4. \A d \in Clients \ {c} : unreg'[d] = unreg[d]
    BY <1>15 DEF RegisterCallback, TypeOK
  <2>5. /\ setter' = setter /\ inst' = inst /\ instruments' = instruments /\ mMtx' = mMtx
        /\ todo' = todo /\ refused' = refused
    BY <1>15 DEF RegisterCallback
  <2>6. \A t \in Setters : setter[t].pc = "registry" => Head(todo) \in Meters /\ Head(todo) # m
    <3>1. \A t \in Setters : t # None
      BY NameAssumption
    <3> QED BY <2>2, <3>1 DEF DelegateInv, TypeOK
  <2> QED BY <2>1, <2>2, <2>3, <2>4, <2>5, <2>6
<1>16. ASSUME NEW c \in Clients, Unregister(c) PROVE RefusedInv'
  <2>1. /\ \A d \in Clients : client'[d].meter = client[d].meter
        /\ \A d \in Clients : client'[d].pc = "callback" => client[d].pc = "callback"
    <3>1. client' = client \/ Become(c, "unreg")
      BY <1>16 DEF Unregister
    <3>2. CASE client' = client
      BY <3>2
    <3>3. CASE Become(c, "unreg")
      BY <3>3, BecomeMoves DEF TypeOK, ClientPlaces
    <3> QED BY <3>1, <3>2, <3>3
  <2>2. \A d \in Clients : unreg'[d] = Placeholder => unreg[d] = Placeholder
    <3>1. unreg' = unreg \/ unreg' = [unreg EXCEPT ![c] = "nil"]
      BY <1>16 DEF Unregister
    <3> QED BY <1>0, <3>1 DEF TypeOK
  <2>3. /\ setter' = setter /\ inst' = inst /\ instruments' = instruments /\ mMtx' = mMtx
        /\ todo' = todo /\ refused' = refused /\ registry' = registry
    BY <1>16 DEF Unregister
  <2> QED BY <2>1, <2>2, <2>3
<1>17. ASSUME NEW c \in Clients, RemoveRegistration(c) PROVE RefusedInv'
  <2>1. /\ \A d \in Clients : client'[d].meter = client[d].meter
        /\ \A d \in Clients : client'[d].pc = "callback" => client[d].pc = "callback"
    BY <1>17, BecomeMoves DEF RemoveRegistration, TypeOK, ClientPlaces
  <2>2. \A d \in Clients : unreg'[d] = Placeholder => unreg[d] = Placeholder
    <3>1. unreg' = [unreg EXCEPT ![c] = "nil"]
      BY <1>17 DEF RemoveRegistration
    <3> QED BY <1>0, <3>1 DEF TypeOK
  <2>3. /\ setter' = setter /\ inst' = inst /\ instruments' = instruments /\ mMtx' = mMtx
        /\ todo' = todo /\ refused' = refused
    BY <1>17 DEF RemoveRegistration
  <2>4. \A n \in Meters : ToSet(registry'[n]) \subseteq ToSet(registry[n])
    <3>1. registry' = [registry EXCEPT ![client[c].meter] = RemoveFirst(@, c)]
      BY <1>17 DEF RemoveRegistration
    <3>2. \A n \in Meters : registry'[n] = registry[n] \/ registry'[n] = RemoveFirst(registry[n], c)
      BY <3>1 DEF TypeOK
    <3>3. \A n \in Meters : registry[n] \in Seq(Clients) /\ IsInjective(registry[n])
      BY DEF TypeOK, RegistryInv
    <3> QED BY <3>2, <3>3, RemoveFirstInjective
  <2>5. \A t \in Setters : setter[t].pc = "registry" => Head(todo) \in Meters
    BY DEF DelegateInv, TypeOK
  <2> QED BY <2>1, <2>2, <2>3, <2>4, <2>5
<1>18. ASSUME UNCHANGED vars PROVE RefusedInv'
  BY <1>18 DEF vars
<1>19. ASSUME NEW s \in Setters, RegistrationPanics(s) PROVE RefusedInv'
  <2> DEFINE m == Head(todo)
             c == Head(registry[m])
  <2>1. m \in Meters /\ setter[s].pc = "registry"
    BY <1>19 DEF RegistrationPanics, DelegateInv, TypeOK
  <2>2. c \in ToSet(registry[m]) /\ c \in Clients /\ inst[c] = Placeholder
    <3>1. registry[m] \in Seq(Clients) /\ registry[m] # <<>> /\ inst[c] = Placeholder
      BY <1>19, <2>1 DEF RegistrationPanics, Unwraps, TypeOK
    <3> QED BY <3>1, TailEntries, TailToSet
  <2>3. c \in refused.inst
    BY <2>1, <2>2
  <2>4. \A t \in Setters : setter'[t].pc # "registry"
    <3>1. setter'[s].pc = "panicked" /\ \A t \in Setters \ {s} : setter'[t] = setter[t]
      BY <1>19, GotoMoves DEF RegistrationPanics, TypeOK, SetterPlaces
    <3> QED BY <2>1, <3>1 DEF SetterInv, Inside
  <2>5. refused' = [refused EXCEPT !.reg = @ \cup {c}] /\ todo' = <<>>
        /\ inst' = inst /\ unreg' = unreg /\ client' = client
    BY <1>19 DEF RegistrationPanics
  <2> HIDE DEF c, m
  <2>6. refused'.inst = refused.inst /\ refused'.reg = refused.reg \cup {c}
    BY <2>5 DEF TypeOK
  <2>7. ToSet(todo') = {}
    BY <2>5 DEF ToSet
  <2> QED BY <2>3, <2>4, <2>5, <2>6, <2>7
<1> QED
  BY <1>1, <1>2, <1>3, <1>4, <1>5, <1>6, <1>7, <1>8, <1>9, <1>10, <1>11,
     <1>12, <1>13, <1>14, <1>15, <1>16, <1>17, <1>18, <1>19
     DEF Next, SetterNext, ClientNext

LEMMA NextMeterInv == TypeOK /\ MeterInv /\ [Next]_vars => MeterInv'
<1> SUFFICES ASSUME TypeOK, MeterInv, [Next]_vars PROVE MeterInv'
  OBVIOUS
<1>1. /\ SetterInv /\ DelegateInv /\ HeldInv
      /\ RegistryInv /\ InstrumentInv /\ EarlyInv /\ RefusedInv
  BY DEF MeterInv
<1>2. SetterInv'
  BY <1>1, NextSetterInv
<1>3. DelegateInv'
  BY <1>1, NextDelegateInv
<1>4. HeldInv'
  BY <1>1, NextHeldInv
<1>5. RegistryInv'
  BY <1>1, NextRegistryInv
<1>6. InstrumentInv'
  BY <1>1, NextInstrumentInv
<1>7. EarlyInv'
  BY <1>1, NextEarlyInv
<1>8. RefusedInv'
  BY <1>1, NextRefusedInv
<1> QED BY <1>2, <1>3, <1>4, <1>5, <1>6, <1>7, <1>8 DEF MeterInv

-----------------------------------------------------------------------------
(* The theorems. *)

(* Every variable has its type in every reachable state; the meter a       *)
(* client's action locks and the one setDelegate works on are then meters. *)
THEOREM TypeCorrect == Spec => []TypeOK
<1>1. Init => TypeOK /\ MeterInv
  BY InitTypeOK, InitMeterInv
<1>2. TypeOK /\ MeterInv /\ [Next]_vars => (TypeOK /\ MeterInv)'
  BY NextTypeOK, NextMeterInv
<1> QED BY <1>1, <1>2, PTL DEF Spec

(* The inductive invariant holds in every reachable state.                 *)
LEMMA MeterInvHolds == Spec => [](TypeOK /\ MeterInv)
<1>1. Init => TypeOK /\ MeterInv
  BY InitTypeOK, InitMeterInv
<1>2. TypeOK /\ MeterInv /\ [Next]_vars => (TypeOK /\ MeterInv)'
  BY NextTypeOK, NextMeterInv
<1> QED BY <1>1, <1>2, PTL DEF Spec

(* When the Once is done no placeholder meter is left behind and the SDK   *)
(* has the early instruments and callbacks but for the instruments that it *)
(* refused, unless setDelegate panicked; and it panicked only over the     *)
(* callback of a refused instrument.  This is so for any number of         *)
(* setters, clients, meters and SDKs, and whatever the SDK refuses         *)
(* (state.go, SetMeterProvider; meter.go, setDelegate and Meter).          *)
THEOREM NobodyLeftBehind == Spec => []AllDelegated
<1>1. TypeOK /\ MeterInv => AllDelegated
  <2> SUFFICES ASSUME TypeOK, MeterInv PROVE AllDelegated
    OBVIOUS
  <2>1. DelegateInv /\ HeldInv /\ RegistryInv /\ EarlyInv /\ RefusedInv
    BY DEF MeterInv
  <2>2. ASSUME once = "done", refused.reg = {}
        PROVE  MetersForward /\ EarlyOnesForward
    <3>1. pDelegate # None /\ todo = <<>>
      BY <2>1, <2>2 DEF DelegateInv
    <3>2. ToSet(todo) = {} /\ DOMAIN todo = {}
      BY <3>1 DEF ToSet
    <3>3. MetersForward
      BY <2>1, <2>2, <3>1, <3>2 DEF HeldInv, Panicked, MetersForward
    <3>4. \A c \in early.inst : inst[c] = pDelegate \/ c \in refused.inst
      BY <2>1, <2>2, <3>2 DEF EarlyInv, Panicked
    <3>5. ASSUME NEW c \in early.reg PROVE sdk[c] = 1 \/ unreg[c] = "nil"
      BY <2>1, <2>2, <3>2 DEF EarlyInv, Panicked, RegistryInv, TypeOK
    <3> QED BY <3>3, <3>4, <3>5 DEF EarlyOnesForward
  <2>3. refused.reg \subseteq refused.inst
    BY <2>1 DEF RefusedInv
  <2> QED BY <2>2, <2>3 DEF AllDelegated
<1> QED BY <1>1, MeterInvHolds, PTL

(* The SDK has a callback exactly while it is delegated and not            *)
(* unregistered, whatever Unregister and setDelegate did in which order    *)
(* (meter.go, registration.Unregister and registration.setDelegate).       *)
THEOREM GoneForGood == Spec => []UnregisteredIsGone
<1>1. MeterInv => UnregisteredIsGone
  BY DEF MeterInv, RegistryInv, UnregisteredIsGone
<1> QED BY <1>1, MeterInvHolds, PTL

(* The provider and every meter get a delegate at most once, and never the *)
(* placeholder, however many goroutines are in SetMeterProvider.           *)
THEOREM OneDelegate == Spec => DelegatedOnce
<1> DEFINE Step == /\ pDelegate' # Placeholder
                   /\ pDelegate # None => pDelegate' = pDelegate
                   /\ \A m \in Meters : mDelegate[m] # None =>
                        mDelegate'[m] = mDelegate[m]
<1>1. TypeOK /\ MeterInv /\ TypeOK' /\ MeterInv' /\ [Next]_vars => [Step]_vars
  <2> SUFFICES ASSUME TypeOK, MeterInv, TypeOK', MeterInv', [Next]_vars
               PROVE  Step
    OBVIOUS
  <2>1. pDelegate' # Placeholder
    BY NameAssumption DEF TypeOK, None, Placeholder
  <2>2. pDelegate # None => pDelegate' = pDelegate
    <3>1. pDelegate' = pDelegate
            \/ \E s \in Setters : setter[s].pc = "setDelegate"
      BY DEF Next, SetterNext, ClientNext, vars, stateVars, providerVars,
             meterVars, regVars, histories, OnceDo, SetDelegate, MeterSetDelegate,
             DelegateInstruments, DelegateRegistration, RegistrationPanics, MeterDelegated,
             ProviderDelegated, OnceDone, Store, SetMeterProvider, Meter,
             LoadDelegate, AddInstrument, LoadForCallback, RegisterCallback,
             RemoveRegistration, Unregister
    <3> QED BY <3>1 DEF MeterInv, DelegateInv
  <2>3. ASSUME NEW m \in Meters, mDelegate[m] # None
        PROVE  mDelegate'[m] = mDelegate[m]
    <3>1. mDelegate' = mDelegate
            \/ \E s \in Setters : MeterSetDelegate(s)
      BY DEF Next, SetterNext, ClientNext, vars, stateVars, providerVars,
             meterVars, regVars, histories, OnceDo, SetDelegate,
             DelegateInstruments, DelegateRegistration, RegistrationPanics, MeterDelegated,
             ProviderDelegated, OnceDone, Store, SetMeterProvider, Meter,
             LoadDelegate, AddInstrument, LoadForCallback, RegisterCallback,
             RemoveRegistration, Unregister
    <3>2. mDelegate[m] = pDelegate
      BY <2>3 DEF MeterInv, DelegateInv
    <3>3. ASSUME NEW s \in Setters, MeterSetDelegate(s)
          PROVE  mDelegate'[m] = mDelegate[m]
      <4>1. /\ mDelegate' = [mDelegate EXCEPT ![Head(todo)] = setter[s].mp]
            /\ setter[s].mp = pDelegate
        BY <3>3 DEF MeterSetDelegate, MeterInv, DelegateInv, Delegating
      <4> QED BY <3>2, <4>1 DEF TypeOK
    <3> QED BY <3>1, <3>3
  <2> QED BY <2>1, <2>2, <2>3
<1> QED BY <1>1, MeterInvHolds, PTL DEF Spec, DelegatedOnce
=============================================================================
