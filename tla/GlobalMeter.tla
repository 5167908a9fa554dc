----------------------------- MODULE GlobalMeter -----------------------------
(***************************************************************************)
(* The global MeterProvider before and while an SDK is installed           *)
(* (internal/global/state.go and meter.go).  Clients that hold the         *)
(* placeholder provider get placeholder meters from it, create instruments *)
(* and register callbacks; SetMeterProvider makes all of them forward to   *)
(* the SDK, once.  The provider and each meter have a mutex, each          *)
(* registration has its unregMu, and the meter's delegate is an atomic     *)
(* value that instrument creation reads before it locks.  The SDK may      *)
(* refuse an instrument, and it refuses a callback over an instrument that *)
(* has no delegate.                                                        *)
(***************************************************************************)
EXTENDS Naturals, Sequences, FiniteSets, SequencesExt

CONSTANTS
  Clients,      (* each creates one instrument and one registration           *)
  Setters,      (* goroutines in SetMeterProvider                             *)
  SDKs,         (* providers they may set                                     *)
  Meters        (* names of meters                                            *)

Placeholder == "placeholder"    \* the default *meterProvider
None == "none"

ASSUME NameAssumption == {Placeholder, None} \cap (SDKs \cup Clients \cup Setters \cup Meters) = {}

VARIABLES
  global,        (* globalMeterProvider                                       *)
  once,          (* delegateMeterOnce: "new", "running", "done"               *)
  setter,        (* per setter: [pc, current, mp]                             *)
  pMtx,          (* holder of the provider's mutex                            *)
  pDelegate,     (* meterProvider.delegate                                    *)
  meters,        (* meterProvider.meters                                      *)
  todo,          (* meters setDelegate has not reached, the first one in work *)
  mDelegate, mMtx, instruments, registry,    (* per meter                     *)
  client,        (* per client: [pc, meter]                                   *)
  inst,          (* per client: whom its instrument forwards to               *)
  unreg,         (* per registration: what Unregister would call              *)
  unregMu,       (* per registration: its mutex                               *)
  sdk,           (* per registration: how often the SDK has its callback      *)
  early,         (* history: instruments and registrations complete when      *)
                 (* setDelegate began                                         *)
  refused        (* history: instruments that the SDK refused, registrations  *)
                 (* over whose callback setDelegate panicked                  *)

stateVars == <<global, once>>
providerVars == <<pMtx, pDelegate, meters, todo>>
meterVars == <<mDelegate, mMtx, instruments, registry>>
regVars == <<unreg, unregMu, sdk>>
histories == <<early, refused>>
vars == <<stateVars, setter, providerVars, meterVars, client, inst, regVars, histories>>

Init ==
  /\ global = Placeholder /\ once = "new"
  /\ setter = [s \in Setters |-> [pc |-> "idle", current |-> None, mp |-> None]]
  /\ pMtx = None /\ pDelegate = None /\ meters = {} /\ todo = <<>>
  /\ mDelegate = [m \in Meters |-> None] /\ mMtx = [m \in Meters |-> None]
  /\ instruments = [m \in Meters |-> {}] /\ registry = [m \in Meters |-> <<>>]
  /\ client = [c \in Clients |-> [pc |-> "start", meter |-> None]]
  /\ inst = [c \in Clients |-> None] /\ unreg = [c \in Clients |-> None]
  /\ unregMu = [c \in Clients |-> None] /\ sdk = [c \in Clients |-> 0]
  /\ early = [inst |-> {}, reg |-> {}] /\ refused = early

-----------------------------------------------------------------------------
(* SetMeterProvider and setDelegate.                                       *)

Goto(s, label) == setter' = [setter EXCEPT ![s].pc = label]

SetMeterProvider(s, mp) ==
  /\ setter[s].pc = "idle"
  /\ setter' = [setter EXCEPT ![s] = [current |-> global, mp |-> mp,
                  pc |-> IF global = Placeholder /\ mp = Placeholder THEN "returned" ELSE "once"]]
  /\ UNCHANGED <<stateVars, providerVars, meterVars, client, inst, regVars, histories>>

OnceByFlag == once # "done"                   \* mutant: two may be inside

OnceFree == once = "new"

OnceDo(s) ==
  /\ setter[s].pc = "once"
  /\ \/ /\ OnceFree
        /\ once' = "running"
        /\ Goto(s, IF setter[s].current = Placeholder THEN "setDelegate" ELSE "onceDone")
     \/ once = "done" /\ Goto(s, "store") /\ UNCHANGED once
  /\ UNCHANGED <<global, providerVars, meterVars, client, inst, regVars, histories>>

SetDelegate(s) ==
  /\ setter[s].pc = "setDelegate" /\ pMtx = None
  /\ pMtx' = s
  /\ pDelegate' = setter[s].mp
  /\ todo' \in SetToSeqs(meters)
  /\ early' = [inst |-> {c \in Clients : inst[c] = Placeholder},
               reg |-> {c \in Clients : unreg[c] = Placeholder}]
  /\ Goto(s, "meters")
  /\ UNCHANGED <<stateVars, meters, meterVars, client, inst, regVars, refused>>

MeterSetDelegate(s) ==
  /\ setter[s].pc = "meters" /\ todo # <<>>
  /\ mDelegate' = [mDelegate EXCEPT ![Head(todo)] = setter[s].mp]
  /\ Goto(s, "meter")
  /\ UNCHANGED <<stateVars, providerVars, mMtx, instruments, registry, client, inst, regVars, histories>>

(* Each instrument of the meter is created anew by the SDK.  One that the  *)
(* SDK refuses, for its name for example, keeps no delegate.               *)
DelegateInstruments(s) ==
  LET m == Head(todo)
  IN /\ setter[s].pc = "meter" /\ mMtx[m] = None
     /\ mMtx' = [mMtx EXCEPT ![m] = s]
     /\ \E refusing \in SUBSET instruments[m] :
          /\ inst' = [c \in Clients |->
                        IF c \in instruments[m] \ refusing THEN setter[s].mp ELSE inst[c]]
          /\ refused' = [refused EXCEPT !.inst = @ \cup refusing]
     /\ Goto(s, "registry")
     /\ UNCHANGED <<stateVars, providerVars, mDelegate, instruments, registry, client, regVars, early>>

(* The SDK registers a callback only if it can unwrap the instrument.      *)
Unwraps(c) == inst[c] # Placeholder

(* registration.setDelegate on the first element, which is then removed.   *)
NextOfRemoved(q) == <<>>                      \* mutant: Next is taken of the removed element

AfterFirst(q) == Tail(q)

DelegateRegistration(s) ==
  LET m == Head(todo)
      c == Head(registry[m])
  IN /\ setter[s].pc = "registry" /\ registry[m] # <<>>
     /\ unregMu[c] = None
     /\ \/ /\ unreg[c] # "nil" /\ Unwraps(c)
           /\ sdk' = [sdk EXCEPT ![c] = @ + 1] /\ unreg' = [unreg EXCEPT ![c] = "sdk"]
        \/ unreg[c] = "nil" /\ UNCHANGED <<sdk, unreg>>
     /\ registry' = [registry EXCEPT ![m] = AfterFirst(@)]
     /\ UNCHANGED <<stateVars, setter, providerVars, mDelegate, mMtx, instruments, client, inst, unregMu, histories>>

(* When the SDK refuses the callback, its error is handled and Unregister  *)
(* is then taken of no registration, which panics.  What was deferred on   *)
(* the way out releases the mutexes and completes the Once; nothing else   *)
(* of the delegation is done.  The rest of the program goes on only if the *)
(* caller of SetMeterProvider recovers.                                    *)
RegistrationPanics(s) ==
  LET m == Head(todo)
      c == Head(registry[m])
  IN /\ setter[s].pc = "registry" /\ registry[m] # <<>>
     /\ unregMu[c] = None /\ unreg[c] # "nil" /\ ~Unwraps(c)
     /\ refused' = [refused EXCEPT !.reg = @ \cup {c}]
     /\ mMtx' = [mMtx EXCEPT ![m] = None]
     /\ pMtx' = None /\ todo' = <<>>
     /\ once' = "done"
     /\ Goto(s, "panicked")
     /\ UNCHANGED <<global, pDelegate, meters, mDelegate, instruments, registry, client, inst, regVars, early>>

MeterDelegated(s) ==
  LET m == Head(todo)
  IN /\ setter[s].pc = "registry" /\ registry[m] = <<>>
     /\ instruments' = [instruments EXCEPT ![m] = {}]
     /\ mMtx' = [mMtx EXCEPT ![m] = None]
     /\ todo' = Tail(todo)
     /\ Goto(s, "meters")
     /\ UNCHANGED <<stateVars, pMtx, pDelegate, meters, mDelegate, registry, client, inst, regVars, histories>>

ProviderDelegated(s) ==
  /\ setter[s].pc = "meters" /\ todo = <<>>
  /\ meters' = {}
  /\ pMtx' = None
  /\ Goto(s, "onceDone")
  /\ UNCHANGED <<stateVars, pDelegate, todo, meterVars, client, inst, regVars, histories>>

OnceDone(s) ==
  /\ setter[s].pc = "onceDone"
  /\ once' = "done"
  /\ Goto(s, "store")
  /\ UNCHANGED <<global, providerVars, meterVars, client, inst, regVars, histories>>

Store(s) ==
  /\ setter[s].pc = "store"
  /\ global' = setter[s].mp
  /\ Goto(s, "returned")
  /\ UNCHANGED <<once, providerVars, meterVars, client, inst, regVars, histories>>

SetterNext(s) ==
  \/ OnceDo(s) \/ SetDelegate(s) \/ MeterSetDelegate(s) \/ DelegateInstruments(s)
  \/ DelegateRegistration(s) \/ RegistrationPanics(s) \/ MeterDelegated(s) \/ ProviderDelegated(s)
  \/ OnceDone(s) \/ Store(s)

-----------------------------------------------------------------------------
(* Clients of the placeholder.                                             *)

At(c, label) == client[c].pc = label

Become(c, label) == client' = [client EXCEPT ![c].pc = label]

(* meterProvider.Meter: with a delegate, the client gets the SDK's meter   *)
(* and has nothing to do with this package any more.                       *)
AddedAnyway == TRUE                           \* mutant: the delegate is not looked at

NotDelegated == pDelegate = None

Meter(c, m) ==
  /\ At(c, "start") /\ pMtx = None
  /\ IF NotDelegated
     THEN /\ meters' = meters \cup {m}
          /\ client' = [client EXCEPT ![c] = [pc |-> "idle", meter |-> m]]
     ELSE Become(c, "withSDK") /\ UNCHANGED meters
  /\ UNCHANGED <<stateVars, setter, pMtx, pDelegate, todo, meterVars, inst, regVars, histories>>

(* Creating an instrument: the delegate is loaded, then the meter locked.  *)
(* An error of the delegate is returned to the client, who has nothing.    *)
LoadDelegate(c) ==
  /\ At(c, "idle") /\ inst[c] = None
  /\ IF mDelegate[client[c].meter] # None
     THEN inst' = [inst EXCEPT ![c] = mDelegate[client[c].meter]] /\ UNCHANGED client
     ELSE Become(c, "instrument") /\ UNCHANGED inst
  /\ UNCHANGED <<stateVars, setter, providerVars, meterVars, regVars, histories>>

AddInstrument(c) ==
  LET m == client[c].meter
  IN /\ At(c, "instrument") /\ mMtx[m] = None
     /\ instruments' = [instruments EXCEPT ![m] = @ \cup {c}]
     /\ inst' = [inst EXCEPT ![c] = Placeholder]
     /\ Become(c, "idle")
     /\ UNCHANGED <<stateVars, setter, providerVars, mDelegate, mMtx, registry, regVars, histories>>

(* RegisterCallback of the instrument, in the same way: the client gets    *)
(* the delegate's error if that cannot unwrap the instrument.              *)
LoadForCallback(c) ==
  /\ At(c, "idle") /\ inst[c] # None /\ unreg[c] = None
  /\ \/ /\ mDelegate[client[c].meter] # None /\ Unwraps(c)
        /\ sdk' = [sdk EXCEPT ![c] = @ + 1] /\ unreg' = [unreg EXCEPT ![c] = "sdk"]
        /\ UNCHANGED client
     \/ /\ mDelegate[client[c].meter] = None
        /\ Become(c, "callback") /\ UNCHANGED <<sdk, unreg>>
  /\ UNCHANGED <<stateVars, setter, providerVars, meterVars, inst, unregMu, histories>>

RegisterCallback(c) ==
  LET m == client[c].meter
  IN /\ At(c, "callback") /\ mMtx[m] = None
     /\ registry' = [registry EXCEPT ![m] = Append(@, c)]
     /\ unreg' = [unreg EXCEPT ![c] = Placeholder]
     /\ Become(c, "idle")
     /\ UNCHANGED <<stateVars, setter, providerVars, mDelegate, mMtx, instruments, inst, unregMu, sdk, histories>>

(* Unregister, with unregMu held while unreg is called.                    *)
NotHeld(c) == None                            \* mutant: unreg is called without unregMu

HeldBy(c) == c

Unregister(c) ==
  /\ At(c, "idle") /\ unreg[c] \in {Placeholder, "sdk"} /\ unregMu[c] = None
  /\ IF unreg[c] = "sdk"
     THEN /\ sdk' = [sdk EXCEPT ![c] = @ - 1] /\ unreg' = [unreg EXCEPT ![c] = "nil"]
          /\ UNCHANGED <<unregMu, client>>
     ELSE /\ unregMu' = [unregMu EXCEPT ![c] = HeldBy(c)] /\ Become(c, "unreg")
          /\ UNCHANGED <<sdk, unreg>>
  /\ UNCHANGED <<stateVars, setter, providerVars, meterVars, inst, histories>>

RemoveRegistration(c) ==
  LET m == client[c].meter
  IN /\ At(c, "unreg") /\ mMtx[m] = None
     /\ registry' = [registry EXCEPT ![m] = RemoveFirst(@, c)]
     /\ unreg' = [unreg EXCEPT ![c] = "nil"]
     /\ unregMu' = [unregMu EXCEPT ![c] = None]
     /\ Become(c, "idle")
     /\ UNCHANGED <<stateVars, setter, providerVars, mDelegate, mMtx, instruments, inst, sdk, histories>>

ClientNext(c) ==
  \/ LoadDelegate(c) \/ AddInstrument(c) \/ LoadForCallback(c) \/ RegisterCallback(c)
  \/ RemoveRegistration(c)

Next ==
  \/ \E s \in Setters : SetterNext(s) \/ \E mp \in SDKs \cup {Placeholder} : SetMeterProvider(s, mp)
  \/ \E c \in Clients : ClientNext(c) \/ Unregister(c) \/ \E m \in Meters : Meter(c, m)

Spec == Init /\ [][Next]_vars

(* Goroutines go on within a call; mutexes and Once are fair.              *)
FairSpec ==
  /\ Spec
  /\ \A s \in Setters : WF_vars(SetterNext(s))
  /\ \A c \in Clients : WF_vars(ClientNext(c))

-----------------------------------------------------------------------------
(* Properties. *)

(* The placeholder is delegated once, never to itself and never to a       *)
(* second SDK, whoever calls SetMeterProvider at the same time (state.go,  *)
(* SetMeterProvider; meter.go, "this happens only once").                  *)
DelegatedOnce ==
  [][/\ pDelegate' # Placeholder
     /\ pDelegate # None => pDelegate' = pDelegate
     /\ \A m \in Meters : mDelegate[m] # None => mDelegate'[m] = mDelegate[m]]_vars

(* When setDelegate is over, no placeholder meter that anybody holds has   *)
(* been left behind, also not one handed out during the call (meter.go,    *)
(* Meter and setDelegate), and the SDK has the instruments and callbacks   *)
(* that existed when it began, but for the instruments that the SDK        *)
(* refused and for what was since unregistered.  The exception is a        *)
(* setDelegate that panicked, which only a callback over a refused         *)
(* instrument makes it do.                                                 *)
MetersForward ==
  \A c \in Clients :
    client[c].meter # None => mDelegate[client[c].meter] = pDelegate /\ pDelegate # None

EarlyOnesForward ==
  /\ \A c \in early.inst : inst[c] = pDelegate \/ c \in refused.inst
  /\ \A c \in early.reg : sdk[c] = 1 \/ unreg[c] = "nil"

AllDelegated ==
  /\ once = "done" /\ refused.reg = {} => MetersForward /\ EarlyOnesForward
  /\ refused.reg \subseteq refused.inst

(* A callback that was unregistered is not called any more: the SDK never  *)
(* has it again, and never twice before, wherever setDelegate was when     *)
(* Unregister was called (meter.go, registration).                         *)
UnregisteredIsGone ==
  \A c \in Clients :
    /\ sdk[c] <= 1
    /\ unreg[c] = "nil" => sdk[c] = 0
    /\ unreg[c] = "sdk" => sdk[c] = 1

(* SetMeterProvider, once called, comes to its end: no lock it takes is    *)
(* held for ever.                                                          *)
SetReturns ==
  LET InCall(s) == setter[s].pc \notin {"idle", "returned", "panicked"}
  IN (\E s \in Setters : InCall(s)) ~> (\A s \in Setters : ~InCall(s))
=============================================================================
