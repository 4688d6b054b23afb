---------------------------- MODULE PeerRegistry ----------------------------
(***************************************************************************)
(* ESPNowTransport's peers and radio binding: the managed registry, the     *)
(* interface hints, the native ESP-NOW peer table and the binding that      *)
(* Auto peers follow, under the threads that work on them:                  *)
(*                                                                          *)
(*   Apps     call AddPeer and RemovePeer                                   *)
(*   Radios   call SuspendNativeForRadioTransition, SetRadioAvailable,      *)
(*            ApplyRadioBinding, ReconcileManagedPeers and                  *)
(*            ReinitializeNativeState (the WiFi coordinator, the espnow     *)
(*            runtime commands)                                             *)
(*   worker   runs RememberPeerInterface for received unicast frames        *)
(*   owner    calls Initialize and Shutdown                                 *)
(*                                                                          *)
(* An action is what a thread does between two lock operations.  A section  *)
(* under _nativeMutex is one action: what it reads of the other tables it   *)
(* reads once, under their own mutexes.  The ESP-IDF driver (esp_now_init,  *)
(* _deinit, _add_peer, _mod_peer, _del_peer) is external: it is up or down, *)
(* holds a table of peers, and fails when it is down or as NativeFaults     *)
(* allows; deinit always takes it down.  A peer's channel, encryption and   *)
(* key travel with its interface and are not told apart from it.            *)
(***************************************************************************)
EXTENDS Naturals, FiniteSets

CONSTANTS
  Peers,              \* MAC addresses
  Apps, Radios,       \* threads
  AddCalls,           \* the AddPeer calls the applications make: <<app, peer, interface>>
  EnsureCalls,        \* the EnsurePeerExists calls of clock synchronizers: <<app, peer>>
  Conditions          \* the conditions the transport may meet: what the radio
                      \* threads call; what may fail: "init" (bringing the driver
                      \* or the worker up), "add", "mod", "del" (a call to a driver
                      \* that is up); whether Initialize and Shutdown may overlap
                      \* the other calls; and the capacity of the tables

Ifaces == {"Station", "AccessPoint"}      \* wifi_interface_t
Interfaces == Ifaces \cup {"Auto"}        \* ESPNowWiFiInterface
None == "None"

ASSUME AddCallsAssumption == AddCalls \subseteq Apps \X Peers \X Interfaces
ASSUME EnsureCallsAssumption == EnsureCalls \subseteq Apps \X Peers
ASSUME ConditionsAssumption ==
  Conditions \subseteq
    [calls : SUBSET {"unavailable", "suspend", "bind", "reconcile", "reinitialize"},
     faults : SUBSET {"init", "add", "mod", "del"},
     overlap : BOOLEAN,
     capacity : Nat]

VARIABLES
  cond,          \* the conditions this behaviour is under, which never change
  initialized,   \* _initialized
  suspended,     \* _nativeSuspended
  callback,      \* CallbackInstance() is this transport
  driverUp,      \* esp_now_init was called and not undone
  native,        \* the driver's table: peer -> ifidx
  managed,       \* _managedPeers: peer -> Config.Interface
  hints,         \* _peerInterfaceHints: peer -> Interface
  preferred,     \* _radioBinding.PreferredInterface
  available,     \* _radioBinding.Available
  app,           \* where each app is, with its call's arguments
  radio,         \* where each radio thread is, with its call's arguments
  worker,        \* where the worker is in RememberPeerInterface
  ownerPc        \* where the owner is in Shutdown

nativeVars == <<suspended, callback, driverUp, native>>
bindingVars == <<preferred, available>>
threadVars == <<app, radio, worker, ownerPc>>
vars == <<cond, initialized, nativeVars, managed, hints, bindingVars, threadVars>>

-----------------------------------------------------------------------------
Idle == [at |-> "idle"]

RadioCalls == cond.calls
NativeFaults == cond.faults
ConcurrentLifecycle == cond.overlap
MaxManagedPeers == cond.capacity     \* ESPRESSIO_ESPNOW_MAX_MANAGED_PEERS
MaxInterfaceHints == cond.capacity   \* ESPRESSIO_ESPNOW_MAX_INTERFACE_HINTS

Used(table) == {p \in Peers : table[p] # None}

Empty == [p \in Peers |-> None]

\* ResolvePeerInterface.  CurrentDefaultInterface asks the WiFi driver for its
\* mode, which may be anything.
ResolvePeerInterface(p, interface) ==
  CASE interface # "Auto"                        -> {interface}
    [] interface = "Auto" /\ hints[p] # None     -> {hints[p]}
    [] interface = "Auto" /\ hints[p] = None /\ preferred # "Auto" -> {preferred}
    [] OTHER                                     -> Ifaces

\* esp_now_mod_peer or esp_now_add_peer may fail on a driver that is up.
ProgramMayFail(p, table) ==
  (IF table[p] = None THEN "add" ELSE "mod") \in NativeFaults

\* ReconcileManagedPeersLocked on a driver with this table: the table it
\* leaves and whether every managed peer was programmed.
Reconciled(table, after, ok) ==
  \E failed \in SUBSET Used(managed) :
    /\ \A p \in failed : ProgramMayFail(p, table)
    /\ \A p \in Peers :
         IF p \in Used(managed) \ failed
           THEN after[p] \in ResolvePeerInterface(p, managed[p])
           ELSE after[p] = table[p]
    /\ ok = (failed = {})

NativeDown == /\ driverUp' = FALSE
              /\ callback' = FALSE
              /\ native' = Empty

\* GetIsInitialized(), for a call that begins now.
GetIsInitialized == initialized /\ (ConcurrentLifecycle \/ ownerPc = "idle")

Quiescent == /\ \A t \in Apps : app[t] = Idle
             /\ \A t \in Radios : radio[t] = Idle
             /\ worker = Idle
             /\ ownerPc = "idle"

-----------------------------------------------------------------------------
(* The owner: Initialize and Shutdown.                                      *)

Init == /\ cond \in Conditions
        /\ initialized = FALSE
        /\ suspended = FALSE
        /\ callback = FALSE
        /\ driverUp = FALSE
        /\ native = Empty
        /\ managed = Empty
        /\ hints = Empty
        /\ preferred = "Auto"
        /\ available = TRUE
        /\ app = [t \in Apps |-> Idle]
        /\ radio = [t \in Radios |-> Idle]
        /\ worker = Idle
        /\ ownerPc = "idle"

\* esp_now_init and esp_now_register_recv_cb, under _nativeMutex.
InitializeNative ==
  /\ ownerPc = "idle"
  /\ ~initialized
  /\ driverUp' = TRUE
  /\ callback' = TRUE
  /\ suspended' = FALSE
  /\ ownerPc' = "publish"
  /\ UNCHANGED <<cond, initialized, native, managed, hints, bindingVars, app, radio, worker>>

InitializePublish ==
  /\ ownerPc = "publish"
  /\ available' = TRUE
  /\ preferred' = "Auto"
  /\ initialized' = TRUE
  /\ ownerPc' = "start"
  /\ UNCHANGED <<cond, nativeVars, managed, hints, app, radio, worker>>

InitializeStartWorker ==
  /\ ownerPc = "start"
  /\ ownerPc' = "idle"
  /\ UNCHANGED <<cond, initialized, nativeVars, managed, hints, bindingVars, app, radio, worker>>

\* CleanupFailedInitialization, before the driver is up or when the worker
\* does not start.
InitializeFails ==
  /\ "init" \in NativeFaults
  /\ ownerPc = "start" \/ (ownerPc = "idle" /\ ~initialized)
  /\ suspended' = TRUE
  /\ NativeDown
  /\ initialized' = FALSE
  /\ ownerPc' = "idle"
  /\ UNCHANGED <<cond, managed, hints, bindingVars, app, radio, worker>>

ShutdownBegin ==
  /\ ownerPc = "idle"
  /\ initialized
  /\ ConcurrentLifecycle \/ Quiescent
  /\ initialized' = FALSE
  /\ ownerPc' = "native"
  /\ UNCHANGED <<cond, nativeVars, managed, hints, bindingVars, app, radio, worker>>

ShutdownNative ==
  /\ ownerPc = "native"
  /\ suspended' = TRUE
  /\ NativeDown
  /\ ownerPc' = "tables"
  /\ UNCHANGED <<cond, initialized, managed, hints, bindingVars, app, radio, worker>>

\* The worker has been joined; the tables and the binding are cleared, each
\* under its own mutex (no other thread can tell the order).
ShutdownTables ==
  /\ ownerPc = "tables"
  /\ worker = Idle
  /\ hints' = Empty
  /\ managed' = Empty
  /\ preferred' = "Auto"
  /\ available' = FALSE
  /\ ownerPc' = "idle"
  /\ UNCHANGED <<cond, initialized, nativeVars, app, radio, worker>>

-----------------------------------------------------------------------------
(* Apps: AddPeer and RemovePeer.                                            *)

AddPeer(t) ==
  /\ app[t] = Idle
  /\ GetIsInitialized
  /\ \E p \in Peers, i \in Interfaces :
       /\ <<t, p, i>> \in AddCalls
       /\ app' = [app EXCEPT ![t] = [at |-> "store", peer |-> p, interface |-> i]]
  /\ UNCHANGED <<cond, initialized, nativeVars, managed, hints, bindingVars,
                 radio, worker, ownerPc>>

\* ESPNowClockSynchronizer::EnsurePeerExists, for the reference it is configured
\* with, or, on the worker, for a device that sent a request: it asks the driver,
\* without a lock, and adds a peer the driver does not have, with the default
\* configuration.  The worker's call is one of an App: on a thread of its own it
\* interleaves with RememberPeerInterface in more ways than the worker can.
EnsurePeerExists(t) ==
  /\ app[t] = Idle
  /\ GetIsInitialized
  /\ \E p \in Peers :
       /\ <<t, p>> \in EnsureCalls
       /\ native[p] = None
       /\ app' = [app EXCEPT ![t] = [at |-> "add", peer |-> p, interface |-> "Auto"]]
  /\ UNCHANGED <<cond, initialized, nativeVars, managed, hints, bindingVars,
                 radio, worker, ownerPc>>

\* The call of AddPeer, and its check.
EnsureAddPeer(t) ==
  /\ app[t].at = "add"
  /\ app' = [app EXCEPT ![t] = IF initialized THEN [@ EXCEPT !.at = "store"] ELSE Idle]
  /\ UNCHANGED <<cond, initialized, nativeVars, managed, hints, bindingVars,
                 radio, worker, ownerPc>>

\* Mutant: the table grows past its capacity.
StoreManagedPeerUnbounded(t) ==
  /\ app[t].at = "store"
  /\ managed' = [managed EXCEPT ![app[t].peer] = app[t].interface]
  /\ app' = [app EXCEPT ![t] = [@ EXCEPT !.at = "program"]]
  /\ UNCHANGED <<cond, initialized, nativeVars, hints, bindingVars,
                 radio, worker, ownerPc>>

StoreManagedPeer(t) ==
  /\ app[t].at = "store"
  /\ LET p == app[t].peer
         stored == managed[p] # None \/ Cardinality(Used(managed)) < MaxManagedPeers
     IN  /\ managed' = IF stored THEN [managed EXCEPT ![p] = app[t].interface] ELSE managed
         /\ app' = [app EXCEPT ![t] = IF stored THEN [@ EXCEPT !.at = "program"] ELSE Idle]
  /\ UNCHANGED <<cond, initialized, nativeVars, hints, bindingVars,
                 radio, worker, ownerPc>>

\* ProgramPeerNativeLocked succeeds, or there is nothing to program yet.
ProgramPeer(t) ==
  /\ app[t].at = "program"
  /\ \/ suspended /\ UNCHANGED native
     \/ /\ ~suspended /\ driverUp
        /\ \E f \in ResolvePeerInterface(app[t].peer, app[t].interface) :
             native' = [native EXCEPT ![app[t].peer] = f]
  /\ app' = [app EXCEPT ![t] = Idle]
  /\ UNCHANGED <<cond, initialized, suspended, callback, driverUp, managed, hints,
                 bindingVars, radio, worker, ownerPc>>

\* ProgramPeerNativeLocked fails: ForgetManagedPeer, return false.
ProgramPeerFails(t) ==
  /\ app[t].at = "program"
  /\ ~suspended
  /\ driverUp => ProgramMayFail(app[t].peer, native)
  /\ managed' = [managed EXCEPT ![app[t].peer] = None]
  /\ app' = [app EXCEPT ![t] = Idle]
  /\ UNCHANGED <<cond, initialized, nativeVars, hints, bindingVars,
                 radio, worker, ownerPc>>

RemovePeer(t) ==
  /\ app[t] = Idle
  /\ GetIsInitialized
  /\ \E p \in Peers :
       /\ \E i \in Interfaces : <<t, p, i>> \in AddCalls
       /\ app' = [app EXCEPT ![t] = [at |-> "remove", peer |-> p]]
  /\ UNCHANGED <<cond, initialized, nativeVars, managed, hints, bindingVars,
                 radio, worker, ownerPc>>

\* The section under _nativeMutex, when it reports success.
RemovePeerNative(t) ==
  /\ app[t].at = "remove"
  /\ suspended \/ driverUp
  /\ native' = IF suspended THEN native ELSE [native EXCEPT ![app[t].peer] = None]
  /\ hints' = [hints EXCEPT ![app[t].peer] = None]
  /\ managed' = [managed EXCEPT ![app[t].peer] = None]
  /\ app' = [app EXCEPT ![t] = Idle]
  /\ UNCHANGED <<cond, initialized, suspended, callback, driverUp, bindingVars,
                 radio, worker, ownerPc>>

\* Mutant: the record is forgotten whatever esp_now_del_peer reports.
RemovePeerFailsForgets(t) ==
  /\ app[t].at = "remove"
  /\ ~suspended
  /\ driverUp => "del" \in NativeFaults
  /\ hints' = [hints EXCEPT ![app[t].peer] = None]
  /\ managed' = [managed EXCEPT ![app[t].peer] = None]
  /\ app' = [app EXCEPT ![t] = Idle]
  /\ UNCHANGED <<cond, initialized, nativeVars, bindingVars, radio, worker, ownerPc>>

\* esp_now_del_peer reports an error other than NOT_FOUND: nothing is forgotten.
RemovePeerFails(t) ==
  /\ app[t].at = "remove"
  /\ ~suspended
  /\ driverUp => "del" \in NativeFaults
  /\ app' = [app EXCEPT ![t] = Idle]
  /\ UNCHANGED <<cond, initialized, nativeVars, managed, hints, bindingVars,
                 radio, worker, ownerPc>>

-----------------------------------------------------------------------------
(* The worker: RememberPeerInterface(address, interface).                   *)

\* Mutant: explicit peers take hints too.
IsManagedPeer(p) == managed[p] # None

IsManagedPeerAuto(p) == managed[p] = "Auto"

\* The worker drains the receive queue until Shutdown joins it.
WorkerRuns == IF initialized THEN ownerPc # "start" ELSE ownerPc \in {"native", "tables"}

ReceiveUnicast ==
  /\ worker = Idle
  /\ WorkerRuns
  /\ \E p \in Peers, f \in Ifaces :
       /\ IsManagedPeerAuto(p)
       /\ worker' = [at |-> "hint", peer |-> p, interface |-> f]
  /\ UNCHANGED <<cond, initialized, nativeVars, managed, hints, bindingVars,
                 app, radio, ownerPc>>

RememberHint ==
  /\ worker.at = "hint"
  /\ hints' = IF hints[worker.peer] # None \/ Cardinality(Used(hints)) < MaxInterfaceHints
                THEN [hints EXCEPT ![worker.peer] = worker.interface]
                ELSE hints
  /\ worker' = [worker EXCEPT !.at = "native"]
  /\ UNCHANGED <<cond, initialized, nativeVars, managed, bindingVars,
                 app, radio, ownerPc>>

RememberNative ==
  /\ worker.at = "native"
  /\ \/ /\ ~suspended /\ native[worker.peer] # None
        /\ native' = [native EXCEPT ![worker.peer] = worker.interface]
     \/ /\ suspended \/ native[worker.peer] = None \/ "mod" \in NativeFaults
        /\ UNCHANGED native
  /\ worker' = Idle
  /\ UNCHANGED <<cond, initialized, suspended, callback, driverUp, managed, hints,
                 bindingVars, app, radio, ownerPc>>

-----------------------------------------------------------------------------
(* Radio threads.  A reconciliation resolves all its peers at once, which   *)
(* is exact as long as no second radio thread clears the hints or rebinds   *)
(* in the middle of it.                                                     *)

SetRadioUnavailable(t) ==
  /\ "unavailable" \in RadioCalls
  /\ ConcurrentLifecycle \/ ownerPc = "idle"
  /\ radio[t] = Idle
  /\ available' = FALSE
  /\ UNCHANGED <<cond, initialized, nativeVars, managed, hints, preferred, threadVars>>

\* SuspendNativeForRadioTransition: the binding first, then the driver.
Suspend(t) ==
  /\ "suspend" \in RadioCalls
  /\ radio[t] = Idle
  /\ GetIsInitialized
  /\ available' = FALSE
  /\ radio' = [radio EXCEPT ![t] = [at |-> "suspend"]]
  /\ UNCHANGED <<cond, initialized, nativeVars, managed, hints, preferred,
                 app, worker, ownerPc>>

SuspendNative(t) ==
  /\ radio[t].at = "suspend"
  /\ suspended' = TRUE
  /\ NativeDown
  /\ radio' = [radio EXCEPT ![t] = Idle]
  /\ UNCHANGED <<cond, initialized, managed, hints, bindingVars, app, worker, ownerPc>>

\* ApplyRadioBinding: the binding is withdrawn, the hints are cleared, the
\* driver is reconciled or rebuilt, and the binding is published.
ApplyRadioBinding(t) ==
  /\ "bind" \in RadioCalls
  /\ radio[t] = Idle
  /\ GetIsInitialized
  /\ \E i \in Interfaces, a \in BOOLEAN, r \in BOOLEAN :
       /\ preferred' = i
       /\ radio' = [radio EXCEPT ![t] = [at |-> "hints", then |-> "publish",
                                         interface |-> i, available |-> a, reinit |-> r]]
  /\ available' = FALSE
  /\ UNCHANGED <<cond, initialized, nativeVars, managed, hints, app, worker, ownerPc>>

\* ReconcileManagedPeers() and ReinitializeNativeState() do the same work on
\* the driver and leave the binding alone.
ReconcileManagedPeers(t) ==
  /\ radio[t] = Idle
  /\ GetIsInitialized
  /\ \E r \in BOOLEAN :
       /\ IF r THEN "reinitialize" \in RadioCalls ELSE "reconcile" \in RadioCalls /\ ~suspended
       /\ radio' = [radio EXCEPT ![t] = [at |-> "hints", then |-> "return", reinit |-> r]]
  /\ UNCHANGED <<cond, initialized, nativeVars, managed, hints, bindingVars,
                 app, worker, ownerPc>>

ClearPeerInterfaceHints(t) ==
  /\ radio[t].at = "hints"
  /\ hints' = Empty
  /\ radio' = [radio EXCEPT ![t] = [@ EXCEPT !.at = "native"]]
  /\ UNCHANGED <<cond, initialized, nativeVars, managed, bindingVars,
                 app, worker, ownerPc>>

\* ApplyRadioBinding also rebuilds a suspended driver that was not asked for.
MustReinitialize(t) == radio[t].reinit \/ (suspended /\ radio[t].then = "publish")

\* Mutant: the binding is published as available whatever became of the driver.
LeaveNativeUnchecked(t, ok) ==
  radio' = [radio EXCEPT ![t] =
    IF radio[t].then = "publish"
      THEN [at |-> "publish", interface |-> radio[t].interface,
            available |-> radio[t].available]
      ELSE Idle]

\* The call leaves the section under _nativeMutex with this result.
LeaveNative(t, ok) ==
  radio' = [radio EXCEPT ![t] =
    IF radio[t].then = "publish"
      THEN [at |-> "publish", interface |-> radio[t].interface,
            available |-> radio[t].available /\ ok]
      ELSE Idle]

ReconcileNative(t) ==
  /\ radio[t].at = "native"
  /\ ~MustReinitialize(t)
  /\ \E ok \in BOOLEAN :
       /\ IF ~suspended /\ driverUp
            THEN /\ native' \in [Peers -> Ifaces \cup {None}]
                 /\ Reconciled(native, native', ok)
            ELSE /\ native' = native
                 /\ ok = (~suspended /\ Used(managed) = {})
       /\ LeaveNative(t, ok)
  /\ UNCHANGED <<cond, initialized, suspended, callback, driverUp, managed, hints,
                 bindingVars, app, worker, ownerPc>>

\* Mutant: _nativeSuspended is not cleared.
ReinitializeNativeStaysSuspended(t) ==
  /\ radio[t].at = "native"
  /\ MustReinitialize(t)
  /\ initialized
  /\ driverUp' = TRUE
  /\ callback' = TRUE
  /\ native' = Empty
  /\ LeaveNative(t, FALSE)
  /\ UNCHANGED <<cond, initialized, suspended, managed, hints, bindingVars,
                 app, worker, ownerPc>>

\* ReinitializeNativeStateLocked brings the driver up again.
ReinitializeNative(t) ==
  /\ radio[t].at = "native"
  /\ MustReinitialize(t)
  /\ initialized
  /\ driverUp' = TRUE
  /\ callback' = TRUE
  /\ suspended' = FALSE
  /\ native' \in [Peers -> Ifaces \cup {None}]
  /\ \E ok \in BOOLEAN : /\ Reconciled(Empty, native', ok)
                         /\ LeaveNative(t, ok)
  /\ UNCHANGED <<cond, initialized, managed, hints, bindingVars, app, worker, ownerPc>>

\* esp_now_init or esp_now_register_recv_cb fails: the driver stays down and
\* _nativeSuspended keeps its value.
ReinitializeFails(t) ==
  /\ radio[t].at = "native"
  /\ MustReinitialize(t)
  /\ initialized
  /\ "init" \in NativeFaults
  /\ NativeDown
  /\ LeaveNative(t, FALSE)
  /\ UNCHANGED <<cond, initialized, suspended, managed, hints, bindingVars,
                 app, worker, ownerPc>>

\* The transport was shut down after the call's own check.
ReinitializeRefused(t) ==
  /\ radio[t].at = "native"
  /\ MustReinitialize(t)
  /\ ~initialized
  /\ LeaveNative(t, FALSE)
  /\ UNCHANGED <<cond, initialized, nativeVars, managed, hints, bindingVars,
                 app, worker, ownerPc>>

PublishBinding(t) ==
  /\ radio[t].at = "publish"
  /\ preferred' = radio[t].interface
  /\ available' = radio[t].available
  /\ radio' = [radio EXCEPT ![t] = Idle]
  /\ UNCHANGED <<cond, initialized, nativeVars, managed, hints, app, worker, ownerPc>>

-----------------------------------------------------------------------------
OwnerNext == InitializeNative \/ InitializePublish \/ InitializeStartWorker
             \/ InitializeFails
             \/ ShutdownBegin \/ ShutdownNative \/ ShutdownTables

AppNext(t) == \/ AddPeer(t) \/ EnsurePeerExists(t) \/ EnsureAddPeer(t)
              \/ StoreManagedPeer(t) \/ ProgramPeer(t) \/ ProgramPeerFails(t)
              \/ RemovePeer(t) \/ RemovePeerNative(t) \/ RemovePeerFails(t)

WorkerNext == ReceiveUnicast \/ RememberHint \/ RememberNative

RadioNext(t) == \/ SetRadioUnavailable(t) \/ Suspend(t) \/ SuspendNative(t)
                \/ ApplyRadioBinding(t) \/ ReconcileManagedPeers(t)
                \/ ClearPeerInterfaceHints(t)
                \/ ReconcileNative(t) \/ ReinitializeNative(t)
                \/ ReinitializeFails(t) \/ ReinitializeRefused(t)
                \/ PublishBinding(t)

Next == \/ OwnerNext
        \/ \E t \in Apps : AppNext(t)
        \/ WorkerNext
        \/ \E t \in Radios : RadioNext(t)

Spec == Init /\ [][Next]_vars

-----------------------------------------------------------------------------
AppStates == {Idle}
  \cup [at : {"add", "store", "program"}, peer : Peers, interface : Interfaces]
  \cup [at : {"remove"}, peer : Peers]

RadioStates == {Idle, [at |-> "suspend"]}
  \cup [at : {"hints", "native"}, then : {"publish"}, interface : Interfaces,
         available : BOOLEAN, reinit : BOOLEAN]
  \cup [at : {"hints", "native"}, then : {"return"}, reinit : BOOLEAN]
  \cup [at : {"publish"}, interface : Interfaces, available : BOOLEAN]

\* Type correctness, with the capacities of the two bounded tables.
TypeOK ==
  /\ cond \in Conditions
  /\ initialized \in BOOLEAN /\ suspended \in BOOLEAN
  /\ callback \in BOOLEAN /\ driverUp \in BOOLEAN
  /\ native \in [Peers -> Ifaces \cup {None}]
  /\ managed \in [Peers -> Interfaces \cup {None}]
  /\ Cardinality(Used(managed)) =< MaxManagedPeers
  /\ hints \in [Peers -> Ifaces \cup {None}]
  /\ Cardinality(Used(hints)) =< MaxInterfaceHints
  /\ preferred \in Interfaces
  /\ available \in BOOLEAN
  /\ app \in [Apps -> AppStates]
  /\ radio \in [Radios -> RadioStates]
  /\ worker \in {Idle} \cup [at : {"hint", "native"}, peer : Peers, interface : Ifaces]
  /\ ownerPc \in {"idle", "publish", "start", "native", "tables"}

\* While _nativeSuspended is set, no thread has brought the driver, its receive
\* callback or any native peer back: a WiFi transition finds ESP-NOW down
\* however AddPeer, received frames, rebinding and Shutdown interleave.
SuspendedMeansDown ==
  suspended => ~driverUp /\ ~callback /\ native = Empty

\* AddPeer is between storing a peer and programming it.
Programming(p) == \E t \in Apps : app[t].at = "program" /\ app[t].peer = p

\* The driver follows the WiFi coordinator's calls only, the owner's calls
\* overlap no other, and the driver never refuses to modify a peer it has.
Coordinated == /\ cond.calls \subseteq {"unavailable", "suspend", "bind"}
               /\ ~cond.overlap
               /\ "mod" \notin cond.faults

LifecycleIdle == ownerPc = "idle" /\ \A t \in Radios : radio[t] = Idle

\* A published binding that says Available is backed by the driver: it is up,
\* it delivers frames here, and it knows every managed peer, however many of
\* the rebuilds before failed half-way.  (With an empty registry nothing is
\* promised: a lightweight rebind of no peers succeeds on a driver that an
\* earlier failed rebuild left down.)
AvailableMeansProgrammed ==
  Coordinated /\ initialized /\ available /\ LifecycleIdle =>
    \A p \in Used(managed) : \/ native[p] # None /\ callback /\ ~suspended
                             \/ Programming(p)

\* The driver holds no peer that the registry does not know: such a peer could
\* be removed by nobody and would vanish at the next rebuild.  This needs every
\* peer to have one owner, whose calls for it do not overlap: AddPeer, or the
\* clock synchronizer's, programs a peer that a RemovePeer has just forgotten.
NoOrphanPeer ==
  Coordinated /\ ownerPc = "idle" => Used(native) \subseteq Used(managed)

\* README: "Explicit `Station` and `AccessPoint` peers never silently migrate."
\* It holds of a peer whose owner never changes its kind; one that is re-added
\* as explicit may still be moved by a frame the worker was judging meanwhile.
ExplicitPeersPinned ==
  Coordinated /\ ownerPc = "idle" =>
    \A p \in Used(native) :
      managed[p] \in Ifaces /\ ~Programming(p) => native[p] = managed[p]

\* docs/PEER_OWNERSHIP.md: "Client/Reference role transitions must not downgrade
\* encryption, replace the LMK, or rewrite channel/interface settings for an
\* already configured peer": a record is replaced only by what an application
\* itself asks for.
ConfiguredPeersKept ==
  [][\A p \in Peers :
       managed[p] # None /\ managed'[p] \notin {None, managed[p]}
         => \E t \in Apps : <<t, p, managed'[p]>> \in AddCalls]_vars
=============================================================================
