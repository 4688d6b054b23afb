------------------------- MODULE PeerRegistryProofs -------------------------
(***************************************************************************)
(* The peer registry for every set of peers and threads.  Unconditionally:   *)
(* the tables stay within their capacities and a suspended radio finds the   *)
(* driver down.  Under the ownership rule of docs/PEER_OWNERSHIP.md: the      *)
(* driver holds no peer the registry does not know and pinned peers stay      *)
(* where they are.  With one thread driving the radio: a binding published    *)
(* as available is backed by the driver.                                      *)
(***************************************************************************)
EXTENDS PeerRegistry, FiniteSetTheorems, TLAPS

-----------------------------------------------------------------------------
(* The inductive invariants.                                                *)

\* The bounded tables are finite, as their capacities bound them.
TablesFinite == IsFiniteSet(Used(managed)) /\ IsFiniteSet(Used(hints))

\* The receive callback is registered exactly while the driver is up, only a
\* driver that is up has peers, and it is down while it is suspended.
DriverControl == /\ callback = driverUp
                 /\ ~driverUp => native = Empty
                 /\ suspended => ~driverUp

\* What holds for every use of the transport.
BaseInv == TypeOK /\ TablesFinite /\ DriverControl

\* Between a Shutdown, or a failed Initialize, and the next published one.
Fresh == ownerPc \in {"publish", "start"} \/ (ownerPc = "idle" /\ ~initialized)

\* When the owner's calls overlap no other, nobody is in the transport while it
\* is not usable, and an unpublished transport has no peers.
LifecycleControl ==
  Coordinated =>
    /\ ownerPc \in {"publish", "native", "tables"} => ~initialized
    /\ ownerPc = "start" => initialized
    /\ ~initialized \/ ownerPc # "idle" =>
         (\A t \in Apps : app[t] = Idle) /\ (\A t \in Radios : radio[t] = Idle)
    /\ ownerPc \in {"publish", "start"} => ~suspended
    /\ ownerPc = "tables" => suspended
    /\ Fresh => managed = Empty

\* The peers a thread works on, the interfaces they are configured with.
Owns(t, p) == <<t, p>> \in EnsureCalls \/ \E i \in Interfaces : <<t, p, i>> \in AddCalls
Configured(p, i) == \/ \E t \in Apps : <<t, p, i>> \in AddCalls
                    \/ i = "Auto" /\ \E t \in Apps : <<t, p>> \in EnsureCalls

\* A thread's call is about a peer of its own, as one of its calls configures it,
\* the registry holds what some call configured, and the worker moves only peers
\* that some call configured as Auto.
CallControl ==
  /\ \A t \in Apps : app[t].at # "idle" => Owns(t, app[t].peer)
  /\ \A t \in Apps : app[t].at \in {"add", "store", "program"}
                       => Configured(app[t].peer, app[t].interface)
  /\ \A p \in Used(managed) : Configured(p, managed[p])
  /\ worker.at # "idle" => Configured(worker.peer, "Auto")

\* What AddPeer is about to program is what it stored.
ProgramStored ==
  Coordinated =>
    \A t \in Apps : app[t].at = "program" => managed[app[t].peer] = app[t].interface

\* The driver knows only managed peers.
NativeManaged == Coordinated => Used(native) \subseteq Used(managed)

\* The driver has pinned peers where they were pinned.
NativePinned ==
  Coordinated =>
    \A p \in Used(native) :
      managed[p] \in Ifaces /\ ~Programming(p) => native[p] = managed[p]

\* A binding is published as available, or about to be.
AboutToPublish == \E t \in Radios : radio[t].at = "publish" /\ radio[t].available

\* Such a binding is backed by the driver.
Backed == /\ ~suspended
          /\ \A p \in Used(managed) : native[p] # None \/ Programming(p)

RadioControl ==
  Coordinated =>
    /\ \A t \in Radios : radio[t].at # "idle" => ~available
    /\ \A t \in Radios : radio[t].at \in {"hints", "native"} => radio[t].then = "publish"
    /\ initialized /\ (available \/ AboutToPublish) => Backed

-----------------------------------------------------------------------------
(* How the transport is used.                                               *)

\* docs/PEER_OWNERSHIP.md: a peer is configured by one subsystem; the others
\* leave it alone.
OneOwner == \A p \in Peers : \A t, u \in Apps : Owns(t, p) /\ Owns(u, p) => t = u

\* A peer that is pinned to an interface is not also used as a dynamic one.
PinnedOrDynamic ==
  \A p \in Peers : Configured(p, "Auto") => \A i \in Ifaces : ~Configured(p, i)

\* The WiFi coordinator is the only thread that drives the radio.
OneRadio == \A t, u \in Radios : t = u

-----------------------------------------------------------------------------
(* Lemmas about the tables and the places of the threads.                   *)

USE AddCallsAssumption, EnsureCallsAssumption, ConditionsAssumption

Hinting == {Idle} \cup [at : {"hint", "native"}, peer : Peers, interface : Ifaces]

\* Where an application is in its call tells which arguments it holds.
LEMMA AppPlaces ==
  ASSUME NEW a \in AppStates
  PROVE  /\ a.at \in {"idle", "add", "store", "program", "remove"}
         /\ a.at = "idle" <=> a = Idle
         /\ a.at # "idle" => a.peer \in Peers
         /\ a.at \in {"add", "store", "program"} =>
              /\ a.interface \in Interfaces
              /\ a = [at |-> a.at, peer |-> a.peer, interface |-> a.interface]
  BY DEF AppStates, Idle

\* The places an application can move to.
LEMMA AppBuild ==
  /\ Idle \in AppStates
  /\ \A p \in Peers, i \in Interfaces, a \in {"add", "store", "program"} :
       [at |-> a, peer |-> p, interface |-> i] \in AppStates
  /\ \A p \in Peers : [at |-> "remove", peer |-> p] \in AppStates
  BY DEF AppStates

\* A call moves on with its arguments.
LEMMA AppMove ==
  ASSUME NEW a \in AppStates, a.at \in {"add", "store"}, NEW b \in {"store", "program"}
  PROVE  LET c == [a EXCEPT !.at = b]
         IN  c \in AppStates /\ c.at = b /\ c.peer = a.peer /\ c.interface = a.interface
<1>1. a \in [at : {"add", "store", "program"}, peer : Peers, interface : Interfaces]
  BY DEF AppStates, Idle
<1> QED
  BY <1>1 DEF AppStates

\* Where a radio thread is in its call tells which arguments it holds.
LEMMA RadioPlaces ==
  ASSUME NEW r \in RadioStates
  PROVE  /\ r.at \in {"idle", "suspend", "hints", "native", "publish"}
         /\ r.at = "idle" <=> r = Idle
         /\ r.at \in {"hints", "native"} => r.then \in {"publish", "return"} /\ r.reinit \in BOOLEAN
         /\ r.at \in {"hints", "native"} /\ r.then = "publish" =>
              /\ r.interface \in Interfaces /\ r.available \in BOOLEAN
              /\ r = [at |-> r.at, then |-> "publish", interface |-> r.interface,
                      available |-> r.available, reinit |-> r.reinit]
         /\ r.at \in {"hints", "native"} /\ r.then = "return" =>
              r = [at |-> r.at, then |-> "return", reinit |-> r.reinit]
         /\ r.at = "publish" => r.interface \in Interfaces /\ r.available \in BOOLEAN
  BY DEF RadioStates, Idle

\* The places a radio thread can move to.
LEMMA RadioBuild ==
  /\ Idle \in RadioStates /\ [at |-> "suspend"] \in RadioStates
  /\ \A a \in {"hints", "native"}, i \in Interfaces, v \in BOOLEAN, r \in BOOLEAN :
       [at |-> a, then |-> "publish", interface |-> i, available |-> v, reinit |-> r]
         \in RadioStates
  /\ \A a \in {"hints", "native"}, r \in BOOLEAN :
       [at |-> a, then |-> "return", reinit |-> r] \in RadioStates
  /\ \A i \in Interfaces, v \in BOOLEAN :
       [at |-> "publish", interface |-> i, available |-> v] \in RadioStates
  BY DEF RadioStates

\* Where the worker is tells which frame it is about.
LEMMA WorkerPlaces ==
  ASSUME NEW w \in Hinting
  PROVE  /\ w.at \in {"idle", "hint", "native"}
         /\ w.at = "idle" <=> w = Idle
         /\ w.at # "idle" =>
              /\ w.peer \in Peers /\ w.interface \in Ifaces
              /\ w = [at |-> w.at, peer |-> w.peer, interface |-> w.interface]
  BY DEF Hinting, Idle

\* No interface is mistaken for an empty entry.
LEMMA InterfaceFacts == /\ None \notin Interfaces /\ Ifaces \subseteq Interfaces
                        /\ "Auto" \notin Ifaces /\ "Auto" \in Interfaces
  BY DEF None, Ifaces, Interfaces

\* What a change of one entry does to the used ones.
LEMMA UsedFacts ==
  ASSUME NEW S, NEW table \in [Peers -> S], NEW p \in Peers
  PROVE  /\ Used([table EXCEPT ![p] = None]) = Used(table) \ {p}
         /\ \A v : v # None => Used([table EXCEPT ![p] = v]) = Used(table) \cup {p}
         /\ p \in Used(table) <=> table[p] # None
  BY DEF Used

\* An empty table has no used entry.
LEMMA EmptyFacts == /\ Used(Empty) = {} /\ IsFiniteSet(Used(Empty))
                    /\ Cardinality(Used(Empty)) = 0
                    /\ \A S : Empty \in [Peers -> S \cup {None}]
<1>1. Used(Empty) = {} /\ \A S : Empty \in [Peers -> S \cup {None}]
  BY DEF Used, Empty
<1> QED
  BY <1>1, FS_EmptySet

\* StoreManagedPeer and the hints refuse a new entry when the table is full.
LEMMA TableStore ==
  ASSUME NEW S, NEW table \in [Peers -> S], NEW p \in Peers, NEW v, v # None, NEW max \in Nat,
         IsFiniteSet(Used(table)), Cardinality(Used(table)) =< max,
         table[p] # None \/ Cardinality(Used(table)) < max
  PROVE  /\ IsFiniteSet(Used([table EXCEPT ![p] = v]))
         /\ Cardinality(Used([table EXCEPT ![p] = v])) =< max
<1> DEFINE U == Used(table)
           n == Cardinality(U)
<1>1. n \in Nat
  BY FS_CardinalityType
<1>2. /\ IsFiniteSet(U \cup {p})
      /\ Cardinality(U \cup {p}) = IF p \in U THEN n ELSE n + 1
  BY FS_AddElement
<1>3. /\ Used([table EXCEPT ![p] = v]) = U \cup {p}
      /\ p \in U <=> table[p] # None
  BY UsedFacts
<1>4. n =< max /\ (p \in U \/ n < max)
  BY <1>3
<1> HIDE DEF U, n
<1>5. Cardinality(U \cup {p}) =< max
  BY <1>1, <1>2, <1>4
<1> QED
  BY <1>2, <1>3, <1>5

\* Forgetting an entry keeps a table within its capacity.
LEMMA TableForget ==
  ASSUME NEW S, NEW table \in [Peers -> S], NEW p \in Peers, NEW max \in Nat,
         IsFiniteSet(Used(table)), Cardinality(Used(table)) =< max
  PROVE  /\ IsFiniteSet(Used([table EXCEPT ![p] = None]))
         /\ Cardinality(Used([table EXCEPT ![p] = None])) =< max
<1> DEFINE U == Used(table)
           n == Cardinality(U)
<1>1. n \in Nat /\ n =< max
  BY FS_CardinalityType
<1>2. /\ IsFiniteSet(U \ {p})
      /\ Cardinality(U \ {p}) = IF p \in U THEN n - 1 ELSE n
  BY FS_RemoveElement
<1>3. Used([table EXCEPT ![p] = None]) = U \ {p}
  BY UsedFacts
<1> HIDE DEF U, n
<1>4. Cardinality(U \ {p}) =< max
  BY <1>1, <1>2
<1> QED
  BY <1>2, <1>3, <1>4

\* The capacities are numbers, and the worker's places are Hinting.
LEMMA TypeFacts ==
  ASSUME TypeOK
  PROVE  /\ MaxManagedPeers \in Nat /\ MaxInterfaceHints \in Nat
         /\ cond \in Conditions /\ worker \in Hinting
         /\ \A t \in Apps : app[t] \in AppStates
         /\ \A t \in Radios : radio[t] \in RadioStates
  BY DEF TypeOK, MaxManagedPeers, MaxInterfaceHints, Hinting

\* ResolvePeerInterface answers an interface of the driver, and a pinned peer's own.
LEMMA ResolveFacts ==
  ASSUME TypeOK, NEW p \in Peers, NEW i \in Interfaces, NEW f \in ResolvePeerInterface(p, i)
  PROVE  /\ f \in Ifaces
         /\ i \in Ifaces => f = i
  BY InterfaceFacts DEF ResolvePeerInterface, TypeOK, Ifaces, Interfaces, None

-----------------------------------------------------------------------------
(* The base invariant.                                                      *)

\* A transport that was just constructed.
LEMMA InitBase == Init => BaseInv
<1> SUFFICES ASSUME Init PROVE BaseInv
  OBVIOUS
<1>1. /\ initialized \in BOOLEAN /\ suspended \in BOOLEAN /\ callback \in BOOLEAN
      /\ driverUp \in BOOLEAN /\ available \in BOOLEAN
  BY Zenon DEF Init
<1>2. MaxManagedPeers \in Nat /\ MaxInterfaceHints \in Nat
  BY DEF Init, MaxManagedPeers, MaxInterfaceHints
<1>3. TypeOK
  BY <1>1, <1>2, EmptyFacts, InterfaceFacts DEF Init, TypeOK, AppStates, RadioStates
<1>4. TablesFinite
  BY EmptyFacts DEF Init, TablesFinite
<1>5. DriverControl
  BY DEF Init, DriverControl
<1> QED
  BY <1>3, <1>4, <1>5 DEF BaseInv

\* The owner's steps.
LEMMA OwnerBase ==
  ASSUME BaseInv, OwnerNext
  PROVE  BaseInv'
<1> USE DEF BaseInv, nativeVars, bindingVars
<1>1. CASE InitializeNative \/ InitializePublish \/ InitializeStartWorker \/ ShutdownBegin
  <2>1. /\ UNCHANGED <<cond, native, managed, hints, app, radio, worker>>
        /\ ownerPc' \in {"idle", "publish", "start", "native"}
    BY <1>1 DEF InitializeNative, InitializePublish, InitializeStartWorker, ShutdownBegin
  <2>2. /\ initialized' \in BOOLEAN /\ suspended' \in BOOLEAN /\ callback' \in BOOLEAN
        /\ driverUp' \in BOOLEAN /\ available' \in BOOLEAN /\ preferred' \in Interfaces
    BY <1>1, InterfaceFacts
    DEF InitializeNative, InitializePublish, InitializeStartWorker, ShutdownBegin, TypeOK
  <2>3. DriverControl'
    <3>1. CASE InitializeNative
      BY <3>1 DEF InitializeNative, DriverControl
    <3>2. CASE UNCHANGED nativeVars
      BY <3>2 DEF DriverControl, Empty
    <3> QED
      BY <1>1, <3>1, <3>2 DEF InitializePublish, InitializeStartWorker, ShutdownBegin
  <2> QED
    BY <2>1, <2>2, <2>3 DEF TypeOK, TablesFinite, MaxManagedPeers, MaxInterfaceHints, Used
<1>2. CASE InitializeFails \/ ShutdownNative
  <2>1. /\ UNCHANGED <<cond, managed, hints, app, radio, worker, bindingVars>>
        /\ ownerPc' \in {"idle", "tables"} /\ native' = Empty
    BY <1>2 DEF InitializeFails, ShutdownNative, NativeDown
  <2>2. /\ initialized' \in BOOLEAN /\ suspended' \in BOOLEAN /\ callback' \in BOOLEAN
        /\ driverUp' \in BOOLEAN
    BY <1>2 DEF InitializeFails, ShutdownNative, NativeDown, TypeOK
  <2>3. DriverControl'
    BY <1>2 DEF InitializeFails, ShutdownNative, NativeDown, DriverControl, Empty
  <2> QED
    BY <2>1, <2>2, <2>3, EmptyFacts
    DEF TypeOK, TablesFinite, MaxManagedPeers, MaxInterfaceHints, Used
<1>3. CASE ShutdownTables
  <2>1. /\ UNCHANGED <<cond, initialized, nativeVars, app, radio, worker>>
        /\ ownerPc' = "idle" /\ managed' = Empty /\ hints' = Empty
        /\ available' \in BOOLEAN /\ preferred' \in Interfaces
    BY <1>3, InterfaceFacts DEF ShutdownTables
  <2>2. DriverControl'
    BY <2>1 DEF DriverControl, Empty
  <2>3. MaxManagedPeers' \in Nat /\ MaxInterfaceHints' \in Nat
    BY <2>1, TypeFacts DEF MaxManagedPeers, MaxInterfaceHints
  <2>4. /\ Cardinality(Used(managed)') = 0 /\ Cardinality(Used(hints)') = 0
        /\ IsFiniteSet(Used(managed)') /\ IsFiniteSet(Used(hints)')
    BY <2>1, EmptyFacts DEF Used, Empty
  <2>5. TypeOK'
    BY <2>1, <2>3, <2>4, EmptyFacts DEF TypeOK
  <2> QED
    BY <2>2, <2>4, <2>5 DEF TablesFinite
<1> QED
  BY <1>1, <1>2, <1>3 DEF OwnerNext

\* AddPeer, RemovePeer and the clock synchronizer's EnsurePeerExists.
LEMMA AppBase ==
  ASSUME BaseInv, NEW t \in Apps, AppNext(t)
  PROVE  BaseInv'
<1> USE DEF BaseInv, nativeVars, bindingVars
<1>t. /\ app[t] \in AppStates /\ MaxManagedPeers \in Nat /\ MaxInterfaceHints \in Nat
      /\ cond' = cond
      /\ UNCHANGED <<initialized, suspended, callback, driverUp, bindingVars, radio, worker, ownerPc>>
  BY TypeFacts DEF AppNext, AddPeer, EnsurePeerExists, EnsureAddPeer, StoreManagedPeer,
       ProgramPeer, ProgramPeerFails, RemovePeer, RemovePeerNative, RemovePeerFails
<1>m. MaxManagedPeers' = MaxManagedPeers /\ MaxInterfaceHints' = MaxInterfaceHints
  BY <1>t DEF MaxManagedPeers, MaxInterfaceHints
<1>a. app' \in [Apps -> AppStates]
  <2>1. CASE AddPeer(t) \/ EnsurePeerExists(t) \/ RemovePeer(t)
    <3>1. PICK a \in AppStates : app' = [app EXCEPT ![t] = a]
      BY <2>1, AppBuild, InterfaceFacts DEF AddPeer, EnsurePeerExists, RemovePeer
    <3> QED
      BY <3>1 DEF TypeOK
  <2>2. CASE EnsureAddPeer(t)
    <3>2. [app[t] EXCEPT !.at = "store"] \in AppStates
      BY <1>t, <2>2, AppMove DEF EnsureAddPeer
    <3> QED
      BY <2>2, <3>2, AppBuild DEF EnsureAddPeer, TypeOK
  <2>3. CASE StoreManagedPeer(t)
    <3>2. [app[t] EXCEPT !.at = "program"] \in AppStates
      BY <1>t, <2>3, AppMove DEF StoreManagedPeer
    <3> QED
      BY <2>3, <3>2, AppBuild DEF StoreManagedPeer, TypeOK
  <2>4. CASE ProgramPeer(t) \/ ProgramPeerFails(t) \/ RemovePeerNative(t) \/ RemovePeerFails(t)
    BY <2>4, AppBuild DEF ProgramPeer, ProgramPeerFails, RemovePeerNative, RemovePeerFails, TypeOK
  <2> QED
    BY <2>1, <2>2, <2>3, <2>4 DEF AppNext
<1>p. app[t].at # "idle" => app[t].peer \in Peers
  BY <1>t, AppPlaces
<1>n. /\ native' \in [Peers -> Ifaces \cup {None}]
      /\ driverUp \/ native' = native \/ native' = [native EXCEPT ![app[t].peer] = None]
  <2>1. CASE ProgramPeer(t)
    <3>1. app[t].interface \in Interfaces /\ app[t].peer \in Peers
      BY <1>t, <2>1, AppPlaces DEF ProgramPeer
    <3>2. \A f \in ResolvePeerInterface(app[t].peer, app[t].interface) : f \in Ifaces
      BY <3>1, ResolveFacts
    <3> QED
      BY <2>1, <3>1, <3>2 DEF ProgramPeer, TypeOK
  <2>2. CASE RemovePeerNative(t)
    BY <2>2 DEF RemovePeerNative, TypeOK
  <2>3. CASE native' = native
    BY <2>3 DEF TypeOK
  <2> QED
    BY <2>1, <2>2, <2>3
    DEF AppNext, AddPeer, EnsurePeerExists, EnsureAddPeer, StoreManagedPeer,
        ProgramPeerFails, RemovePeer, RemovePeerFails
<1>d. DriverControl'
  <2>1. ~driverUp => native = Empty /\ native' = Empty
    BY <1>n DEF DriverControl, Empty
  <2> QED
    BY <1>t, <2>1 DEF DriverControl, Empty
<1>e. /\ managed' \in [Peers -> Interfaces \cup {None}]
      /\ IsFiniteSet(Used(managed')) /\ Cardinality(Used(managed')) =< MaxManagedPeers
  <2>0. /\ managed \in [Peers -> Interfaces \cup {None}]
        /\ IsFiniteSet(Used(managed)) /\ Cardinality(Used(managed)) =< MaxManagedPeers
    BY DEF TypeOK, TablesFinite
  <2>1. CASE StoreManagedPeer(t)
    <3>1. app[t].interface \in Interfaces /\ app[t].peer \in Peers
      BY <1>t, <2>1, AppPlaces DEF StoreManagedPeer
    <3>2. CASE managed[app[t].peer] # None \/ Cardinality(Used(managed)) < MaxManagedPeers
      <4>1. managed' = [managed EXCEPT ![app[t].peer] = app[t].interface]
        BY <2>1, <3>2 DEF StoreManagedPeer
      <4>2. app[t].interface # None
        BY <3>1, InterfaceFacts
      <4>3. /\ IsFiniteSet(Used([managed EXCEPT ![app[t].peer] = app[t].interface]))
            /\ Cardinality(Used([managed EXCEPT ![app[t].peer] = app[t].interface]))
                 =< MaxManagedPeers
        BY <1>t, <2>0, <3>1, <3>2, <4>2, TableStore
      <4> QED
        BY <2>0, <3>1, <4>1, <4>3
    <3>3. CASE ~(managed[app[t].peer] # None \/ Cardinality(Used(managed)) < MaxManagedPeers)
      BY <2>0, <2>1, <3>3 DEF StoreManagedPeer
    <3> QED
      BY <3>2, <3>3
  <2>2. CASE ProgramPeerFails(t) \/ RemovePeerNative(t)
    <3>1. managed' = [managed EXCEPT ![app[t].peer] = None] /\ app[t].peer \in Peers
      BY <1>p, <2>2 DEF ProgramPeerFails, RemovePeerNative
    <3>2. /\ IsFiniteSet(Used([managed EXCEPT ![app[t].peer] = None]))
          /\ Cardinality(Used([managed EXCEPT ![app[t].peer] = None])) =< MaxManagedPeers
      BY <1>t, <2>0, <3>1, TableForget
    <3> QED
      BY <2>0, <3>1, <3>2
  <2>3. CASE managed' = managed
    BY <2>0, <2>3
  <2> QED
    BY <2>1, <2>2, <2>3
    DEF AppNext, AddPeer, EnsurePeerExists, EnsureAddPeer, ProgramPeer, RemovePeer,
        RemovePeerFails
<1>h. /\ hints' \in [Peers -> Ifaces \cup {None}]
      /\ IsFiniteSet(Used(hints')) /\ Cardinality(Used(hints')) =< MaxInterfaceHints
  <2>0. /\ hints \in [Peers -> Ifaces \cup {None}]
        /\ IsFiniteSet(Used(hints)) /\ Cardinality(Used(hints)) =< MaxInterfaceHints
    BY DEF TypeOK, TablesFinite
  <2>1. CASE RemovePeerNative(t)
    <3>1. hints' = [hints EXCEPT ![app[t].peer] = None] /\ app[t].peer \in Peers
      BY <1>p, <2>1 DEF RemovePeerNative
    <3>2. /\ IsFiniteSet(Used([hints EXCEPT ![app[t].peer] = None]))
          /\ Cardinality(Used([hints EXCEPT ![app[t].peer] = None])) =< MaxInterfaceHints
      BY <1>t, <2>0, <3>1, TableForget
    <3> QED
      BY <2>0, <3>1, <3>2
  <2>2. CASE hints' = hints
    BY <2>0, <2>2
  <2> QED
    BY <2>1, <2>2
    DEF AppNext, AddPeer, EnsurePeerExists, EnsureAddPeer, StoreManagedPeer, ProgramPeer,
        ProgramPeerFails, RemovePeer, RemovePeerFails
<1>u. Used(managed)' = Used(managed') /\ Used(hints)' = Used(hints')
  BY DEF Used
<1>x. TypeOK'
  BY <1>t, <1>m, <1>a, <1>n, <1>e, <1>h, <1>u DEF TypeOK
<1> QED
  BY <1>x, <1>d, <1>e, <1>h, <1>u DEF TablesFinite

\* The worker's RememberPeerInterface.
LEMMA WorkerBase ==
  ASSUME BaseInv, WorkerNext
  PROVE  BaseInv'
<1> USE DEF BaseInv, nativeVars, bindingVars
<1>t. /\ worker \in Hinting /\ MaxInterfaceHints \in Nat /\ cond' = cond
      /\ UNCHANGED <<initialized, suspended, callback, driverUp, managed, bindingVars,
                     app, radio, ownerPc>>
  BY TypeFacts DEF WorkerNext, ReceiveUnicast, RememberHint, RememberNative
<1>m. MaxManagedPeers' = MaxManagedPeers /\ MaxInterfaceHints' = MaxInterfaceHints
  BY <1>t DEF MaxManagedPeers, MaxInterfaceHints
<1>u. Used(managed)' = Used(managed') /\ Used(hints)' = Used(hints')
  BY DEF Used
<1>1. CASE ReceiveUnicast
  <2>1. worker' \in Hinting /\ UNCHANGED <<native, hints>>
    BY <1>1 DEF ReceiveUnicast, Hinting
  <2> QED
    BY <1>t, <1>m, <1>u, <2>1 DEF TypeOK, TablesFinite, DriverControl, Hinting, Empty
<1>2. CASE RememberHint
  <2>1. /\ worker.peer \in Peers /\ worker.interface \in Ifaces
        /\ worker = [at |-> "hint", peer |-> worker.peer, interface |-> worker.interface]
    BY <1>2, <1>t, WorkerPlaces DEF RememberHint
  <2>2. worker' \in Hinting /\ native' = native
    BY <1>2, <1>t DEF RememberHint, Hinting, Idle
  <2>3. /\ hints \in [Peers -> Ifaces \cup {None}]
        /\ IsFiniteSet(Used(hints)) /\ Cardinality(Used(hints)) =< MaxInterfaceHints
    BY DEF TypeOK, TablesFinite
  <2>4. /\ hints' \in [Peers -> Ifaces \cup {None}]
        /\ IsFiniteSet(Used(hints')) /\ Cardinality(Used(hints')) =< MaxInterfaceHints
    <3>1. CASE hints[worker.peer] # None \/ Cardinality(Used(hints)) < MaxInterfaceHints
      <4>1. hints' = [hints EXCEPT ![worker.peer] = worker.interface]
        BY <1>2, <3>1 DEF RememberHint
      <4>2. worker.interface # None
        BY <2>1, InterfaceFacts
      <4>3. /\ IsFiniteSet(Used([hints EXCEPT ![worker.peer] = worker.interface]))
            /\ Cardinality(Used([hints EXCEPT ![worker.peer] = worker.interface]))
                 =< MaxInterfaceHints
        BY <1>t, <2>1, <2>3, <3>1, <4>2, TableStore
      <4> QED
        BY <2>1, <2>3, <4>1, <4>3
    <3>2. CASE ~(hints[worker.peer] # None \/ Cardinality(Used(hints)) < MaxInterfaceHints)
      BY <1>2, <2>3, <3>2 DEF RememberHint
    <3> QED
      BY <3>1, <3>2
  <2>5. TypeOK'
    BY <1>t, <1>m, <1>u, <2>2, <2>4 DEF TypeOK, Hinting
  <2> QED
    BY <1>t, <1>u, <2>2, <2>4, <2>5 DEF TablesFinite, DriverControl, Empty
<1>3. CASE RememberNative
  <2>1. worker.peer \in Peers /\ worker.interface \in Ifaces
    BY <1>3, <1>t, WorkerPlaces DEF RememberNative
  <2>2. worker' = Idle /\ hints' = hints
    BY <1>3 DEF RememberNative
  <2>3. native' \in [Peers -> Ifaces \cup {None}]
    BY <1>3, <2>1 DEF RememberNative, TypeOK
  <2>4. ~driverUp => native' = native
    BY <1>3, <2>1 DEF RememberNative, DriverControl, Empty
  <2>5. TypeOK'
    BY <1>t, <1>m, <1>u, <2>2, <2>3 DEF TypeOK
  <2> QED
    BY <1>t, <1>u, <2>2, <2>4, <2>5 DEF TablesFinite, DriverControl, Empty
<1> QED
  BY <1>1, <1>2, <1>3 DEF WorkerNext

\* The place a radio thread has after the section under _nativeMutex.
LEMMA LeaveNativeFacts ==
  ASSUME TypeOK, NEW t \in Radios, NEW ok \in BOOLEAN, radio[t].at = "native", LeaveNative(t, ok)
  PROVE  /\ radio' \in [Radios -> RadioStates]
         /\ \A u \in Radios : u # t => radio'[u] = radio[u]
         /\ radio'[t].at \in {"idle", "publish"}
         /\ radio'[t].at = "publish" => radio'[t].available = (radio[t].available /\ ok)
<1>1. radio[t] \in RadioStates
  BY DEF TypeOK
<1>2. radio[t].then \in {"publish", "return"}
  BY <1>1, RadioPlaces
<1>3. CASE radio[t].then = "publish"
  <2>1. radio[t].interface \in Interfaces /\ radio[t].available \in BOOLEAN
    BY <1>1, <1>3, RadioPlaces
  <2> DEFINE r == [at |-> "publish", interface |-> radio[t].interface,
                   available |-> radio[t].available /\ ok]
  <2>2. r \in RadioStates
    BY <2>1, RadioBuild
  <2>3. radio' = [radio EXCEPT ![t] = r]
    BY <1>3 DEF LeaveNative
  <2>4. r.at = "publish" /\ r.available = (radio[t].available /\ ok)
    OBVIOUS
  <2> HIDE DEF r
  <2> QED
    BY <2>2, <2>3, <2>4 DEF TypeOK
<1>4. CASE radio[t].then = "return"
  <2>1. radio' = [radio EXCEPT ![t] = Idle]
    BY <1>4 DEF LeaveNative
  <2>2. Idle.at = "idle"
    BY DEF Idle
  <2> QED
    BY <2>1, <2>2, RadioBuild DEF TypeOK
<1> QED
  BY <1>2, <1>3, <1>4

\* Where a radio thread moves to.
LEMMA RadioMoves ==
  ASSUME TypeOK, NEW t \in Radios, RadioNext(t)
  PROVE  radio' \in [Radios -> RadioStates]
<1>0. radio[t] \in RadioStates /\ radio \in [Radios -> RadioStates]
  BY DEF TypeOK
<1>1. CASE SetRadioUnavailable(t)
  BY <1>0, <1>1 DEF SetRadioUnavailable, threadVars
<1>2. CASE Suspend(t) \/ SuspendNative(t) \/ PublishBinding(t)
  BY <1>0, <1>2, RadioBuild DEF Suspend, SuspendNative, PublishBinding
<1>3. CASE ApplyRadioBinding(t)
  <2>1. PICK r \in RadioStates : radio' = [radio EXCEPT ![t] = r]
    BY <1>3, RadioBuild DEF ApplyRadioBinding
  <2> QED
    BY <1>0, <2>1
<1>4. CASE ReconcileManagedPeers(t)
  <2>1. PICK r \in RadioStates : radio' = [radio EXCEPT ![t] = r]
    BY <1>4, RadioBuild DEF ReconcileManagedPeers
  <2> QED
    BY <1>0, <2>1
<1>5. CASE ClearPeerInterfaceHints(t)
  <2>1. radio[t] \in [at : {"hints", "native"}, then : {"publish"}, interface : Interfaces,
                      available : BOOLEAN, reinit : BOOLEAN]
              \cup [at : {"hints", "native"}, then : {"return"}, reinit : BOOLEAN]
    BY <1>0, <1>5 DEF ClearPeerInterfaceHints, RadioStates, Idle
  <2>2. [radio[t] EXCEPT !.at = "native"] \in RadioStates
    BY <2>1 DEF RadioStates
  <2> QED
    BY <1>0, <1>5, <2>2 DEF ClearPeerInterfaceHints
<1>6. CASE ReconcileNative(t)
  BY <1>6, LeaveNativeFacts DEF ReconcileNative
<1>7. CASE ReinitializeNative(t)
  BY <1>7, LeaveNativeFacts DEF ReinitializeNative
<1>8. CASE ReinitializeFails(t) \/ ReinitializeRefused(t)
  <2>1. radio[t].at = "native" /\ LeaveNative(t, FALSE) /\ FALSE \in BOOLEAN
    BY <1>8 DEF ReinitializeFails, ReinitializeRefused
  <2> QED
    BY <2>1, LeaveNativeFacts
<1> QED
  BY <1>1, <1>2, <1>3, <1>4, <1>5, <1>6, <1>7, <1>8 DEF RadioNext

\* The radio threads' steps.
LEMMA RadioBase ==
  ASSUME BaseInv, NEW t \in Radios, RadioNext(t)
  PROVE  BaseInv'
<1> USE DEF BaseInv, nativeVars, bindingVars, threadVars
<1>r. radio' \in [Radios -> RadioStates] /\ radio[t] \in RadioStates
  BY RadioMoves, TypeFacts
<1>t. UNCHANGED <<cond, initialized, managed, app, worker, ownerPc>>
  BY DEF RadioNext, SetRadioUnavailable, Suspend, SuspendNative, ApplyRadioBinding,
         ReconcileManagedPeers, ClearPeerInterfaceHints, ReconcileNative, ReinitializeNative,
         ReinitializeFails, ReinitializeRefused, PublishBinding
<1>m. /\ MaxManagedPeers' = MaxManagedPeers /\ MaxInterfaceHints' = MaxInterfaceHints
      /\ MaxInterfaceHints \in Nat
  BY <1>t, TypeFacts DEF MaxManagedPeers, MaxInterfaceHints
<1>u. Used(managed)' = Used(managed') /\ Used(hints)' = Used(hints')
  BY DEF Used
<1>b. preferred' \in Interfaces /\ available' \in BOOLEAN
  <2>1. CASE PublishBinding(t)
    BY <1>r, <2>1, RadioPlaces DEF PublishBinding
  <2>2. CASE SetRadioUnavailable(t) \/ Suspend(t) \/ ApplyRadioBinding(t)
    BY <2>2 DEF SetRadioUnavailable, Suspend, ApplyRadioBinding, TypeOK
  <2>3. CASE UNCHANGED bindingVars
    BY <2>3 DEF TypeOK
  <2> QED
    BY <2>1, <2>2, <2>3
    DEF RadioNext, SuspendNative, ReconcileManagedPeers, ClearPeerInterfaceHints,
        ReconcileNative, ReinitializeNative, ReinitializeFails, ReinitializeRefused
<1>h. /\ hints' \in [Peers -> Ifaces \cup {None}]
      /\ IsFiniteSet(Used(hints')) /\ Cardinality(Used(hints')) =< MaxInterfaceHints
  <2>1. CASE ClearPeerInterfaceHints(t)
    BY <1>m, <2>1, EmptyFacts DEF ClearPeerInterfaceHints
  <2>2. CASE hints' = hints
    BY <2>2 DEF TypeOK, TablesFinite
  <2> QED
    BY <2>1, <2>2
    DEF RadioNext, SetRadioUnavailable, Suspend, SuspendNative, ApplyRadioBinding,
        ReconcileManagedPeers, ReconcileNative, ReinitializeNative, ReinitializeFails,
        ReinitializeRefused, PublishBinding
<1>n. /\ native' \in [Peers -> Ifaces \cup {None}]
      /\ suspended' \in BOOLEAN /\ callback' \in BOOLEAN /\ driverUp' \in BOOLEAN
      /\ DriverControl'
  <2>1. CASE SuspendNative(t)
    <3>1. native' = Empty /\ suspended' = TRUE /\ callback' = FALSE /\ driverUp' = FALSE
      BY <2>1 DEF SuspendNative, NativeDown
    <3> QED
      BY <3>1, EmptyFacts DEF DriverControl, Empty
  <2>2. CASE ReconcileNative(t)
    BY <2>2 DEF ReconcileNative, DriverControl, TypeOK, Empty
  <2>3. CASE ReinitializeNative(t)
    BY <2>3 DEF ReinitializeNative, DriverControl
  <2>4. CASE ReinitializeFails(t)
    <3>1. native' = Empty /\ suspended' = suspended /\ callback' = FALSE /\ driverUp' = FALSE
      BY <2>4 DEF ReinitializeFails, NativeDown
    <3> QED
      BY <3>1, EmptyFacts DEF DriverControl, Empty, TypeOK
  <2>5. CASE UNCHANGED nativeVars
    BY <2>5 DEF DriverControl, Empty, TypeOK
  <2> QED
    BY <2>1, <2>2, <2>3, <2>4, <2>5
    DEF RadioNext, SetRadioUnavailable, Suspend, ApplyRadioBinding, ReconcileManagedPeers,
        ClearPeerInterfaceHints, ReinitializeRefused, PublishBinding
<1>x. TypeOK'
  BY <1>r, <1>t, <1>m, <1>u, <1>b, <1>h, <1>n DEF TypeOK
<1> QED
  BY <1>x, <1>t, <1>u, <1>h, <1>n DEF TablesFinite

\* The base invariant is inductive for every use of the transport.
LEMMA NextBase == BaseInv /\ [Next]_vars => BaseInv'
<1> SUFFICES ASSUME BaseInv, [Next]_vars PROVE BaseInv'
  OBVIOUS
<1>1. CASE UNCHANGED vars
  BY <1>1 DEF vars, nativeVars, bindingVars, threadVars, BaseInv, TypeOK, TablesFinite,
              DriverControl, MaxManagedPeers, MaxInterfaceHints, Used, Empty
<1>2. CASE Next
  BY <1>2, OwnerBase, AppBase, WorkerBase, RadioBase DEF Next
<1> QED
  BY <1>1, <1>2

\* Type correctness of the peer registry: the managed peers and the interface
\* hints never outgrow their tables, whatever overlaps and whatever fails.
THEOREM RegistryTypes == Spec => []TypeOK
<1>1. BaseInv => TypeOK
  BY DEF BaseInv
<1> QED
  BY <1>1, InitBase, NextBase, PTL DEF Spec

\* While _nativeSuspended is set, no thread has brought the driver, its receive
\* callback or a native peer back, for every number of threads, with Initialize
\* and Shutdown overlapping the other calls and the driver failing at will.
THEOREM SuspendedStaysDown == Spec => []SuspendedMeansDown
<1>1. BaseInv => SuspendedMeansDown
  BY DEF BaseInv, DriverControl, SuspendedMeansDown, TypeOK
<1> QED
  BY <1>1, InitBase, NextBase, PTL DEF Spec

-----------------------------------------------------------------------------
(* The lifecycle, when its calls overlap no other.                          *)

\* The conditions of a behaviour never change.
LEMMA CondKept ==
  ASSUME [Next]_vars
  PROVE  cond' = cond /\ (Coordinated' <=> Coordinated)
<1>1. cond' = cond
  BY DEF vars, Next, OwnerNext, AppNext, WorkerNext, RadioNext,
         InitializeNative, InitializePublish, InitializeStartWorker, InitializeFails,
         ShutdownBegin, ShutdownNative, ShutdownTables, AddPeer, EnsurePeerExists,
         EnsureAddPeer, StoreManagedPeer, ProgramPeer, ProgramPeerFails, RemovePeer,
         RemovePeerNative, RemovePeerFails, ReceiveUnicast, RememberHint, RememberNative,
         SetRadioUnavailable, Suspend, SuspendNative, ApplyRadioBinding,
         ReconcileManagedPeers, ClearPeerInterfaceHints, ReconcileNative,
         ReinitializeNative, ReinitializeFails, ReinitializeRefused, PublishBinding
<1> QED
  BY <1>1 DEF Coordinated

\* An application or a radio thread that does something finds the transport
\* published and its owner elsewhere.
LEMMA UsableWhenUsed ==
  ASSUME TypeOK, LifecycleControl, Coordinated,
         \/ \E t \in Apps : AppNext(t)
         \/ \E t \in Radios : RadioNext(t) /\ ~SetRadioUnavailable(t)
  PROVE  initialized /\ ownerPc = "idle" /\ initialized' = initialized /\ ownerPc' = ownerPc
<1>1. ~ConcurrentLifecycle
  BY DEF Coordinated, ConcurrentLifecycle
<1>2. GetIsInitialized => initialized /\ ownerPc = "idle"
  BY <1>1 DEF GetIsInitialized
<1>3. Idle.at = "idle"
  BY DEF Idle
<1>4. ASSUME NEW t \in Apps, AppNext(t)
      PROVE  initialized /\ ownerPc = "idle" /\ initialized' = initialized /\ ownerPc' = ownerPc
  <2>1. GetIsInitialized \/ app[t] # Idle
    BY <1>3, <1>4 DEF AppNext, AddPeer, EnsurePeerExists, EnsureAddPeer, StoreManagedPeer,
      ProgramPeer, ProgramPeerFails, RemovePeer, RemovePeerNative, RemovePeerFails
  <2>2. initialized' = initialized /\ ownerPc' = ownerPc
    BY <1>4 DEF AppNext, AddPeer, EnsurePeerExists, EnsureAddPeer, StoreManagedPeer,
      ProgramPeer, ProgramPeerFails, RemovePeer, RemovePeerNative, RemovePeerFails
  <2> QED
    BY <1>2, <2>1, <2>2 DEF LifecycleControl
<1>5. ASSUME NEW t \in Radios, RadioNext(t), ~SetRadioUnavailable(t)
      PROVE  initialized /\ ownerPc = "idle" /\ initialized' = initialized /\ ownerPc' = ownerPc
  <2>1. GetIsInitialized \/ radio[t] # Idle
    BY <1>3, <1>5 DEF RadioNext, Suspend, SuspendNative, ApplyRadioBinding,
      ReconcileManagedPeers, ClearPeerInterfaceHints, ReconcileNative, ReinitializeNative,
      ReinitializeFails, ReinitializeRefused, PublishBinding
  <2>2. initialized' = initialized /\ ownerPc' = ownerPc
    BY <1>5 DEF RadioNext, Suspend, SuspendNative, ApplyRadioBinding,
      ReconcileManagedPeers, ClearPeerInterfaceHints, ReconcileNative, ReinitializeNative,
      ReinitializeFails, ReinitializeRefused, PublishBinding
  <2> QED
    BY <1>2, <2>1, <2>2 DEF LifecycleControl
<1> QED
  BY <1>4, <1>5

\* Nobody is in a transport that is not usable.
LEMMA NextLifecycle == BaseInv /\ LifecycleControl /\ [Next]_vars => LifecycleControl'
<1> SUFFICES ASSUME BaseInv, LifecycleControl, [Next]_vars, Coordinated PROVE LifecycleControl'
  BY CondKept DEF LifecycleControl
<1> USE DEF BaseInv, nativeVars, bindingVars, threadVars
<1>1. CASE OwnerNext
  <2> USE DEF LifecycleControl, Fresh
  <2>1. CASE InitializeNative
    BY <2>1, CondKept DEF InitializeNative
  <2>2. CASE InitializePublish
    BY <2>2, CondKept DEF InitializePublish
  <2>3. CASE InitializeStartWorker
    BY <2>3, CondKept DEF InitializeStartWorker
  <2>4. CASE InitializeFails
    BY <2>4, CondKept DEF InitializeFails
  <2>5. CASE ShutdownBegin
    BY <2>5, CondKept DEF ShutdownBegin, Quiescent, ConcurrentLifecycle, Coordinated
  <2>6. CASE ShutdownNative
    BY <2>6, CondKept DEF ShutdownNative
  <2>7. CASE ShutdownTables
    BY <2>7, CondKept DEF ShutdownTables, Empty
  <2> QED
    BY <1>1, <2>1, <2>2, <2>3, <2>4, <2>5, <2>6, <2>7 DEF OwnerNext
<1>2. CASE \/ \E t \in Apps : AppNext(t)
           \/ \E t \in Radios : RadioNext(t) /\ ~SetRadioUnavailable(t)
  <2>1. initialized' /\ ownerPc' = "idle"
    BY <1>2, UsableWhenUsed
  <2> QED
    BY <2>1 DEF LifecycleControl, Fresh
<1>3. CASE WorkerNext \/ (\E t \in Radios : SetRadioUnavailable(t)) \/ UNCHANGED vars
  <2>1. UNCHANGED <<initialized, ownerPc, app, radio, suspended, managed>>
    BY <1>3 DEF WorkerNext, ReceiveUnicast, RememberHint, RememberNative,
                SetRadioUnavailable, vars
  <2> QED
    BY <2>1 DEF LifecycleControl, Fresh, Empty
<1> QED
  BY <1>1, <1>2, <1>3 DEF Next

-----------------------------------------------------------------------------
(* What the calls are about.                                                *)

\* Every call, and every entry of the registry, stays what a configured call made it.
LEMMA NextCalls == BaseInv /\ CallControl /\ [Next]_vars => CallControl'
<1> SUFFICES ASSUME BaseInv, CallControl, [Next]_vars PROVE CallControl'
  OBVIOUS
<1> USE DEF BaseInv, nativeVars, bindingVars, threadVars
<1> DEFINE AppOK(a, t) ==
             /\ a.at # "idle" => Owns(t, a.peer)
             /\ a.at \in {"add", "store", "program"} => Configured(a.peer, a.interface)
<1>0. Idle.at = "idle" /\ \A t \in Apps : AppOK(Idle, t)
  BY DEF Idle
<1>i. /\ \A t \in Apps : AppOK(app[t], t)
      /\ \A p \in Used(managed) : Configured(p, managed[p])
      /\ worker.at # "idle" => Configured(worker.peer, "Auto")
  BY DEF CallControl
<1>g. ASSUME \A t \in Apps : AppOK(app'[t], t),
             \A p \in Peers : managed'[p] = None \/ Configured(p, managed'[p]),
             worker'.at # "idle" => Configured(worker'.peer, "Auto")
      PROVE  CallControl'
  BY <1>g DEF CallControl, Used, Owns, Configured
<1>j. \A p \in Peers : managed[p] = None \/ Configured(p, managed[p])
  BY <1>i DEF Used
<1>e. \A p \in Peers : Empty[p] = None
  BY DEF Empty
<1>a. ASSUME NEW t \in Apps, NEW a, app' = [app EXCEPT ![t] = a], AppOK(a, t)
      PROVE  \A u \in Apps : AppOK(app'[u], u)
  <2> SUFFICES ASSUME NEW u \in Apps PROVE AppOK(app'[u], u)
    OBVIOUS
  <2> HIDE DEF AppOK
  <2>1. app'[u] = IF u = t THEN a ELSE app[u]
    BY <1>a DEF TypeOK
  <2> QED
    BY <1>a, <1>i, <2>1
<1>1. CASE OwnerNext \/ (\E t \in Radios : RadioNext(t)) \/ UNCHANGED vars
  <2>1. UNCHANGED <<app, worker>> /\ (managed' = managed \/ managed' = Empty)
    BY <1>1 DEF vars, OwnerNext, RadioNext, InitializeNative, InitializePublish,
      InitializeStartWorker, InitializeFails, ShutdownBegin, ShutdownNative, ShutdownTables,
      SetRadioUnavailable, Suspend, SuspendNative, ApplyRadioBinding, ReconcileManagedPeers,
      ClearPeerInterfaceHints, ReconcileNative, ReinitializeNative, ReinitializeFails,
      ReinitializeRefused, PublishBinding
  <2> QED
    BY <2>1, <1>g, <1>i, <1>j, <1>e
<1>2. ASSUME NEW t \in Apps, AppNext(t)
      PROVE  CallControl'
  <2>0. app[t] \in AppStates /\ worker' = worker
    BY <1>2, TypeFacts DEF AppNext, AddPeer, EnsurePeerExists, EnsureAddPeer,
      StoreManagedPeer, ProgramPeer, ProgramPeerFails, RemovePeer, RemovePeerNative,
      RemovePeerFails
  <2>1. CASE AddPeer(t) \/ EnsurePeerExists(t) \/ RemovePeer(t)
    <3>1. PICK a : app' = [app EXCEPT ![t] = a] /\ AppOK(a, t)
      <4>1. CASE AddPeer(t)
        <5>1. PICK p \in Peers, i \in Interfaces : /\ <<t, p, i>> \in AddCalls
                 /\ app' = [app EXCEPT ![t] = [at |-> "store", peer |-> p, interface |-> i]]
          BY <4>1 DEF AddPeer
        <5>2. Owns(t, p) /\ Configured(p, i)
          BY <5>1 DEF Owns, Configured
        <5>3. AppOK([at |-> "store", peer |-> p, interface |-> i], t)
          BY <5>2
        <5> HIDE DEF AppOK
        <5> QED
          BY <5>1, <5>3
      <4>2. CASE EnsurePeerExists(t)
        <5>1. PICK p \in Peers : /\ <<t, p>> \in EnsureCalls
                 /\ app' = [app EXCEPT ![t] = [at |-> "add", peer |-> p, interface |-> "Auto"]]
          BY <4>2 DEF EnsurePeerExists
        <5>2. Owns(t, p) /\ Configured(p, "Auto")
          BY <5>1 DEF Owns, Configured
        <5>3. AppOK([at |-> "add", peer |-> p, interface |-> "Auto"], t)
          BY <5>2
        <5> HIDE DEF AppOK
        <5> QED
          BY <5>1, <5>3
      <4>3. CASE RemovePeer(t)
        <5>1. PICK p \in Peers : /\ \E i \in Interfaces : <<t, p, i>> \in AddCalls
                                 /\ app' = [app EXCEPT ![t] = [at |-> "remove", peer |-> p]]
          BY <4>3 DEF RemovePeer
        <5>2. Owns(t, p)
          BY <5>1 DEF Owns
        <5>3. AppOK([at |-> "remove", peer |-> p], t)
          BY <5>2
        <5> HIDE DEF AppOK
        <5> QED
          BY <5>1, <5>3
      <4> QED
        BY <2>1, <4>1, <4>2, <4>3
    <3>2. managed' = managed
      BY <2>1 DEF AddPeer, EnsurePeerExists, RemovePeer
    <3> QED
      BY <2>0, <3>1, <3>2, <1>a, <1>g, <1>i, <1>j
  <2>2. CASE EnsureAddPeer(t)
    <3>1. AppOK([app[t] EXCEPT !.at = "store"], t)
      <4>1. LET c == [app[t] EXCEPT !.at = "store"]
            IN  c.at = "store" /\ c.peer = app[t].peer /\ c.interface = app[t].interface
        BY <2>0, <2>2, AppMove DEF EnsureAddPeer
      <4> QED
        BY <2>2, <4>1, <1>i DEF EnsureAddPeer
    <3>2. PICK a : app' = [app EXCEPT ![t] = a] /\ AppOK(a, t)
      BY <2>2, <3>1, <1>0 DEF EnsureAddPeer
    <3>3. managed' = managed
      BY <2>2 DEF EnsureAddPeer
    <3> QED
      BY <2>0, <3>2, <3>3, <1>a, <1>g, <1>i, <1>j
  <2>3. CASE StoreManagedPeer(t)
    <3>1. AppOK([app[t] EXCEPT !.at = "program"], t)
      <4>1. LET c == [app[t] EXCEPT !.at = "program"]
            IN  c.at = "program" /\ c.peer = app[t].peer /\ c.interface = app[t].interface
        BY <2>0, <2>3, AppMove DEF StoreManagedPeer
      <4> QED
        BY <2>3, <4>1, <1>i DEF StoreManagedPeer
    <3>2. PICK a : app' = [app EXCEPT ![t] = a] /\ AppOK(a, t)
      BY <2>3, <3>1, <1>0 DEF StoreManagedPeer
    <3>3. \/ managed' = managed
          \/ managed' = [managed EXCEPT ![app[t].peer] = app[t].interface]
      BY <2>3 DEF StoreManagedPeer
    <3>4. Configured(app[t].peer, app[t].interface)
      BY <1>i, <2>3 DEF StoreManagedPeer
    <3>5. \A p \in Peers : managed'[p] = None \/ Configured(p, managed'[p])
      BY <3>3, <3>4, <1>j DEF TypeOK
    <3> QED
      BY <2>0, <3>2, <3>5, <1>a, <1>g, <1>i
  <2>4. CASE ProgramPeer(t) \/ ProgramPeerFails(t) \/ RemovePeerNative(t) \/ RemovePeerFails(t)
    <3>1. app' = [app EXCEPT ![t] = Idle]
      BY <2>4 DEF ProgramPeer, ProgramPeerFails, RemovePeerNative, RemovePeerFails
    <3>2. managed' = managed \/ managed' = [managed EXCEPT ![app[t].peer] = None]
      BY <2>4 DEF ProgramPeer, ProgramPeerFails, RemovePeerNative, RemovePeerFails
    <3>3. \A p \in Peers : managed'[p] = None \/ Configured(p, managed'[p])
      BY <3>2, <1>j DEF TypeOK
    <3> QED
      BY <2>0, <3>1, <3>3, <1>0, <1>a, <1>g, <1>i
  <2> QED
    BY <1>2, <2>1, <2>2, <2>3, <2>4 DEF AppNext
<1>3. CASE WorkerNext
  <2>1. UNCHANGED <<app, managed>>
    BY <1>3 DEF WorkerNext, ReceiveUnicast, RememberHint, RememberNative
  <2>2. worker'.at # "idle" => Configured(worker'.peer, "Auto")
    <3>1. CASE ReceiveUnicast
      <4>1. PICK p \in Peers, f \in Ifaces :
              managed[p] = "Auto" /\ worker' = [at |-> "hint", peer |-> p, interface |-> f]
        BY <3>1 DEF ReceiveUnicast, IsManagedPeerAuto
      <4>2. Configured(p, "Auto")
        BY <4>1, <1>j DEF None
      <4> QED
        BY <4>1, <4>2
    <3>2. CASE RememberHint
      <4>1. worker \in Hinting
        BY TypeFacts
      <4>2. worker'.peer = worker.peer /\ worker.at # "idle"
        BY <3>2, <4>1, WorkerPlaces DEF RememberHint
      <4> QED
        BY <4>2, <1>i
    <3>3. CASE RememberNative
      BY <3>3, <1>0 DEF RememberNative
    <3> QED
      BY <1>3, <3>1, <3>2, <3>3 DEF WorkerNext
  <2> QED
    BY <2>1, <2>2, <1>g, <1>i, <1>j
<1> QED
  BY <1>1, <1>2, <1>3 DEF Next

-----------------------------------------------------------------------------
(* The driver's table and the registry, when every peer has one owner.      *)

\* Two threads at work are at work on two peers.
LEMMA OtherPeer ==
  ASSUME OneOwner, TypeOK, CallControl, NEW t \in Apps, NEW u \in Apps, t # u,
         app[t].at # "idle", app[u].at # "idle"
  PROVE  app[t].peer # app[u].peer
<1>1. app[t].peer \in Peers
  BY AppPlaces, TypeFacts
<1> QED
  BY <1>1 DEF OneOwner, CallControl

\* What AddPeer stored is still there when it comes to program it.
LEMMA NextProgramStored ==
  ASSUME OneOwner
  PROVE  BaseInv /\ LifecycleControl /\ CallControl /\ ProgramStored /\ [Next]_vars
           => ProgramStored'
<1> SUFFICES ASSUME BaseInv, LifecycleControl, CallControl, ProgramStored, [Next]_vars, Coordinated
             PROVE  \A u \in Apps : app'[u].at = "program"
                                      => managed'[app'[u].peer] = app'[u].interface
  BY CondKept DEF ProgramStored
<1> USE DEF BaseInv, nativeVars, bindingVars, threadVars
<1>0. Idle.at = "idle" /\ \A u \in Apps : app[u].at = "program"
                                           => managed[app[u].peer] = app[u].interface
  BY DEF ProgramStored, Idle
<1>1. CASE ShutdownTables
  BY <1>0, <1>1 DEF ShutdownTables, LifecycleControl
<1>2. CASE UNCHANGED <<app, managed>>
  BY <1>0, <1>2
<1>3. ASSUME NEW t \in Apps, AppNext(t), NEW u \in Apps, app'[u].at = "program"
      PROVE  managed'[app'[u].peer] = app'[u].interface
  <2>0. app[t] \in AppStates /\ app \in [Apps -> AppStates]
    BY TypeFacts DEF TypeOK
  <2>1. CASE AddPeer(t) \/ EnsurePeerExists(t) \/ EnsureAddPeer(t) \/ RemovePeer(t) \/ RemovePeerFails(t)
    <3>1. app'[t].at # "program" /\ managed' = managed
      <4>1. CASE EnsureAddPeer(t)
        <5>1. [app[t] EXCEPT !.at = "store"].at = "store"
          BY <2>0, <4>1, AppMove DEF EnsureAddPeer
        <5> QED
          BY <1>0, <2>0, <4>1, <5>1 DEF EnsureAddPeer
      <4>2. CASE AddPeer(t)
        <5>1. PICK q \in Peers, i \in Interfaces :
                app' = [app EXCEPT ![t] = [at |-> "store", peer |-> q, interface |-> i]]
          BY <4>2 DEF AddPeer
        <5> QED
          BY <2>0, <4>2, <5>1 DEF AddPeer
      <4>3. CASE EnsurePeerExists(t)
        <5>1. PICK q \in Peers :
                app' = [app EXCEPT ![t] = [at |-> "add", peer |-> q, interface |-> "Auto"]]
          BY <4>3 DEF EnsurePeerExists
        <5> QED
          BY <2>0, <4>3, <5>1 DEF EnsurePeerExists
      <4>4. CASE RemovePeer(t) \/ RemovePeerFails(t)
        BY <1>0, <2>0, <4>4 DEF RemovePeer, RemovePeerFails
      <4> QED
        BY <2>1, <4>1, <4>2, <4>3, <4>4
    <3>2. u # t => app'[u] = app[u]
      BY <2>0, <2>1 DEF AddPeer, EnsurePeerExists, EnsureAddPeer, RemovePeer, RemovePeerFails
    <3> QED
      BY <1>0, <1>3, <3>1, <3>2
  <2>2. CASE ProgramPeer(t)
    BY <1>0, <1>3, <2>0, <2>2 DEF ProgramPeer
  <2>3. CASE ProgramPeerFails(t) \/ RemovePeerNative(t)
    <3>1. /\ managed' = [managed EXCEPT ![app[t].peer] = None]
          /\ app' = [app EXCEPT ![t] = Idle] /\ app[t].at # "idle"
      BY <2>3 DEF ProgramPeerFails, RemovePeerNative
    <3>2. u # t /\ app'[u] = app[u]
      BY <1>0, <1>3, <2>0, <3>1
    <3>3. app[u].peer # app[t].peer
      BY <1>3, <3>1, <3>2, OtherPeer
    <3> QED
      BY <1>0, <1>3, <3>1, <3>2, <3>3 DEF TypeOK
  <2>4. CASE StoreManagedPeer(t)
    <3>1. app[t].at # "idle" /\ app[t].peer \in Peers
      BY <2>0, <2>4, AppPlaces DEF StoreManagedPeer
    <3>2. CASE u = t
      <4>1. /\ app'[t] = [app[t] EXCEPT !.at = "program"]
            /\ managed' = [managed EXCEPT ![app[t].peer] = app[t].interface]
        BY <1>0, <1>3, <2>0, <2>4, <3>2 DEF StoreManagedPeer
      <4>2. app'[t].peer = app[t].peer /\ app'[t].interface = app[t].interface
        <5>1. LET c == [app[t] EXCEPT !.at = "program"]
              IN  c.peer = app[t].peer /\ c.interface = app[t].interface
          BY <2>0, <2>4, AppMove DEF StoreManagedPeer
        <5> QED
          BY <4>1, <5>1
      <4> QED
        BY <3>1, <3>2, <4>1, <4>2 DEF TypeOK
    <3>3. CASE u # t
      <4>1. app'[u] = app[u]
        BY <2>0, <2>4, <3>3 DEF StoreManagedPeer
      <4>2. app[u].peer # app[t].peer
        BY <1>3, <3>1, <3>3, <4>1, OtherPeer
      <4>3. managed'[app[u].peer] = managed[app[u].peer]
        BY <2>4, <4>2 DEF StoreManagedPeer, TypeOK
      <4> QED
        BY <1>0, <1>3, <4>1, <4>3
    <3> QED
      BY <3>2, <3>3
  <2> QED
    BY <1>3, <2>1, <2>2, <2>3, <2>4 DEF AppNext
<1>4. (OwnerNext /\ ~ShutdownTables) \/ WorkerNext \/ (\E t \in Radios : RadioNext(t))
        \/ UNCHANGED vars => UNCHANGED <<app, managed>>
  BY DEF vars, OwnerNext, WorkerNext, RadioNext, InitializeNative, InitializePublish,
    InitializeStartWorker, InitializeFails, ShutdownBegin, ShutdownNative, ReceiveUnicast,
    RememberHint, RememberNative, SetRadioUnavailable, Suspend, SuspendNative,
    ApplyRadioBinding, ReconcileManagedPeers, ClearPeerInterfaceHints, ReconcileNative,
    ReinitializeNative, ReinitializeFails, ReinitializeRefused, PublishBinding
<1> QED
  BY <1>1, <1>2, <1>3, <1>4 DEF Next

\* A reconciliation writes only managed peers, each where it resolves to.
LEMMA ReconciledFacts ==
  ASSUME NEW table, NEW after, NEW ok, Reconciled(table, after, ok)
  PROVE  /\ \A p \in Peers : \/ after[p] = table[p]
                             \/ p \in Used(managed) /\ after[p] \in ResolvePeerInterface(p, managed[p])
         /\ ok => \A p \in Used(managed) : after[p] \in ResolvePeerInterface(p, managed[p])
<1>1. PICK failed \in SUBSET Used(managed) :
        /\ \A p \in Peers :
             IF p \in Used(managed) \ failed
               THEN after[p] \in ResolvePeerInterface(p, managed[p])
               ELSE after[p] = table[p]
        /\ ok = (failed = {})
  BY DEF Reconciled
<1>2. Used(managed) \subseteq Peers
  BY DEF Used
<1> QED
  BY <1>1, <1>2

\* The driver's entry of this peer was written from the registry.
Written(p) == /\ p \in Used(managed) /\ managed' = managed
              /\ native'[p] \in ResolvePeerInterface(p, managed[p])

\* What a step can do to the driver's entry of a peer.
LEMMA NativeSteps ==
  ASSUME BaseInv, ProgramStored, Coordinated, [Next]_vars, NEW p \in Peers
  PROVE  \/ native'[p] \in {None, native[p]}
         \/ worker.at = "native" /\ worker.peer = p /\ native[p] # None /\ UNCHANGED <<managed, app>>
         \/ Written(p)
<1> USE DEF BaseInv, nativeVars, bindingVars, threadVars
<1>e. Empty[p] = None
  BY DEF Empty
<1>1. CASE native' = native \/ native' = Empty
  BY <1>1, <1>e
<1>2. ASSUME NEW t \in Apps, ProgramPeer(t)
      PROVE  native'[p] \in {None, native[p]} \/ Written(p)
  <2>1. /\ app[t].peer \in Peers /\ managed[app[t].peer] = app[t].interface
        /\ app[t].interface # None /\ managed' = managed
    BY <1>2, TypeFacts, AppPlaces, InterfaceFacts DEF ProgramPeer, ProgramStored
  <2>2. CASE suspended
    BY <1>2, <2>2 DEF ProgramPeer
  <2>3. CASE ~suspended
    <3>1. PICK f \in ResolvePeerInterface(app[t].peer, app[t].interface) :
            native' = [native EXCEPT ![app[t].peer] = f]
      BY <1>2, <2>3 DEF ProgramPeer
    <3> QED
      BY <2>1, <3>1 DEF Written, Used, TypeOK
  <2> QED
    BY <2>2, <2>3
<1>3. ASSUME NEW t \in Apps, RemovePeerNative(t)
      PROVE  native'[p] \in {None, native[p]}
  BY <1>3 DEF RemovePeerNative, TypeOK
<1>4. CASE RememberNative
  BY <1>4 DEF RememberNative, TypeOK
<1>5. ASSUME NEW t \in Radios, ReconcileNative(t) \/ ReinitializeNative(t)
      PROVE  native'[p] \in {None, native[p]} \/ Written(p)
  <2>1. managed' = managed
    BY <1>5 DEF ReconcileNative, ReinitializeNative
  <2>2. CASE native' = native
    BY <2>2
  <2>3. ASSUME NEW ok, Reconciled(native, native', ok) \/ Reconciled(Empty, native', ok)
        PROVE  native'[p] \in {None, native[p]} \/ Written(p)
    BY <2>1, <2>3, <1>e, ReconciledFacts DEF Written
  <2> QED
    BY <1>5, <2>2, <2>3 DEF ReconcileNative, ReinitializeNative
<1>6. CASE OwnerNext \/ UNCHANGED vars
  BY <1>1, <1>6 DEF vars, OwnerNext, InitializeNative, InitializePublish,
    InitializeStartWorker, InitializeFails, ShutdownBegin, ShutdownNative, ShutdownTables,
    NativeDown
<1>7. ASSUME NEW t \in Apps, AppNext(t), ~ProgramPeer(t), ~RemovePeerNative(t)
      PROVE  native' = native
  BY <1>7 DEF AppNext, AddPeer, EnsurePeerExists, EnsureAddPeer, StoreManagedPeer,
      ProgramPeerFails, RemovePeer, RemovePeerFails
<1>8. ASSUME NEW t \in Radios, RadioNext(t), ~ReconcileNative(t), ~ReinitializeNative(t)
      PROVE  native' = native \/ native' = Empty
  BY <1>8 DEF RadioNext, SetRadioUnavailable, Suspend, SuspendNative, ApplyRadioBinding,
      ReconcileManagedPeers, ClearPeerInterfaceHints, ReinitializeFails,
      ReinitializeRefused, PublishBinding, NativeDown
<1>9. CASE ReceiveUnicast \/ RememberHint
  BY <1>1, <1>9 DEF ReceiveUnicast, RememberHint
<1> QED
  BY <1>1, <1>2, <1>3, <1>4, <1>5, <1>6, <1>7, <1>8, <1>9 DEF Next, WorkerNext

\* What a step can do to a peer's record: it is kept, or dropped together with the
\* driver's entry, or replaced by an AddPeer that goes on to program it.
LEMMA ManagedSteps ==
  ASSUME BaseInv, LifecycleControl, Coordinated, [Next]_vars, NEW p \in Peers
  PROVE  \/ managed'[p] = managed[p]
         \/ managed'[p] = None /\ native'[p] = None
         \/ Programming(p)' /\ managed'[p] # None /\ native' = native
<1> USE DEF BaseInv, nativeVars, bindingVars, threadVars
<1>e. Empty[p] = None
  BY DEF Empty
<1>1. CASE managed' = managed
  BY <1>1
<1>2. CASE ShutdownTables
  <2>1. native' = Empty /\ managed' = Empty
    BY <1>2 DEF ShutdownTables, LifecycleControl, DriverControl
  <2> QED
    BY <2>1, <1>e
<1>3. ASSUME NEW t \in Apps, StoreManagedPeer(t)
      PROVE  managed'[p] = managed[p] \/ (Programming(p)' /\ managed'[p] # None /\ native' = native)
  <2>0. app[t] \in AppStates /\ app \in [Apps -> AppStates]
    BY TypeFacts DEF TypeOK
  <2>1. app[t].at = "store" /\ app[t].interface # None
    BY <1>3, <2>0, AppPlaces, InterfaceFacts DEF StoreManagedPeer
  <2>2. CASE managed' # managed /\ app[t].peer = p
    <3>1. app'[t] = [app[t] EXCEPT !.at = "program"]
      BY <1>3, <2>0, <2>2 DEF StoreManagedPeer
    <3>2. app'[t].at = "program" /\ app'[t].peer = p
      BY <2>0, <2>1, <2>2, <3>1, AppMove
    <3> QED
      BY <1>3, <2>1, <2>2, <3>2 DEF StoreManagedPeer, Programming, TypeOK
  <2>3. CASE managed' = managed \/ app[t].peer # p
    BY <1>3, <2>3 DEF StoreManagedPeer, TypeOK
  <2> QED
    BY <2>2, <2>3
<1>4. ASSUME NEW t \in Apps, ProgramPeerFails(t)
      PROVE  managed'[p] = managed[p] \/ (managed'[p] = None /\ native'[p] = None)
  <2>1. /\ managed' = [managed EXCEPT ![app[t].peer] = None] /\ native' = native
    BY <1>4 DEF ProgramPeerFails
  <2>2. native[app[t].peer] = None \/ app[t].peer # p
    <3>1. CASE driverUp
      BY <1>4, <3>1 DEF ProgramPeerFails, ProgramMayFail, NativeFaults, Coordinated
    <3>2. CASE ~driverUp
      BY <1>e, <3>2 DEF DriverControl
    <3> QED
      BY <3>1, <3>2
  <2> QED
    BY <2>1, <2>2 DEF TypeOK
<1>5. ASSUME NEW t \in Apps, RemovePeerNative(t)
      PROVE  managed'[p] = managed[p] \/ (managed'[p] = None /\ native'[p] = None)
  BY <1>5, <1>e DEF RemovePeerNative, DriverControl, TypeOK
<1>6. ASSUME NEW t \in Apps, AppNext(t), ~StoreManagedPeer(t), ~ProgramPeerFails(t),
             ~RemovePeerNative(t)
      PROVE  managed' = managed
  BY <1>6 DEF AppNext, AddPeer, EnsurePeerExists, EnsureAddPeer, ProgramPeer,
      RemovePeer, RemovePeerFails
<1>7. (OwnerNext /\ ~ShutdownTables) \/ WorkerNext \/ (\E t \in Radios : RadioNext(t))
        \/ UNCHANGED vars => managed' = managed
  BY DEF vars, OwnerNext, WorkerNext, RadioNext, InitializeNative, InitializePublish,
    InitializeStartWorker, InitializeFails, ShutdownBegin, ShutdownNative, ReceiveUnicast,
    RememberHint, RememberNative, SetRadioUnavailable, Suspend, SuspendNative,
    ApplyRadioBinding, ReconcileManagedPeers, ClearPeerInterfaceHints, ReconcileNative,
    ReinitializeNative, ReinitializeFails, ReinitializeRefused, PublishBinding
<1> QED
  BY <1>1, <1>2, <1>3, <1>4, <1>5, <1>6, <1>7 DEF Next

\* No step leaves the driver with a peer that the registry forgot.
LEMMA NextNativeManaged ==
  ASSUME BaseInv, LifecycleControl, ProgramStored, NativeManaged, [Next]_vars
  PROVE  NativeManaged'
<1> SUFFICES ASSUME Coordinated, NEW p \in Peers, native'[p] # None
             PROVE  managed'[p] # None
  BY CondKept DEF NativeManaged, Used
<1>1. native[p] # None => managed[p] # None
  BY DEF NativeManaged, Used
<1>2. \/ native'[p] = native[p]
      \/ native[p] # None /\ managed' = managed
      \/ managed[p] # None /\ managed' = managed
  BY NativeSteps DEF Written, Used
<1>3. managed'[p] = managed[p] \/ managed'[p] # None
  BY ManagedSteps
<1> QED
  BY <1>1, <1>2, <1>3

\* An AddPeer that ends has programmed the peer, forgotten it, or found the radio
\* suspended.
LEMMA ProgrammingSteps ==
  ASSUME BaseInv, ProgramStored, Coordinated, [Next]_vars, NEW p \in Peers,
         Programming(p), ~Programming(p)'
  PROVE  managed'[p] = None \/ native'[p] = None \/ Written(p)
<1> USE DEF BaseInv, nativeVars, bindingVars, threadVars
<1>1. PICK t \in Apps : app[t].at = "program" /\ app[t].peer = p
  BY DEF Programming
<1>2. app'[t] # app[t]
  BY <1>1 DEF Programming
<1>3. app[t].interface \in Interfaces /\ managed[p] = app[t].interface /\ managed[p] # None
  BY <1>1, TypeFacts, AppPlaces, InterfaceFacts DEF ProgramStored
<1>4. CASE ProgramPeer(t)
  <2>1. CASE suspended
    BY <1>4, <2>1 DEF ProgramPeer, DriverControl, Empty
  <2>2. CASE ~suspended
    <3>1. PICK f \in ResolvePeerInterface(p, managed[p]) : native' = [native EXCEPT ![p] = f]
      BY <1>1, <1>3, <1>4, <2>2 DEF ProgramPeer
    <3> QED
      BY <1>3, <1>4, <3>1 DEF ProgramPeer, Written, Used, TypeOK
  <2> QED
    BY <2>1, <2>2
<1>5. CASE ProgramPeerFails(t)
  BY <1>1, <1>5 DEF ProgramPeerFails, TypeOK
<1>6. ASSUME NEW u \in Apps, AppNext(u), ~(u = t /\ (ProgramPeer(t) \/ ProgramPeerFails(t)))
      PROVE  FALSE
  <2>1. CASE u = t
    <3>1. app[t].at = "program" /\ app[t] # Idle
      BY <1>1 DEF Idle
    <3> QED
      BY <1>6, <2>1, <3>1
      DEF AppNext, AddPeer, EnsurePeerExists, EnsureAddPeer, StoreManagedPeer,
          RemovePeer, RemovePeerNative, RemovePeerFails
  <2>2. CASE u # t
    <3>1. app'[t] = app[t]
      BY <1>6, <2>2
      DEF AppNext, AddPeer, EnsurePeerExists, EnsureAddPeer, StoreManagedPeer, ProgramPeer,
          ProgramPeerFails, RemovePeer, RemovePeerNative, RemovePeerFails, TypeOK
    <3> QED
      BY <1>2, <3>1
  <2> QED
    BY <2>1, <2>2
<1>7. OwnerNext \/ WorkerNext \/ (\E r \in Radios : RadioNext(r)) \/ UNCHANGED vars
        => app' = app
  BY DEF vars, OwnerNext, WorkerNext, RadioNext, InitializeNative, InitializePublish,
    InitializeStartWorker, InitializeFails, ShutdownBegin, ShutdownNative, ShutdownTables,
    ReceiveUnicast, RememberHint, RememberNative, SetRadioUnavailable, Suspend,
    SuspendNative, ApplyRadioBinding, ReconcileManagedPeers, ClearPeerInterfaceHints,
    ReconcileNative, ReinitializeNative, ReinitializeFails, ReinitializeRefused,
    PublishBinding
<1> QED
  BY <1>2, <1>4, <1>5, <1>6, <1>7 DEF Next

\* No step moves a pinned peer.
LEMMA NextNativePinned ==
  ASSUME PinnedOrDynamic, BaseInv, LifecycleControl, CallControl, ProgramStored, NativePinned,
         [Next]_vars
  PROVE  NativePinned'
<1> SUFFICES ASSUME Coordinated, NEW p \in Peers, native'[p] # None,
                    managed'[p] \in Ifaces, ~Programming(p)'
             PROVE  native'[p] = managed'[p]
  BY CondKept DEF NativePinned, Used
<1> USE DEF BaseInv
<1>0. managed'[p] # None
  BY InterfaceFacts
<1>1. managed'[p] = managed[p]
  BY <1>0, ManagedSteps
<1>2. CASE Written(p)
  BY <1>1, <1>2, InterfaceFacts, ResolveFacts DEF Written
<1>3. CASE worker.at = "native" /\ worker.peer = p
  <2>1. Configured(p, "Auto") /\ Configured(p, managed[p])
    BY <1>0, <1>1, <1>3 DEF CallControl, Used
  <2> QED
    BY <1>1, <2>1 DEF PinnedOrDynamic
<1>4. CASE native'[p] = native[p]
  <2>1. CASE Programming(p)
    BY <1>0, <1>2, <2>1, ProgrammingSteps
  <2>2. CASE ~Programming(p)
    BY <1>1, <1>4, <2>2 DEF NativePinned, Used
  <2> QED
    BY <2>1, <2>2
<1> QED
  BY <1>2, <1>3, <1>4, NativeSteps

\* A transport that was just constructed has no call under way and no peer.
LEMMA InitControl ==
  Init => /\ BaseInv /\ LifecycleControl /\ CallControl /\ ProgramStored
          /\ NativeManaged /\ NativePinned /\ RadioControl
<1> SUFFICES ASSUME Init
             PROVE  /\ BaseInv /\ LifecycleControl /\ CallControl /\ ProgramStored
                    /\ NativeManaged /\ NativePinned /\ RadioControl
  OBVIOUS
<1>1. /\ Idle.at = "idle" /\ Used(managed) = {} /\ Used(native) = {}
      /\ \A t \in Apps : app[t].at = "idle"
      /\ \A t \in Radios : radio[t].at = "idle"
      /\ worker.at = "idle"
  BY EmptyFacts DEF Init, Idle
<1>2. LifecycleControl
  BY DEF Init, LifecycleControl, Fresh
<1>3. CallControl /\ ProgramStored
  BY <1>1 DEF CallControl, ProgramStored
<1>4. NativeManaged /\ NativePinned
  BY <1>1 DEF NativeManaged, NativePinned
<1>5. RadioControl
  BY <1>1 DEF Init, RadioControl
<1> QED
  BY <1>2, <1>3, <1>4, <1>5, InitBase

\* The driver holds no peer that the registry does not know, for every set of
\* peers, applications and radio threads, however AddPeer, RemovePeer, received
\* frames and failing rebuilds interleave, if every peer has one owner.
THEOREM NoOrphans ==
  ASSUME OneOwner
  PROVE  Spec => []NoOrphanPeer
<1> DEFINE I == BaseInv /\ LifecycleControl /\ CallControl /\ ProgramStored /\ NativeManaged
<1>1. Init => I
  BY InitControl
<1>2. I /\ [Next]_vars => I'
  BY NextBase, NextLifecycle, NextCalls, NextProgramStored, NextNativeManaged
<1>3. I => NoOrphanPeer
  BY DEF NativeManaged, NoOrphanPeer
<1> HIDE DEF I
<1> QED
  BY <1>1, <1>2, <1>3, PTL DEF Spec

\* README: "Explicit Station and AccessPoint peers never silently migrate", for
\* every set of peers, applications and radio threads, if every peer has one owner
\* that uses it either pinned or dynamically.
THEOREM PinnedStayPinned ==
  ASSUME OneOwner, PinnedOrDynamic
  PROVE  Spec => []ExplicitPeersPinned
<1> DEFINE I == BaseInv /\ LifecycleControl /\ CallControl /\ ProgramStored /\ NativePinned
<1>1. Init => I
  BY InitControl
<1>2. I /\ [Next]_vars => I'
  BY NextBase, NextLifecycle, NextCalls, NextProgramStored, NextNativePinned
<1>3. I => ExplicitPeersPinned
  BY DEF NativePinned, ExplicitPeersPinned
<1> HIDE DEF I
<1> QED
  BY <1>1, <1>2, <1>3, PTL DEF Spec

-----------------------------------------------------------------------------
(* The published binding, when one thread drives the radio.                 *)

\* The steps of the applications keep a published binding backed: AddPeer stores
\* before it programs, and RemovePeer and a failed AddPeer forget the record too.
LEMMA AppBacked ==
  ASSUME BaseInv, Backed, NEW t \in Apps, AppNext(t)
  PROVE  Backed'
<1> USE DEF BaseInv, nativeVars, bindingVars, threadVars
<1>0. app[t] \in AppStates /\ app \in [Apps -> AppStates]
  BY TypeFacts DEF TypeOK
<1>s. ~suspended /\ ~suspended'
  BY DEF Backed, AppNext, AddPeer, EnsurePeerExists, EnsureAddPeer, StoreManagedPeer,
      ProgramPeer, ProgramPeerFails, RemovePeer, RemovePeerNative, RemovePeerFails
<1> SUFFICES ASSUME NEW p \in Peers, managed'[p] # None
             PROVE  native'[p] # None \/ Programming(p)'
  BY <1>s DEF Backed, Used
<1>b. managed[p] # None => native[p] # None \/ Programming(p)
  BY DEF Backed, Used
<1>k. ASSUME Programming(p), ~(app[t].at = "program" /\ app[t].peer = p)
      PROVE  Programming(p)'
  <2>1. PICK u \in Apps : app[u].at = "program" /\ app[u].peer = p
    BY <1>k DEF Programming
  <2>2. u # t
    BY <1>k, <2>1
  <2>3. app'[u] = app[u]
    BY <1>0, <2>2
    DEF AppNext, AddPeer, EnsurePeerExists, EnsureAddPeer, StoreManagedPeer, ProgramPeer,
        ProgramPeerFails, RemovePeer, RemovePeerNative, RemovePeerFails
  <2> QED
    BY <2>1, <2>3 DEF Programming
<1>1. CASE StoreManagedPeer(t)
  <2>1. native' = native /\ app[t].at = "store"
    BY <1>1 DEF StoreManagedPeer
  <2>2. CASE managed'[p] = managed[p]
    BY <1>b, <1>k, <2>1, <2>2
  <2>3. CASE managed'[p] # managed[p]
    <3>1. app[t].peer = p /\ app'[t] = [app[t] EXCEPT !.at = "program"]
      BY <1>0, <1>1, <2>3 DEF StoreManagedPeer, TypeOK
    <3>2. LET c == [app[t] EXCEPT !.at = "program"] IN c.at = "program" /\ c.peer = app[t].peer
      BY <1>0, <2>1, AppMove
    <3> QED
      BY <3>1, <3>2 DEF Programming
  <2> QED
    BY <2>2, <2>3
<1>2. CASE ProgramPeer(t)
  <2>1. /\ app[t].at = "program" /\ app[t].peer \in Peers /\ app[t].interface \in Interfaces
        /\ managed' = managed
    BY <1>0, <1>2, AppPlaces DEF ProgramPeer
  <2>2. PICK f \in ResolvePeerInterface(app[t].peer, app[t].interface) :
          native' = [native EXCEPT ![app[t].peer] = f]
    BY <1>2, <1>s DEF ProgramPeer
  <2>3. f # None
    BY <2>1, ResolveFacts, InterfaceFacts
  <2> QED
    BY <1>b, <1>k, <2>1, <2>2, <2>3 DEF TypeOK
<1>3. CASE ProgramPeerFails(t) \/ RemovePeerNative(t)
  <2>1. /\ managed' = [managed EXCEPT ![app[t].peer] = None]
        /\ native' = native \/ native' = [native EXCEPT ![app[t].peer] = None]
    BY <1>3 DEF ProgramPeerFails, RemovePeerNative
  <2>2. app[t].peer # p /\ managed[p] # None /\ native'[p] = native[p]
    BY <2>1 DEF TypeOK
  <2> QED
    BY <1>b, <1>k, <2>2
<1>4. CASE AddPeer(t) \/ EnsurePeerExists(t) \/ EnsureAddPeer(t) \/ RemovePeer(t) \/ RemovePeerFails(t)
  <2>1. app[t].at # "program" /\ UNCHANGED <<managed, native>>
    BY <1>4 DEF AddPeer, EnsurePeerExists, EnsureAddPeer, RemovePeer, RemovePeerFails, Idle
  <2> QED
    BY <1>b, <1>k, <2>1
<1> QED
  BY <1>1, <1>2, <1>3, <1>4 DEF AppNext

\* A reconciliation that reports success leaves every managed peer programmed.
LEMMA ReconciledBacked ==
  ASSUME TypeOK, NEW table, NEW ok, ok = TRUE, Reconciled(table, native', ok),
         ~suspended', managed' = managed
  PROVE  Backed'
<1> SUFFICES ASSUME NEW p \in Peers, managed[p] # None
             PROVE  native'[p] # None
  BY DEF Backed, Used
<1>1. native'[p] \in ResolvePeerInterface(p, managed[p])
  BY ReconciledFacts DEF Used
<1>2. managed[p] \in Interfaces
  BY DEF TypeOK
<1> QED
  BY <1>1, <1>2, ResolveFacts, InterfaceFacts

\* The binding is published as available only when the driver backs it, and it is
\* withdrawn before the driver is touched.
LEMMA NextRadio ==
  ASSUME OneRadio, BaseInv, LifecycleControl, RadioControl, [Next]_vars
  PROVE  RadioControl'
<1> DEFINE A == \A t \in Radios : radio[t].at # "idle" => ~available
           B == \A t \in Radios : radio[t].at \in {"hints", "native"} => radio[t].then = "publish"
           C == initialized /\ (available \/ AboutToPublish) => Backed
<1> SUFFICES ASSUME Coordinated PROVE A' /\ B' /\ C'
  BY CondKept DEF RadioControl
<1> USE DEF BaseInv, nativeVars, bindingVars, threadVars
<1>0. A /\ B /\ C /\ Idle.at = "idle"
  BY DEF RadioControl, Idle
<1>1. CASE OwnerNext
  <2>1. radio' = radio
    BY <1>1 DEF OwnerNext, InitializeNative, InitializePublish, InitializeStartWorker,
      InitializeFails, ShutdownBegin, ShutdownNative, ShutdownTables
  <2>2. CASE InitializePublish
    <3>1. (\A t \in Radios : radio[t].at = "idle") /\ Backed'
      BY <2>2, <1>0, EmptyFacts DEF InitializePublish, LifecycleControl, Fresh, Backed, Used
    <3> QED
      BY <2>1, <3>1
  <2>3. CASE InitializeStartWorker
    BY <1>0, <2>1, <2>3 DEF InitializeStartWorker, AboutToPublish, Backed, Used, Programming
  <2>4. CASE InitializeNative \/ InitializeFails \/ ShutdownBegin \/ ShutdownNative \/ ShutdownTables
    <3>1. ~initialized' /\ (available' = available \/ ~available')
      BY <2>4 DEF InitializeNative, InitializeFails, ShutdownBegin, ShutdownNative,
                  ShutdownTables, LifecycleControl
    <3> QED
      BY <1>0, <2>1, <3>1
  <2> QED
    BY <1>1, <2>2, <2>3, <2>4 DEF OwnerNext
<1>2. ASSUME NEW t \in Apps, AppNext(t)
      PROVE  A' /\ B' /\ C'
  <2>1. UNCHANGED <<radio, available, initialized>>
    BY <1>2 DEF AppNext, AddPeer, EnsurePeerExists, EnsureAddPeer, StoreManagedPeer,
      ProgramPeer, ProgramPeerFails, RemovePeer, RemovePeerNative, RemovePeerFails
  <2>2. Backed => Backed'
    BY <1>2, AppBacked
  <2> QED
    BY <1>0, <2>1, <2>2 DEF AboutToPublish
<1>3. CASE WorkerNext \/ UNCHANGED vars
  <2>1. UNCHANGED <<radio, available, initialized, managed, app, suspended>>
    BY <1>3 DEF vars, WorkerNext, ReceiveUnicast, RememberHint, RememberNative
  <2>2. \A p \in Peers : native[p] # None => native'[p] # None
    <3>1. CASE native' = native
      BY <3>1
    <3>2. CASE RememberNative
      <4>1. worker.interface # None
        BY <3>2, TypeFacts, WorkerPlaces, InterfaceFacts DEF RememberNative
      <4> QED
        BY <3>2, <4>1 DEF RememberNative, TypeOK
    <3> QED
      BY <1>3, <3>1, <3>2 DEF vars, WorkerNext, ReceiveUnicast, RememberHint
  <2>3. Backed => Backed'
    BY <2>1, <2>2 DEF Backed, Used, Programming
  <2> QED
    BY <1>0, <2>1, <2>3 DEF AboutToPublish
<1>4. ASSUME NEW t \in Radios, RadioNext(t)
      PROVE  A' /\ B' /\ C'
  <2>0. radio[t] \in RadioStates /\ radio \in [Radios -> RadioStates] /\ \A u \in Radios : u = t
    BY TypeFacts DEF TypeOK, OneRadio
  <2>1. CASE SetRadioUnavailable(t)
    <3>1. ~available' /\ radio' = radio /\ radio[t].at = "idle"
      BY <1>0, <2>1 DEF SetRadioUnavailable
    <3> QED
      BY <2>0, <3>1 DEF AboutToPublish
  <2>2. CASE Suspend(t)
    <3>1. ~available' /\ radio'[t].at = "suspend"
      BY <2>0, <2>2 DEF Suspend
    <3> QED
      BY <2>0, <3>1 DEF AboutToPublish
  <2>3. CASE SuspendNative(t)
    <3>1. ~available' /\ radio'[t].at = "idle"
      BY <1>0, <2>0, <2>3 DEF SuspendNative
    <3> QED
      BY <2>0, <3>1 DEF AboutToPublish
  <2>4. CASE ApplyRadioBinding(t)
    <3>1. ~available' /\ radio'[t].at = "hints" /\ radio'[t].then = "publish"
      BY <2>0, <2>4 DEF ApplyRadioBinding
    <3> QED
      BY <2>0, <3>1 DEF AboutToPublish
  <2>5. ~ReconcileManagedPeers(t)
    BY DEF ReconcileManagedPeers, Coordinated, RadioCalls
  <2>6. CASE ClearPeerInterfaceHints(t)
    <3>1. ~available' /\ radio[t].then = "publish" /\ radio[t].at = "hints"
      BY <1>0, <2>6 DEF ClearPeerInterfaceHints
    <3>2. radio[t] \in [at : {"hints", "native"}, then : {"publish"}, interface : Interfaces,
                        available : BOOLEAN, reinit : BOOLEAN]
      BY <2>0, <3>1, RadioPlaces DEF RadioStates, Idle
    <3>3. radio'[t] = [radio[t] EXCEPT !.at = "native"]
      BY <2>0, <2>6 DEF ClearPeerInterfaceHints
    <3>4. radio'[t].at = "native" /\ radio'[t].then = "publish"
      BY <3>2, <3>3
    <3> QED
      BY <2>0, <3>1, <3>4 DEF AboutToPublish
  <2>7. ASSUME NEW ok \in BOOLEAN, radio[t].at = "native", LeaveNative(t, ok), available' = available,
               ok => Backed'
        PROVE  A' /\ B' /\ C'
    <3>1. /\ radio'[t].at \in {"idle", "publish"}
          /\ radio'[t].at = "publish" => radio'[t].available = (radio[t].available /\ ok)
      BY <2>7, LeaveNativeFacts
    <3>2. ~available'
      BY <1>0, <2>7
    <3>3. AboutToPublish' => Backed'
      BY <2>0, <2>7, <3>1 DEF AboutToPublish
    <3> QED
      BY <2>0, <3>1, <3>2, <3>3
  <2>8. CASE ReconcileNative(t)
    <3>1. PICK ok \in BOOLEAN :
            /\ IF ~suspended /\ driverUp
                 THEN Reconciled(native, native', ok)
                 ELSE ok = (~suspended /\ Used(managed) = {})
            /\ LeaveNative(t, ok)
      BY <2>8 DEF ReconcileNative
    <3>2. UNCHANGED <<available, suspended, managed>> /\ radio[t].at = "native"
      BY <2>8 DEF ReconcileNative
    <3>3. ok => Backed'
      <4>1. CASE ~suspended /\ driverUp
        BY <3>1, <3>2, <4>1, ReconciledBacked
      <4>2. CASE ~(~suspended /\ driverUp)
        BY <3>1, <3>2, <4>2 DEF Backed, Used
      <4> QED
        BY <4>1, <4>2
    <3> QED
      BY <2>7, <3>1, <3>2, <3>3
  <2>9. CASE ReinitializeNative(t)
    <3>1. PICK ok \in BOOLEAN : Reconciled(Empty, native', ok) /\ LeaveNative(t, ok)
      BY <2>9 DEF ReinitializeNative
    <3>2. UNCHANGED <<available, managed>> /\ ~suspended' /\ radio[t].at = "native"
      BY <2>9 DEF ReinitializeNative
    <3>3. ok => Backed'
      BY <3>1, <3>2, ReconciledBacked
    <3> QED
      BY <2>7, <3>1, <3>2, <3>3
  <2>10. CASE ReinitializeFails(t) \/ ReinitializeRefused(t)
    <3>1. radio[t].at = "native" /\ LeaveNative(t, FALSE) /\ available' = available
      BY <2>10 DEF ReinitializeFails, ReinitializeRefused
    <3> QED
      BY <2>7, <3>1
  <2>11. CASE PublishBinding(t)
    <3>1. /\ available' = radio[t].available /\ radio'[t].at = "idle"
          /\ radio[t].at = "publish"
          /\ UNCHANGED <<initialized, suspended, native, managed, app>>
      BY <1>0, <2>0, <2>11 DEF PublishBinding
    <3>2. available' => AboutToPublish
      BY <3>1 DEF AboutToPublish
    <3>3. Backed => Backed'
      BY <3>1 DEF Backed, Used, Programming
    <3> QED
      BY <1>0, <2>0, <3>1, <3>2, <3>3 DEF AboutToPublish
  <2> QED
    BY <1>4, <2>1, <2>2, <2>3, <2>4, <2>5, <2>6, <2>8, <2>9, <2>10, <2>11 DEF RadioNext
<1> QED
  BY <1>1, <1>2, <1>3, <1>4 DEF Next

\* A published binding that says Available is backed by the driver, however many
\* rebuilds failed half-way before it, for every set of peers and applications, if
\* one thread drives the radio (the coordinator, whose calls Coordinated admits).
THEOREM AvailableIsBacked ==
  ASSUME OneRadio
  PROVE  Spec => []AvailableMeansProgrammed
<1> DEFINE I == BaseInv /\ LifecycleControl /\ RadioControl
<1>1. Init => I
  BY InitControl
<1>2. I /\ [Next]_vars => I'
  BY NextBase, NextLifecycle, NextRadio
<1>3. I => AvailableMeansProgrammed
  <2> SUFFICES ASSUME I, Coordinated, initialized, available, NEW p \in Peers, managed[p] # None
               PROVE  (native[p] # None /\ callback /\ ~suspended) \/ Programming(p)
    BY DEF AvailableMeansProgrammed, Used
  <2>1. ~suspended /\ (native[p] # None \/ Programming(p))
    BY DEF RadioControl, Backed, Used
  <2>2. native[p] # None => callback
    BY DEF BaseInv, DriverControl, TypeOK, Empty
  <2> QED
    BY <2>1, <2>2
<1> HIDE DEF I
<1> QED
  BY <1>1, <1>2, <1>3, PTL DEF Spec
=============================================================================
