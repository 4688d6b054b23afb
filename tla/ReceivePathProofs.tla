-------------------------- MODULE ReceivePathProofs --------------------------
(***************************************************************************)
(* The receive path for every number of clients, every queue length and      *)
(* every table size: the unlocked _receiveQueue is there whenever it is used, *)
(* an unregistered handler is called at most once more, and the path is a     *)
(* bounded FIFO.  The first and the last rest on UnregisterWaits.             *)
(***************************************************************************)
EXTENDS ReceivePath, FiniteSetTheorems, TLAPS

-----------------------------------------------------------------------------
(* The inductive invariants.                                                *)

\* The handler tables are finite, as their capacities bound them.
TablesFinite == IsFiniteSet(handlers) /\ IsFiniteSet(maintenance)

\* A registered handler has made no late call, and neither has one that the
\* worker has copied and not called yet.
LateControl ==
  /\ \A c \in handlers : lateFrames[c] = 0
  /\ \A c \in maintenance : lateMaintenance[c] = 0
  /\ worker.at = "call" => worker.frame \in Clients /\ lateFrames[worker.frame] = 0
  /\ worker.at = "maintain" => \A c \in worker.todo : lateMaintenance[c] = 0

\* Where the owner is tells what exists.
OwnerControl ==
  /\ ownerPc = "idle" /\ ~initialized => ~callback /\ ~queueExists /\ worker = Off
  /\ ownerPc = "idle" /\ initialized => queueExists /\ worker # Off
  /\ ownerPc \in {"native", "publish", "start", "cleanup",
                  "unregister", "join", "queue"} => queueExists
  /\ ownerPc = "tables" => ~queueExists
  /\ ownerPc \in {"native", "publish", "unregister", "join", "queue", "tables"}
       => ~initialized
  /\ ownerPc = "start" => initialized
  /\ ownerPc \in {"native", "cleanup", "join", "queue", "tables"} => ~callback
  /\ ownerPc \in {"native", "publish", "start", "cleanup", "queue", "tables"}
       => worker = Off
  /\ ownerPc \in {"unregister", "join"} => worker # Off
  /\ ownerPc \in {"native", "publish"} => queue = << >>

\* The WiFi task is past its checks only while the callback is registered and
\* the transport was published.
NativeControl ==
  native # NoFrame =>
    /\ callback
    /\ (initialized /\ ownerPc # "cleanup") \/ ownerPc = "unregister"

\* What holds whatever the driver does with a callback under way.
TableInv == TypeOK /\ TablesFinite /\ LateControl

\* What holds when the driver waits for it.
PathInv == TableInv /\ OwnerControl /\ NativeControl

-----------------------------------------------------------------------------
USE FramesAssumption, CapacityAssumption, ReceiveQueueLengthAssumption,
    UnregisterWaitsAssumption, MaxArrivalsAssumption

\* The places of the worker, told apart by the field at.
Worker == {Off, Rest, [at |-> "drain"]}
          \cup [at : {"dispatch", "call"}, frame : Frames]
          \cup [at : {"maintain"}, todo : SUBSET Clients]

\* Each place has its fields, and no other place has its name.
LEMMA WorkerPlaces ==
  ASSUME NEW w \in Worker
  PROVE  /\ w.at \in {"off", "rest", "drain", "dispatch", "call", "maintain"}
         /\ w.at = "off" <=> w = Off
         /\ w.at = "rest" <=> w = Rest
         /\ w.at = "drain" <=> w = [at |-> "drain"]
         /\ w.at \in {"dispatch", "call"} =>
              /\ w.frame \in Frames
              /\ w = [at |-> w.at, frame |-> w.frame]
         /\ w.at = "maintain" =>
              /\ w.todo \in SUBSET Clients
              /\ w = [at |-> "maintain", todo |-> w.todo]
  BY DEF Worker, Off, Rest

\* The places a step can move the worker to.
LEMMA WorkerBuild ==
  /\ Off \in Worker /\ Rest \in Worker /\ [at |-> "drain"] \in Worker
  /\ \A f \in Frames : /\ [at |-> "dispatch", frame |-> f] \in Worker
                       /\ [at |-> "call", frame |-> f] \in Worker
  /\ \A s \in SUBSET Clients : [at |-> "maintain", todo |-> s] \in Worker
  BY DEF Worker

\* A table that was not full can take one more handler.
LEMMA TableAdd ==
  ASSUME NEW S, IsFiniteSet(S), NEW c, NEW max \in Nat, Cardinality(S) =< max,
         c \in S \/ Cardinality(S) < max
  PROVE  IsFiniteSet(S \cup {c}) /\ Cardinality(S \cup {c}) =< max
<1>1. Cardinality(S) \in Nat
  BY FS_CardinalityType
<1>2. /\ IsFiniteSet(S \cup {c})
      /\ Cardinality(S \cup {c}) = IF c \in S THEN Cardinality(S) ELSE Cardinality(S) + 1
  BY FS_AddElement
<1> QED
  BY <1>1, <1>2

\* Taking a handler out of a table keeps it within its capacity.
LEMMA TableRemove ==
  ASSUME NEW S, IsFiniteSet(S), NEW c, NEW max \in Nat, Cardinality(S) =< max
  PROVE  IsFiniteSet(S \ {c}) /\ Cardinality(S \ {c}) =< max
<1>1. Cardinality(S) \in Nat
  BY FS_CardinalityType
<1>2. /\ IsFiniteSet(S \ {c})
      /\ Cardinality(S \ {c}) = IF c \in S THEN Cardinality(S) - 1 ELSE Cardinality(S)
  BY FS_RemoveElement
<1> QED
  BY <1>1, <1>2

\* The history counter stays within its three values.
LEMMA CountedType == /\ \A n \in 0 .. 2 : Counted(n) \in 0 .. 2
                     /\ Counted(0) = 1
  BY DEF Counted

\* The type invariant, with the worker's places under their name.
LEMMA TypeOKWorker == TypeOK => worker \in Worker
  BY DEF TypeOK, Worker

-----------------------------------------------------------------------------
(* The tables, the worker and the late calls.                               *)

\* Before Initialize nothing is registered and nothing was called late.
LEMMA InitTable == Init => TableInv
<1> SUFFICES ASSUME Init PROVE TableInv
  OBVIOUS
<1>1. IsFiniteSet({}) /\ Cardinality({}) = 0
  BY FS_EmptySet
<1>2. queue \in Seq(Frames) /\ Len(queue) =< ReceiveQueueLength
  BY DEF Init
<1>b. initialized \in BOOLEAN /\ callback \in BOOLEAN /\ queueExists \in BOOLEAN
  BY Zenon DEF Init
<1>3. TypeOK
  BY <1>1, <1>2, <1>b DEF Init, TypeOK
<1>4. TablesFinite /\ LateControl
  BY <1>1 DEF Init, TablesFinite, LateControl, Off
<1> QED
  BY <1>3, <1>4 DEF TableInv

\* The owner's steps.
LEMMA OwnerTable ==
  ASSUME TableInv, OwnerNext
  PROVE  TableInv'
<1> USE DEF TableInv, queueVars, lateVars
<1>q. << >> \in Seq(Frames) /\ Len(<< >>) = 0
  OBVIOUS
<1>1. CASE InitializeQueue
  BY <1>1, <1>q DEF InitializeQueue, TypeOK, TablesFinite, LateControl
<1>2. CASE InitializeNative
  BY <1>2 DEF InitializeNative, TypeOK, TablesFinite, LateControl
<1>3. CASE InitializePublish
  BY <1>3 DEF InitializePublish, TypeOK, TablesFinite, LateControl
<1>4. CASE InitializeStartWorker
  BY <1>4 DEF InitializeStartWorker, TypeOK, TablesFinite, LateControl, Rest
<1>5. CASE CleanupCallback
  BY <1>5 DEF CleanupCallback, UnregisterCallback, TypeOK, TablesFinite, LateControl
<1>6. CASE CleanupQueue
  <2>b. initialized' \in BOOLEAN /\ queueExists' \in BOOLEAN
    BY <1>6, Zenon DEF CleanupQueue
  <2>1. TypeOK'
    BY <1>6, <1>q, <2>b DEF CleanupQueue, TypeOK
  <2> QED
    BY <1>6, <2>1 DEF CleanupQueue, TablesFinite, LateControl
<1>7. CASE ShutdownBegin
  BY <1>7 DEF ShutdownBegin, TypeOK, TablesFinite, LateControl
<1>8. CASE ShutdownNative
  BY <1>8 DEF ShutdownNative, UnregisterCallback, TypeOK, TablesFinite, LateControl
<1>9. CASE ShutdownJoin
  <2>1. TypeOK'
    BY <1>9 DEF ShutdownJoin, TypeOK
  <2>2. worker'.at = "off"
    BY <1>9 DEF ShutdownJoin, Off
  <2> QED
    BY <1>9, <2>1, <2>2 DEF ShutdownJoin, TablesFinite, LateControl
<1>10. CASE ShutdownQueue
  <2>b. queueExists' \in BOOLEAN
    BY <1>10, Zenon DEF ShutdownQueue
  <2> QED
    BY <1>10, <1>q, <2>b DEF ShutdownQueue, TypeOK, TablesFinite, LateControl
<1>11. CASE ShutdownTables
  <2>1. IsFiniteSet(handlers') /\ Cardinality(handlers') = 0
    BY <1>11, FS_EmptySet DEF ShutdownTables
  <2>2. IsFiniteSet(maintenance') /\ Cardinality(maintenance') = 0
    BY <1>11, FS_EmptySet DEF ShutdownTables
  <2> QED
    BY <1>11, <2>1, <2>2 DEF ShutdownTables, TypeOK, TablesFinite, LateControl
<1> QED
  BY <1>1, <1>2, <1>3, <1>4, <1>5, <1>6, <1>7, <1>8, <1>9, <1>10, <1>11 DEF OwnerNext

\* The WiFi task's and the radio's steps.
LEMMA NativeTable ==
  ASSUME TableInv, NativeNext \/ RadioNext
  PROVE  TableInv'
<1> USE DEF TableInv, queueVars, lateVars
<1>1. CASE ReceiveCallback
  BY <1>1 DEF ReceiveCallback, TypeOK, TablesFinite, LateControl
<1>2. CASE QueueFrame
  <2>1. queue' \in Seq(Frames) /\ Len(queue') =< ReceiveQueueLength
    BY <1>2 DEF QueueFrame, TypeOK
  <2> QED
    BY <1>2, <2>1 DEF QueueFrame, TypeOK, TablesFinite, LateControl
<1>3. CASE SuspendCallback
  BY <1>3 DEF SuspendCallback, UnregisterCallback, TypeOK, TablesFinite, LateControl
<1>4. CASE ReinitializeCallback
  BY <1>4 DEF ReinitializeCallback, TypeOK, TablesFinite, LateControl
<1> QED
  BY <1>1, <1>2, <1>3, <1>4 DEF NativeNext, RadioNext

\* The worker's steps.  The call of a copied handler is where a late call can
\* happen, and it ends the copy.
LEMMA WorkerTable ==
  ASSUME TableInv, WorkerNext
  PROVE  TableInv'
<1> USE DEF TableInv, queueVars, lateVars
<1>w. worker \in Worker
  BY TypeOKWorker
<1>1. CASE BeginIteration
  BY <1>1 DEF BeginIteration, TypeOK, TablesFinite, LateControl
<1>2. CASE ReceiveFrame
  <2>1. /\ Head(queue) \in Frames /\ Tail(queue) \in Seq(Frames)
        /\ Len(Tail(queue)) =< ReceiveQueueLength
    BY <1>2 DEF ReceiveFrame, TypeOK
  <2>2. worker' \in Worker /\ worker'.at = "dispatch"
    BY <1>2, <2>1, WorkerBuild DEF ReceiveFrame
  <2> QED
    BY <1>2, <2>1, <2>2 DEF ReceiveFrame, TypeOK, TablesFinite, LateControl, Worker
<1>3. CASE FindHandler
  <2>1. /\ worker.frame \in Frames
        /\ worker = [at |-> "dispatch", frame |-> worker.frame]
    BY <1>3, <1>w, WorkerPlaces DEF FindHandler
  <2>2. CASE worker.frame \in handlers
    <3>1. worker' = [at |-> "call", frame |-> worker.frame]
      BY <1>3, <2>1, <2>2 DEF FindHandler
    <3>2. worker' \in Worker
      BY <2>1, <3>1, WorkerBuild
    <3>3. worker'.at = "call" /\ worker'.frame = worker.frame
      BY <3>1
    <3>4. worker.frame \in Clients /\ lateFrames[worker.frame] = 0
      BY <2>2 DEF TypeOK, LateControl
    <3>5. UNCHANGED <<initialized, callback, queueVars, handlers, maintenance, native,
                      ownerPc, arrivals, lateVars>>
      BY <1>3 DEF FindHandler
    <3>6. LateControl'
      BY <3>3, <3>4, <3>5 DEF LateControl
    <3> QED
      BY <3>2, <3>5, <3>6 DEF TypeOK, TablesFinite, Worker
  <2>3. CASE worker.frame \notin handlers
    BY <1>3, <2>3 DEF FindHandler, TypeOK, TablesFinite, LateControl
  <2> QED
    BY <2>2, <2>3
<1>4. CASE CallHandler
  <2>1. worker.frame \in Clients /\ lateFrames[worker.frame] = 0
    BY <1>4 DEF CallHandler, LateControl
  <2>2. lateFrames' \in [Clients -> 0 .. 2]
    BY <1>4, <2>1, CountedType DEF CallHandler, TypeOK
  <2>3. \A c \in handlers : lateFrames'[c] = 0
    BY <1>4, <2>1 DEF CallHandler, LateControl, TypeOK
  <2> QED
    BY <1>4, <2>2, <2>3 DEF CallHandler, TypeOK, TablesFinite, LateControl
<1>5. CASE CopyMaintenance
  <2>1. worker' \in Worker /\ worker'.at = "maintain" /\ worker'.todo = maintenance
    BY <1>5, WorkerBuild DEF CopyMaintenance, TypeOK
  <2> QED
    BY <1>5, <2>1 DEF CopyMaintenance, TypeOK, TablesFinite, LateControl, Worker
<1>6. CASE EndIteration
  BY <1>6 DEF EndIteration, TypeOK, TablesFinite, LateControl, Rest
<1>7. ASSUME NEW c \in Clients, CallMaintenance(c)
      PROVE  TableInv'
  <2>1. /\ worker.todo \in SUBSET Clients
        /\ worker = [at |-> "maintain", todo |-> worker.todo]
    BY <1>7, <1>w, WorkerPlaces DEF CallMaintenance
  <2>2. worker' = [at |-> "maintain", todo |-> worker.todo \ {c}]
    BY <1>7, <2>1 DEF CallMaintenance
  <2>3. worker' \in Worker /\ worker'.at = "maintain" /\ worker'.todo = worker.todo \ {c}
    BY <2>1, <2>2, WorkerBuild
  <2>4. lateMaintenance' \in [Clients -> 0 .. 2]
    BY <1>7, CountedType DEF CallMaintenance, TypeOK
  <2>5. \A d \in worker.todo \ {c} : lateMaintenance'[d] = 0
    BY <1>7, <2>1 DEF CallMaintenance, LateControl, TypeOK
  <2>6. \A d \in maintenance : lateMaintenance'[d] = 0
    BY <1>7 DEF CallMaintenance, LateControl, TypeOK
  <2> QED
    BY <1>7, <2>3, <2>4, <2>5, <2>6
    DEF CallMaintenance, TypeOK, TablesFinite, LateControl, Worker
<1> QED
  BY <1>1, <1>2, <1>3, <1>4, <1>5, <1>6, <1>7 DEF WorkerNext

\* The clients' steps: the tables stay within their capacities.
LEMMA ClientTable ==
  ASSUME TableInv, NEW c \in Clients, ClientNext(c)
  PROVE  TableInv'
<1> USE DEF TableInv, queueVars, lateVars
<1>1. CASE RegisterProtocolHandler(c)
  <2>1. IsFiniteSet(handlers') /\ Cardinality(handlers') =< MaxProtocolHandlers
    BY <1>1, TableAdd DEF RegisterProtocolHandler, TypeOK, TablesFinite
  <2>2. lateFrames' \in [Clients -> 0 .. 2] /\ lateFrames'[c] = 0
    BY <1>1 DEF RegisterProtocolHandler, TypeOK
  <2>3. LateControl'
    BY <1>1 DEF RegisterProtocolHandler, TypeOK, LateControl
  <2> QED
    BY <1>1, <2>1, <2>2, <2>3 DEF RegisterProtocolHandler, TypeOK, TablesFinite
<1>2. CASE UnregisterProtocolHandler(c)
  <2>1. IsFiniteSet(handlers') /\ Cardinality(handlers') =< MaxProtocolHandlers
    BY <1>2, TableRemove DEF UnregisterProtocolHandler, TypeOK, TablesFinite
  <2> QED
    BY <1>2, <2>1 DEF UnregisterProtocolHandler, TypeOK, TablesFinite, LateControl
<1>3. CASE RegisterMaintenanceHandler(c)
  <2>1. IsFiniteSet(maintenance') /\ Cardinality(maintenance') =< MaxMaintenance
    BY <1>3, TableAdd DEF RegisterMaintenanceHandler, TypeOK, TablesFinite
  <2>2. lateMaintenance' \in [Clients -> 0 .. 2] /\ lateMaintenance'[c] = 0
    BY <1>3 DEF RegisterMaintenanceHandler, TypeOK
  <2>3. \A d \in Clients : lateMaintenance[d] = 0 => lateMaintenance'[d] = 0
    BY <1>3 DEF RegisterMaintenanceHandler, TypeOK
  <2>4. worker.at = "maintain" => worker.todo \in SUBSET Clients
    BY TypeOKWorker, WorkerPlaces
  <2>5. LateControl'
    BY <1>3, <2>2, <2>3, <2>4 DEF RegisterMaintenanceHandler, TypeOK, LateControl
  <2> QED
    BY <1>3, <2>1, <2>2, <2>5 DEF RegisterMaintenanceHandler, TypeOK, TablesFinite
<1>4. CASE UnregisterMaintenanceHandler(c)
  <2>1. IsFiniteSet(maintenance') /\ Cardinality(maintenance') =< MaxMaintenance
    BY <1>4, TableRemove DEF UnregisterMaintenanceHandler, TypeOK, TablesFinite
  <2> QED
    BY <1>4, <2>1 DEF UnregisterMaintenanceHandler, TypeOK, TablesFinite, LateControl
<1> QED
  BY <1>1, <1>2, <1>3, <1>4 DEF ClientNext

\* The table invariant is inductive, whatever the driver does.
LEMMA NextTable == TableInv /\ [Next]_vars => TableInv'
<1> SUFFICES ASSUME TableInv, [Next]_vars PROVE TableInv'
  OBVIOUS
<1>1. CASE UNCHANGED vars
  BY <1>1 DEF vars, queueVars, lateVars, TableInv, TypeOK, TablesFinite, LateControl
<1>2. CASE Next
  BY <1>2, OwnerTable, NativeTable, WorkerTable, ClientTable DEF Next
<1> QED
  BY <1>1, <1>2

\* Type correctness of the receive path: the queue and both tables never outgrow
\* their capacities, for every number of clients.
THEOREM ReceivePathTypes == Spec => []TypeOK
<1>1. TableInv => TypeOK
  BY DEF TableInv
<1> QED
  BY <1>1, InitTable, NextTable, PTL DEF Spec

\* A handler is called at most once after its client unregistered it, in
\* ProcessCallbackFrame as in the maintenance loop: for every number of clients,
\* whether or not the driver waits for a callback under way.
THEOREM OneLateCallAtMost == Spec => []OneLateCall
<1> DEFINE Once == \A c \in Clients : lateFrames[c] \in 0 .. 1 /\ lateMaintenance[c] \in 0 .. 1
           L == TableInv /\ Once
<1>1. Init => L
  BY InitTable DEF Init
<1>2. L /\ [Next]_vars => L'
  <2> SUFFICES ASSUME L, [Next]_vars PROVE Once'
    BY NextTable
  <2>t. /\ lateFrames \in [Clients -> 0 .. 2] /\ lateMaintenance \in [Clients -> 0 .. 2]
        /\ LateControl
    BY DEF TableInv, TypeOK
  <2>1. CASE CallHandler
    <3>1. worker.frame \in Clients /\ lateFrames[worker.frame] = 0
      BY <2>1, <2>t DEF CallHandler, LateControl
    <3>2. lateFrames' = lateFrames \/ lateFrames' = [lateFrames EXCEPT ![worker.frame] = 1]
      BY <2>1, <3>1, <2>t, CountedType DEF CallHandler
    <3> QED
      BY <2>1, <2>t, <3>1, <3>2 DEF CallHandler
  <2>2. ASSUME NEW c \in Clients, CallMaintenance(c)
        PROVE  Once'
    <3>1. lateMaintenance[c] = 0
      BY <2>2, <2>t DEF CallMaintenance, LateControl
    <3>2. lateMaintenance' = lateMaintenance
          \/ lateMaintenance' = [lateMaintenance EXCEPT ![c] = 1]
      BY <2>2, <3>1, <2>t, CountedType DEF CallMaintenance
    <3> QED
      BY <2>2, <2>t, <3>2 DEF CallMaintenance
  <2>3. ASSUME NEW c \in Clients, RegisterProtocolHandler(c) \/ RegisterMaintenanceHandler(c)
        PROVE  Once'
    BY <2>3, <2>t DEF RegisterProtocolHandler, RegisterMaintenanceHandler
  <2>4. CASE lateVars' = lateVars
    BY <2>4 DEF lateVars
  <2>5. OwnerNext \/ NativeNext \/ RadioNext => lateVars' = lateVars
    BY DEF OwnerNext, NativeNext, RadioNext, InitializeQueue, InitializeNative,
           InitializePublish, InitializeStartWorker, CleanupCallback, CleanupQueue,
           ShutdownBegin, ShutdownNative, ShutdownJoin, ShutdownQueue, ShutdownTables,
           ReceiveCallback, QueueFrame, SuspendCallback, ReinitializeCallback
  <2>6. BeginIteration \/ ReceiveFrame \/ FindHandler \/ CopyMaintenance \/ EndIteration
          => lateVars' = lateVars
    BY DEF BeginIteration, ReceiveFrame, FindHandler, CopyMaintenance, EndIteration
  <2>7. \A c \in Clients : UnregisterProtocolHandler(c) \/ UnregisterMaintenanceHandler(c)
          => lateVars' = lateVars
    BY DEF UnregisterProtocolHandler, UnregisterMaintenanceHandler
  <2>8. UNCHANGED vars => lateVars' = lateVars
    BY DEF vars
  <2> HIDE DEF L, Once
  <2> QED
    BY <2>1, <2>2, <2>3, <2>4, <2>5, <2>6, <2>7, <2>8
    DEF Next, WorkerNext, ClientNext
<1>3. L => OneLateCall
  BY DEF OneLateCall
<1> HIDE DEF L
<1> QED
  BY <1>1, <1>2, <1>3, PTL DEF Spec

-----------------------------------------------------------------------------
(* The life of the queue.                                                   *)

\* Before Initialize there is no queue, no callback and no worker.
LEMMA InitPath == Init => PathInv
<1>1. Init => OwnerControl /\ NativeControl
  BY DEF Init, OwnerControl, NativeControl
<1> QED
  BY <1>1, InitTable DEF PathInv

\* The owner takes the queue away only after it took the callback off and
\* joined the worker.
LEMMA OwnerPath ==
  ASSUME UnregisterWaits, PathInv, OwnerNext
  PROVE  OwnerControl' /\ NativeControl'
<1> USE DEF PathInv, queueVars, lateVars, OwnerControl, NativeControl
<1>o. Off # Rest
  BY DEF Off, Rest
<1>1. CASE InitializeQueue
  BY <1>1 DEF InitializeQueue
<1>2. CASE InitializeNative
  BY <1>2 DEF InitializeNative
<1>3. CASE InitializePublish
  BY <1>3 DEF InitializePublish
<1>4. CASE InitializeStartWorker
  BY <1>4, <1>o DEF InitializeStartWorker
<1>5. CASE CleanupCallback
  BY <1>5 DEF CleanupCallback, UnregisterCallback
<1>6. CASE CleanupQueue
  BY <1>6 DEF CleanupQueue
<1>7. CASE ShutdownBegin
  BY <1>7 DEF ShutdownBegin
<1>8. CASE ShutdownNative
  BY <1>8 DEF ShutdownNative, UnregisterCallback
<1>9. CASE ShutdownJoin
  BY <1>9 DEF ShutdownJoin
<1>10. CASE ShutdownQueue
  BY <1>10 DEF ShutdownQueue
<1>11. CASE ShutdownTables
  BY <1>11 DEF ShutdownTables
<1> QED
  BY <1>1, <1>2, <1>3, <1>4, <1>5, <1>6, <1>7, <1>8, <1>9, <1>10, <1>11 DEF OwnerNext

\* The other threads do not disturb what the owner relies on.
LEMMA OtherPath ==
  ASSUME UnregisterWaits, PathInv,
         NativeNext \/ RadioNext \/ WorkerNext \/ (\E c \in Clients : ClientNext(c))
  PROVE  OwnerControl' /\ NativeControl'
<1> USE DEF PathInv, TableInv, queueVars, lateVars
<1>1. CASE ReceiveCallback
  BY <1>1 DEF ReceiveCallback, OwnerControl, NativeControl
<1>2. CASE QueueFrame
  BY <1>2 DEF QueueFrame, OwnerControl, NativeControl
<1>3. CASE SuspendCallback
  BY <1>3 DEF SuspendCallback, UnregisterCallback, OwnerControl, NativeControl
<1>4. CASE ReinitializeCallback
  BY <1>4 DEF ReinitializeCallback, OwnerControl, NativeControl
<1>5. CASE WorkerNext
  <2>1. worker # Off /\ worker' # Off
    BY <1>5, TypeOKWorker, WorkerPlaces
    DEF WorkerNext, BeginIteration, ReceiveFrame, FindHandler, CallHandler,
        CopyMaintenance, EndIteration, CallMaintenance, Off, Rest
  <2>2. /\ UNCHANGED <<initialized, callback, queueExists, native, ownerPc>>
        /\ queue = << >> => queue' = << >>
    BY <1>5 DEF WorkerNext, BeginIteration, ReceiveFrame, FindHandler, CallHandler,
                CopyMaintenance, EndIteration, CallMaintenance
  <2> QED
    BY <2>1, <2>2 DEF OwnerControl, NativeControl
<1>6. ASSUME NEW c \in Clients, ClientNext(c)
      PROVE  OwnerControl' /\ NativeControl'
  <2>1. UNCHANGED <<initialized, callback, queueVars, native, worker, ownerPc>>
    BY <1>6 DEF ClientNext, RegisterProtocolHandler, UnregisterProtocolHandler,
                RegisterMaintenanceHandler, UnregisterMaintenanceHandler
  <2> QED
    BY <2>1 DEF OwnerControl, NativeControl
<1> QED
  BY <1>1, <1>2, <1>3, <1>4, <1>5, <1>6 DEF NativeNext, RadioNext

\* The path invariant is inductive if the driver waits for a callback under way.
LEMMA NextPath ==
  ASSUME UnregisterWaits
  PROVE  PathInv /\ [Next]_vars => PathInv'
<1> SUFFICES ASSUME PathInv, [Next]_vars PROVE OwnerControl' /\ NativeControl'
  BY NextTable DEF PathInv
<1>1. CASE UNCHANGED vars
  BY <1>1 DEF vars, queueVars, PathInv, OwnerControl, NativeControl
<1>2. CASE Next
  BY <1>2, OwnerPath, OtherPath DEF Next
<1> QED
  BY <1>1, <1>2

\* Whoever uses the unlocked _receiveQueue finds it there: Shutdown and a failed
\* Initialize reset it only when neither the WiFi task nor the worker can be using
\* it, provided that esp_now_unregister_recv_cb waits for a callback under way.
THEOREM QueueIsThere ==
  ASSUME UnregisterWaits
  PROVE  Spec => []QueueInUse
<1>1. PathInv => QueueInUse
  BY DEF PathInv, TableInv, TypeOK, OwnerControl, NativeControl, QueueInUse
<1> QED
  BY <1>1, InitPath, NextPath, PTL DEF Spec

-----------------------------------------------------------------------------
(* The receive path implements FrameHandoff.                                *)

\* FrameHandoff's open, of the receive path's state.
IsOpen == (initialized /\ ownerPc # "cleanup") \/ ownerPc = "unregister"

\* FrameHandoff's variables are unchanged.
HandoffStutters == IsOpen' = IsOpen /\ queue' = queue /\ Dispatching' = Dispatching

\* The frame in the worker's hands, place by place.
LEMMA DispatchingFacts ==
  ASSUME NEW w \in Worker, worker = w
  PROVE  /\ w.at \in {"dispatch", "call"} => Dispatching = w.frame /\ w.frame # NoFrame
         /\ w.at \notin {"dispatch", "call"} => Dispatching = NoFrame
  BY WorkerPlaces DEF Dispatching

\* A step of the owner opens, closes or empties the path, or is invisible.
LEMMA OwnerRefines ==
  ASSUME UnregisterWaits, PathInv, OwnerNext
  PROVE  Handoff!Next \/ HandoffStutters
<1> USE DEF PathInv, TableInv, queueVars
<1>b. initialized \in BOOLEAN
  BY DEF TypeOK
<1>o. worker = Off => Dispatching = NoFrame
  BY DEF Dispatching, Off
<1>1. CASE InitializeQueue
  <2>1. Dispatching = NoFrame /\ Dispatching' = NoFrame
    BY <1>1, <1>o DEF InitializeQueue, OwnerControl, Dispatching
  <2>2. ~IsOpen /\ ~IsOpen' /\ queue' = << >>
    BY <1>1 DEF InitializeQueue, IsOpen
  <2> QED
    BY <2>1, <2>2 DEF Handoff!Next, Handoff!Discard, IsOpen
<1>2. CASE InitializeNative
  BY <1>2 DEF InitializeNative, HandoffStutters, OwnerControl, IsOpen, Dispatching
<1>3. CASE InitializePublish
  <2>1. queue = << >> /\ queue' = << >> /\ Dispatching = NoFrame /\ Dispatching' = NoFrame
    BY <1>3, <1>o DEF InitializePublish, OwnerControl, Dispatching
  <2>2. ~IsOpen /\ IsOpen'
    BY <1>3 DEF InitializePublish, OwnerControl, IsOpen
  <2> QED
    BY <2>1, <2>2 DEF Handoff!Next, Handoff!Open, IsOpen
<1>4. CASE InitializeStartWorker
  <2>1. Dispatching = NoFrame /\ Dispatching' = NoFrame
    BY <1>4, <1>o DEF InitializeStartWorker, OwnerControl, Dispatching, Rest
  <2> QED
    BY <1>4, <2>1 DEF InitializeStartWorker, HandoffStutters, IsOpen
<1>5. CASE CleanupCallback
  <2>1. queue' = queue /\ Dispatching' = Dispatching /\ ~IsOpen'
    BY <1>5 DEF CleanupCallback, Dispatching, IsOpen
  <2> QED
    BY <2>1 DEF Handoff!Next, Handoff!Close, HandoffStutters, IsOpen
<1>6. CASE CleanupQueue
  <2>1. Dispatching = NoFrame /\ Dispatching' = NoFrame
    BY <1>6, <1>o DEF CleanupQueue, OwnerControl, Dispatching
  <2>2. ~IsOpen /\ ~IsOpen' /\ queue' = << >>
    BY <1>6 DEF CleanupQueue, IsOpen
  <2> QED
    BY <2>1, <2>2 DEF Handoff!Next, Handoff!Discard, IsOpen
<1>7. CASE ShutdownBegin
  BY <1>7 DEF ShutdownBegin, HandoffStutters, IsOpen, Dispatching
<1>8. CASE ShutdownNative
  <2>1. queue' = queue /\ Dispatching' = Dispatching /\ IsOpen /\ ~IsOpen'
    BY <1>8 DEF ShutdownNative, OwnerControl, Dispatching, IsOpen
  <2> QED
    BY <2>1 DEF Handoff!Next, Handoff!Close, IsOpen
<1>9. CASE ShutdownJoin
  <2>1. Dispatching = NoFrame /\ Dispatching' = NoFrame
    BY <1>9 DEF ShutdownJoin, Dispatching, Rest, Off
  <2> QED
    BY <1>9, <2>1 DEF ShutdownJoin, HandoffStutters, OwnerControl, IsOpen
<1>10. CASE ShutdownQueue
  <2>1. Dispatching = NoFrame /\ Dispatching' = NoFrame
    BY <1>10, <1>o DEF ShutdownQueue, OwnerControl, Dispatching
  <2>2. ~IsOpen /\ ~IsOpen' /\ queue' = << >>
    BY <1>10 DEF ShutdownQueue, OwnerControl, IsOpen
  <2> QED
    BY <2>1, <2>2 DEF Handoff!Next, Handoff!Discard, IsOpen
<1>11. CASE ShutdownTables
  BY <1>11 DEF ShutdownTables, HandoffStutters, OwnerControl, IsOpen, Dispatching
<1> QED
  BY <1>1, <1>2, <1>3, <1>4, <1>5, <1>6, <1>7, <1>8, <1>9, <1>10, <1>11 DEF OwnerNext

\* A step of the WiFi task accepts a frame or is invisible, and so are the
\* radio's and the clients' steps.
LEMMA NativeRefines ==
  ASSUME PathInv, NativeNext \/ RadioNext \/ (\E c \in Clients : ClientNext(c))
  PROVE  Handoff!Next \/ HandoffStutters
<1> USE DEF PathInv, TableInv, queueVars
<1>1. CASE QueueFrame
  <2>1. native \in Frames /\ IsOpen
    BY <1>1 DEF QueueFrame, NativeControl, TypeOK, IsOpen
  <2>2. IsOpen' = IsOpen /\ Dispatching' = Dispatching
    BY <1>1 DEF QueueFrame, IsOpen, Dispatching
  <2>3. CASE Len(queue) < ReceiveQueueLength
    <3>1. queue' = Append(queue, native)
      BY <1>1, <2>3 DEF QueueFrame
    <3> QED
      BY <2>1, <2>2, <2>3, <3>1 DEF Handoff!Next, Handoff!Accept, IsOpen
  <2>4. CASE ~(Len(queue) < ReceiveQueueLength)
    BY <1>1, <2>2, <2>4 DEF QueueFrame, HandoffStutters
  <2> QED
    BY <2>3, <2>4
<1>2. CASE ReceiveCallback \/ RadioNext \/ (\E c \in Clients : ClientNext(c))
  <2>1. UNCHANGED <<initialized, ownerPc, queue, worker>>
    BY <1>2 DEF ReceiveCallback, RadioNext, SuspendCallback, ReinitializeCallback,
                ClientNext, RegisterProtocolHandler, UnregisterProtocolHandler,
                RegisterMaintenanceHandler, UnregisterMaintenanceHandler
  <2> QED
    BY <2>1 DEF HandoffStutters, IsOpen, Dispatching
<1> QED
  BY <1>1, <1>2 DEF NativeNext

\* A step of the worker takes a frame, finishes one or is invisible.
LEMMA WorkerRefines ==
  ASSUME PathInv, WorkerNext
  PROVE  Handoff!Next \/ HandoffStutters
<1> USE DEF PathInv, TableInv, queueVars
<1>w. worker \in Worker
  BY TypeOKWorker
<1>o. IsOpen' = IsOpen
  BY DEF WorkerNext, BeginIteration, ReceiveFrame, FindHandler, CallHandler,
         CopyMaintenance, EndIteration, CallMaintenance, IsOpen
<1>1. CASE ReceiveFrame
  <2>1. Dispatching = NoFrame
    BY <1>1 DEF ReceiveFrame, Dispatching
  <2>2. Dispatching' = Head(queue) /\ queue' = Tail(queue) /\ queue # << >>
    BY <1>1 DEF ReceiveFrame, Dispatching
  <2> QED
    BY <1>o, <2>1, <2>2 DEF Handoff!Next, Handoff!Take, IsOpen
<1>2. ASSUME worker.at \in {"dispatch", "call"}, worker' = [at |-> "drain"], queue' = queue
      PROVE  Handoff!Next
  <2>1. Dispatching # NoFrame
    BY <1>2, <1>w, DispatchingFacts
  <2>2. Dispatching' = NoFrame
    BY <1>2 DEF Dispatching
  <2> QED
    BY <1>o, <1>2, <2>1, <2>2 DEF Handoff!Next, Handoff!Finish, IsOpen
<1>3. CASE FindHandler
  <2>1. CASE worker.frame \in handlers
    <3>1. worker'.at = "call" /\ worker'.frame = worker.frame
      BY <1>3, <2>1, <1>w, WorkerPlaces DEF FindHandler
    <3>2. Dispatching' = Dispatching
      BY <1>3, <3>1 DEF FindHandler, Dispatching
    <3> QED
      BY <1>o, <1>3, <3>2 DEF FindHandler, HandoffStutters
  <2>2. CASE worker.frame \notin handlers
    BY <1>2, <1>3, <2>2 DEF FindHandler
  <2> QED
    BY <2>1, <2>2
<1>4. CASE CallHandler
  BY <1>2, <1>4 DEF CallHandler
<1>5. CASE BeginIteration \/ CopyMaintenance \/ EndIteration
  <2>1. Dispatching = NoFrame /\ Dispatching' = NoFrame /\ queue' = queue
    BY <1>5 DEF BeginIteration, CopyMaintenance, EndIteration, Dispatching, Rest
  <2> QED
    BY <1>o, <2>1 DEF HandoffStutters
<1>6. ASSUME NEW c \in Clients, CallMaintenance(c)
      PROVE  HandoffStutters
  <2>1. worker.at = "maintain" /\ worker'.at = "maintain" /\ queue' = queue
    BY <1>6, <1>w, WorkerPlaces DEF CallMaintenance
  <2> QED
    BY <1>o, <2>1 DEF HandoffStutters, Dispatching
<1> QED
  BY <1>1, <1>3, <1>4, <1>5, <1>6 DEF WorkerNext

\* The receive path implements FrameHandoff: the worker sees the frames that
\* fitted into the queue once each and in the order of arrival, none is queued
\* after Shutdown took the callback off, and what is left over is dropped only
\* when the worker is done; provided that the driver waits for a callback under way.
THEOREM ReceivePathRefines ==
  ASSUME UnregisterWaits
  PROVE  Spec => HandoffSpec
<1>1. Init => Handoff!Init
  BY DEF Init, Handoff!Init, Dispatching, Off
<1>2. PathInv /\ [Next]_vars => [Handoff!Next]_Handoff!vars
  <2> SUFFICES ASSUME PathInv, [Next]_vars
               PROVE  Handoff!Next \/ HandoffStutters
    BY DEF HandoffStutters, Handoff!vars, IsOpen
  <2>1. CASE UNCHANGED vars
    BY <2>1 DEF vars, queueVars, HandoffStutters, IsOpen, Dispatching
  <2> QED
    BY <2>1, OwnerRefines, NativeRefines, WorkerRefines DEF Next
<1> QED
  BY InitPath, NextPath, <1>1, <1>2, PTL DEF Spec, HandoffSpec, Handoff!Spec
=============================================================================
