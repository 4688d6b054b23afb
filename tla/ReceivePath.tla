----------------------------- MODULE ReceivePath -----------------------------
(***************************************************************************)
(* How frames get from the driver to the protocols: ESPNowTransport's       *)
(* receive callback, the bounded queue, the worker that drains it and then  *)
(* runs the maintenance handlers, and the tables of handlers that clients   *)
(* register, under                                                          *)
(*                                                                          *)
(*   native   the WiFi task, which runs ReceiveCallback                     *)
(*   worker   TransportWorker, which runs ProcessWorkerIteration            *)
(*   owner    calls Initialize and Shutdown                                 *)
(*   clients  register and unregister their handlers, at any time           *)
(*   radio    takes the callback off and on around WiFi transitions         *)
(*                                                                          *)
(* An action is what a thread does between two lock operations, or between  *)
(* two accesses to the unlocked _receiveQueue.  Each client has a protocol  *)
(* of its own, and a frame is the client it is for.  What the transport     *)
(* does with peers on the way is the subject of PeerRegistry.               *)
(***************************************************************************)
EXTENDS Naturals, Sequences, FiniteSets

CONSTANTS
  Clients,              \* subsystems with a protocol and a maintenance handler
  Unclaimed,            \* a frame of a protocol that nobody handles
  NoFrame,
  MaxProtocolHandlers,  \* ESPRESSIO_ESPNOW_MAX_PROTOCOL_HANDLERS
  MaxMaintenance,       \* ESPRESSIO_ESPNOW_MAX_MAINTENANCE_HANDLERS
  ReceiveQueueLength,   \* ESPNowTransportConfig::ReceiveQueueLength
  UnregisterWaits,      \* esp_now_unregister_recv_cb returns when no callback runs
  MaxArrivals           \* bound: valid frames the driver delivers

Frames == Clients \cup {Unclaimed}

ASSUME FramesAssumption == Unclaimed \notin Clients /\ NoFrame \notin Frames
ASSUME CapacityAssumption == MaxProtocolHandlers \in Nat /\ MaxMaintenance \in Nat
ASSUME ReceiveQueueLengthAssumption == ReceiveQueueLength \in Nat \ {0}
ASSUME UnregisterWaitsAssumption == UnregisterWaits \in BOOLEAN
ASSUME MaxArrivalsAssumption == MaxArrivals \in Nat

VARIABLES
  initialized,   \* _initialized
  callback,      \* ReceiveCallback is registered and CallbackInstance() is set
  queueExists,   \* _receiveQueue is not null
  queue,         \* its frames
  handlers,      \* _handlers: the clients whose protocol handler is registered
  maintenance,   \* _maintenanceHandlers: the clients registered there
  native,        \* the frame ReceiveCallback is about to queue, or NoFrame
  worker,        \* where the worker is in ProcessWorkerIteration
  ownerPc,       \* where the owner is in Initialize or Shutdown
  arrivals,      \* how many valid frames were delivered
  lateFrames,    \* calls of a client's protocol handler since it unregistered it
  lateMaintenance  \* calls of its maintenance handler since it unregistered it

queueVars == <<queueExists, queue>>
lateVars == <<lateFrames, lateMaintenance>>
vars == <<initialized, callback, queueVars, handlers, maintenance, native, worker,
          ownerPc, arrivals, lateVars>>

-----------------------------------------------------------------------------
Off == [at |-> "off"]     \* there is no thread
Rest == [at |-> "rest"]   \* between two iterations

Init == /\ initialized = FALSE
        /\ callback = FALSE
        /\ queueExists = FALSE
        /\ queue = << >>
        /\ handlers = {}
        /\ maintenance = {}
        /\ native = NoFrame
        /\ worker = Off
        /\ ownerPc = "idle"
        /\ arrivals = 0
        /\ lateFrames = [c \in Clients |-> 0]
        /\ lateMaintenance = [c \in Clients |-> 0]

\* A history counter, which tells 0, 1 and more apart.
Counted(n) == IF n < 2 THEN n + 1 ELSE n

-----------------------------------------------------------------------------
(* The owner: Initialize.  A failure before the driver is up is cleaned up  *)
(* at once; one after it goes through "cleanup".                            *)

InitializeQueue ==
  /\ ownerPc = "idle"
  /\ ~initialized
  /\ queueExists' = TRUE
  /\ queue' = << >>
  /\ ownerPc' = "native"
  /\ UNCHANGED <<initialized, callback, handlers, maintenance, native, worker,
                 arrivals, lateVars>>

\* esp_now_init and esp_now_register_recv_cb, under _nativeMutex.
InitializeNative ==
  /\ ownerPc = "native"
  /\ callback' = TRUE
  /\ ownerPc' = "publish"
  /\ UNCHANGED <<initialized, queueVars, handlers, maintenance, native, worker,
                 arrivals, lateVars>>

InitializePublish ==
  /\ ownerPc = "publish"
  /\ initialized' = TRUE
  /\ ownerPc' = "start"
  /\ UNCHANGED <<callback, queueVars, handlers, maintenance, native, worker,
                 arrivals, lateVars>>

InitializeStartWorker ==
  /\ ownerPc = "start"
  /\ worker' = Rest
  /\ ownerPc' = "idle"
  /\ UNCHANGED <<initialized, callback, queueVars, handlers, maintenance, native,
                 arrivals, lateVars>>

\* esp_now_unregister_recv_cb and CallbackInstance() = nullptr.
UnregisterCallback ==
  /\ UnregisterWaits => native = NoFrame
  /\ callback' = FALSE

\* Mutant: the callback stays registered.
CleanupCallbackForgotten ==
  /\ ownerPc \in {"native", "start"}
  /\ ownerPc' = "cleanup"
  /\ UNCHANGED <<initialized, callback, queueVars, handlers, maintenance, native, worker,
                 arrivals, lateVars>>

\* The worker, the driver or the worker's thread does not start:
\* CleanupFailedInitialization, which holds _nativeMutex to its end.
CleanupCallback ==
  /\ ownerPc \in {"native", "start"}
  /\ UnregisterCallback
  /\ ownerPc' = "cleanup"
  /\ UNCHANGED <<initialized, queueVars, handlers, maintenance, native, worker,
                 arrivals, lateVars>>

CleanupQueue ==
  /\ ownerPc = "cleanup"
  /\ queueExists' = FALSE
  /\ queue' = << >>
  /\ initialized' = FALSE
  /\ ownerPc' = "idle"
  /\ UNCHANGED <<callback, handlers, maintenance, native, worker, arrivals, lateVars>>

-----------------------------------------------------------------------------
(* The owner: Shutdown.                                                     *)

ShutdownBegin ==
  /\ ownerPc = "idle"
  /\ initialized
  /\ initialized' = FALSE
  /\ ownerPc' = "unregister"
  /\ UNCHANGED <<callback, queueVars, handlers, maintenance, native, worker,
                 arrivals, lateVars>>

ShutdownNative ==
  /\ ownerPc = "unregister"
  /\ UnregisterCallback
  /\ ownerPc' = "join"
  /\ UNCHANGED <<initialized, queueVars, handlers, maintenance, native, worker,
                 arrivals, lateVars>>

\* Mutant: the queue is reset before the worker has ended.
ShutdownWithoutJoin ==
  /\ ownerPc = "join"
  /\ ownerPc' = "queue"
  /\ UNCHANGED <<initialized, callback, queueVars, handlers, maintenance, native, worker,
                 arrivals, lateVars>>

\* _worker->Shutdown() lets the iteration under way end.
ShutdownJoin ==
  /\ ownerPc = "join"
  /\ worker = Rest
  /\ worker' = Off
  /\ ownerPc' = "queue"
  /\ UNCHANGED <<initialized, callback, queueVars, handlers, maintenance, native,
                 arrivals, lateVars>>

ShutdownQueue ==
  /\ ownerPc = "queue"
  /\ queueExists' = FALSE
  /\ queue' = << >>
  /\ ownerPc' = "tables"
  /\ UNCHANGED <<initialized, callback, handlers, maintenance, native, worker,
                 arrivals, lateVars>>

\* The clients are not told that their handlers are gone.
ShutdownTables ==
  /\ ownerPc = "tables"
  /\ handlers' = {}
  /\ maintenance' = {}
  /\ ownerPc' = "idle"
  /\ UNCHANGED <<initialized, callback, queueVars, native, worker, arrivals, lateVars>>

-----------------------------------------------------------------------------
(* The radio: SuspendNativeForRadioTransition and the rebuild after it,     *)
(* each a section under _nativeMutex.                                       *)

SuspendCallback ==
  /\ initialized
  /\ ownerPc # "cleanup"
  /\ callback
  /\ UnregisterCallback
  /\ UNCHANGED <<initialized, queueVars, handlers, maintenance, native, worker,
                 ownerPc, arrivals, lateVars>>

ReinitializeCallback ==
  /\ initialized
  /\ ownerPc # "cleanup"
  /\ ~callback
  /\ callback' = TRUE
  /\ UNCHANGED <<initialized, queueVars, handlers, maintenance, native, worker,
                 ownerPc, arrivals, lateVars>>

-----------------------------------------------------------------------------
(* The WiFi task: QueueReceivedData.  A frame that is malformed, or comes   *)
(* when a check fails, changes nothing.                                     *)

ReceiveCallback ==
  /\ native = NoFrame
  /\ callback
  /\ initialized
  /\ queueExists
  /\ arrivals < MaxArrivals
  /\ arrivals' = arrivals + 1
  /\ native' \in Frames
  /\ UNCHANGED <<initialized, callback, queueVars, handlers, maintenance, worker,
                 ownerPc, lateVars>>

\* _receiveQueue->Send with no time-out; a frame that does not fit is counted
\* as rejected and dropped.
QueueFrame ==
  /\ native # NoFrame
  /\ queueExists
  /\ queue' = IF Len(queue) < ReceiveQueueLength THEN Append(queue, native) ELSE queue
  /\ native' = NoFrame
  /\ UNCHANGED <<initialized, callback, queueExists, handlers, maintenance, worker,
                 ownerPc, arrivals, lateVars>>

-----------------------------------------------------------------------------
(* The worker: ProcessWorkerIteration.                                      *)

BeginIteration ==
  /\ worker = Rest
  /\ worker' = [at |-> "drain"]
  /\ UNCHANGED <<initialized, callback, queueVars, handlers, maintenance, native,
                 ownerPc, arrivals, lateVars>>

ReceiveFrame ==
  /\ worker.at = "drain"
  /\ queue # << >>
  /\ worker' = [at |-> "dispatch", frame |-> Head(queue)]
  /\ queue' = Tail(queue)
  /\ UNCHANGED <<initialized, callback, queueExists, handlers, maintenance, native,
                 ownerPc, arrivals, lateVars>>

\* ProcessCallbackFrame copies the handler under _handlerMutex.
FindHandler ==
  /\ worker.at = "dispatch"
  /\ worker' = IF worker.frame \in handlers THEN [worker EXCEPT !.at = "call"]
                                            ELSE [at |-> "drain"]
  /\ UNCHANGED <<initialized, callback, queueVars, handlers, maintenance, native,
                 ownerPc, arrivals, lateVars>>

\* Mutant: the handler is kept for the next frames too.
CallHandlerAgain ==
  /\ worker.at = "call"
  /\ lateFrames' = IF worker.frame \in handlers THEN lateFrames
                     ELSE [lateFrames EXCEPT ![worker.frame] = Counted(@)]
  /\ IF queue # << >> /\ Head(queue) = worker.frame
       THEN /\ queue' = Tail(queue)
            /\ UNCHANGED worker
       ELSE /\ worker' = [at |-> "drain"]
            /\ UNCHANGED queue
  /\ UNCHANGED <<initialized, callback, queueExists, handlers, maintenance, native,
                 ownerPc, arrivals, lateMaintenance>>

\* The call itself, without a lock.
CallHandler ==
  /\ worker.at = "call"
  /\ lateFrames' = IF worker.frame \in handlers THEN lateFrames
                     ELSE [lateFrames EXCEPT ![worker.frame] = Counted(@)]
  /\ worker' = [at |-> "drain"]
  /\ UNCHANGED <<initialized, callback, queueVars, handlers, maintenance, native,
                 ownerPc, arrivals, lateMaintenance>>

\* Mutant: the copy has room for one handler less than the table.
CopyMaintenanceShort ==
  /\ worker.at = "drain"
  /\ queue = << >>
  /\ \E some \in SUBSET maintenance :
       /\ Cardinality(some) =< MaxMaintenance - 1
       /\ worker' = [at |-> "maintain", todo |-> some]
  /\ UNCHANGED <<initialized, callback, queueVars, handlers, maintenance, native,
                 ownerPc, arrivals, lateVars>>

\* The queue is empty: the maintenance handlers are copied under
\* _maintenanceMutex.
CopyMaintenance ==
  /\ worker.at = "drain"
  /\ queue = << >>
  /\ worker' = [at |-> "maintain", todo |-> maintenance]
  /\ UNCHANGED <<initialized, callback, queueVars, handlers, maintenance, native,
                 ownerPc, arrivals, lateVars>>

\* The handlers are called one after the other (the order is not told apart).
CallMaintenance(c) ==
  /\ worker.at = "maintain"
  /\ c \in worker.todo
  /\ lateMaintenance' = IF c \in maintenance THEN lateMaintenance
                          ELSE [lateMaintenance EXCEPT ![c] = Counted(@)]
  /\ worker' = [worker EXCEPT !.todo = @ \ {c}]
  /\ UNCHANGED <<initialized, callback, queueVars, handlers, maintenance, native,
                 ownerPc, arrivals, lateFrames>>

EndIteration ==
  /\ worker.at = "maintain"
  /\ worker.todo = {}
  /\ worker' = Rest
  /\ UNCHANGED <<initialized, callback, queueVars, handlers, maintenance, native,
                 ownerPc, arrivals, lateVars>>

-----------------------------------------------------------------------------
(* Clients.  A second registration replaces the first.                      *)

\* Mutant: a full table does not refuse.
RegisterProtocolHandlerUnbounded(c) ==
  /\ handlers' = handlers \cup {c}
  /\ lateFrames' = [lateFrames EXCEPT ![c] = 0]
  /\ UNCHANGED <<initialized, callback, queueVars, maintenance, native, worker,
                 ownerPc, arrivals, lateMaintenance>>

RegisterProtocolHandler(c) ==
  /\ c \in handlers \/ Cardinality(handlers) < MaxProtocolHandlers
  /\ handlers' = handlers \cup {c}
  /\ lateFrames' = [lateFrames EXCEPT ![c] = 0]
  /\ UNCHANGED <<initialized, callback, queueVars, maintenance, native, worker,
                 ownerPc, arrivals, lateMaintenance>>

UnregisterProtocolHandler(c) ==
  /\ c \in handlers
  /\ handlers' = handlers \ {c}
  /\ UNCHANGED <<initialized, callback, queueVars, maintenance, native, worker,
                 ownerPc, arrivals, lateVars>>

RegisterMaintenanceHandler(c) ==
  /\ c \in maintenance \/ Cardinality(maintenance) < MaxMaintenance
  /\ maintenance' = maintenance \cup {c}
  /\ lateMaintenance' = [lateMaintenance EXCEPT ![c] = 0]
  /\ UNCHANGED <<initialized, callback, queueVars, handlers, native, worker,
                 ownerPc, arrivals, lateFrames>>

UnregisterMaintenanceHandler(c) ==
  /\ c \in maintenance
  /\ maintenance' = maintenance \ {c}
  /\ UNCHANGED <<initialized, callback, queueVars, handlers, native, worker,
                 ownerPc, arrivals, lateVars>>

-----------------------------------------------------------------------------
OwnerNext == InitializeQueue \/ InitializeNative \/ InitializePublish
             \/ InitializeStartWorker \/ CleanupCallback \/ CleanupQueue
             \/ ShutdownBegin \/ ShutdownNative \/ ShutdownJoin
             \/ ShutdownQueue \/ ShutdownTables

NativeNext == ReceiveCallback \/ QueueFrame

RadioNext == SuspendCallback \/ ReinitializeCallback

WorkerNext == \/ BeginIteration \/ ReceiveFrame \/ FindHandler \/ CallHandler
              \/ CopyMaintenance \/ EndIteration
              \/ \E c \in Clients : CallMaintenance(c)

ClientNext(c) == \/ RegisterProtocolHandler(c) \/ UnregisterProtocolHandler(c)
                 \/ RegisterMaintenanceHandler(c) \/ UnregisterMaintenanceHandler(c)

Next == OwnerNext \/ NativeNext \/ RadioNext \/ WorkerNext
        \/ \E c \in Clients : ClientNext(c)

\* PrecisionThread schedules the worker again and again.
Spec == Init /\ [][Next]_vars /\ WF_vars(WorkerNext)

-----------------------------------------------------------------------------
TypeOK ==
  /\ initialized \in BOOLEAN /\ callback \in BOOLEAN /\ queueExists \in BOOLEAN
  /\ queue \in Seq(Frames) /\ Len(queue) =< ReceiveQueueLength
  /\ handlers \subseteq Clients /\ Cardinality(handlers) =< MaxProtocolHandlers
  /\ maintenance \subseteq Clients /\ Cardinality(maintenance) =< MaxMaintenance
  /\ native \in Frames \cup {NoFrame}
  /\ worker \in {Off, Rest, [at |-> "drain"]}
                \cup [at : {"dispatch", "call"}, frame : Frames]
                \cup [at : {"maintain"}, todo : SUBSET Clients]
  /\ ownerPc \in {"idle", "native", "publish", "start", "cleanup",
                  "unregister", "join", "queue", "tables"}
  /\ arrivals \in 0 .. MaxArrivals
  /\ lateFrames \in [Clients -> 0 .. 2] /\ lateMaintenance \in [Clients -> 0 .. 2]

\* Whoever is between its checks and its use of _receiveQueue, which has no
\* lock, finds it there: Shutdown and a failed Initialize reset it only when
\* neither the WiFi task nor the worker can still be using it.
QueueInUse ==
  native # NoFrame \/ worker \notin {Off, Rest} => queueExists

\* A handler is called at most once more after its client unregistered it: the
\* call that the worker had already copied it for.  (A client may not go away
\* before that call has ended, which nothing here tells it.)
OneLateCall ==
  \A c \in Clients : lateFrames[c] =< 1 /\ lateMaintenance[c] =< 1

\* The frame the worker is dispatching.
Dispatching == IF worker.at \in {"dispatch", "call"} THEN worker.frame ELSE NoFrame

\* The receive path as a bounded FIFO in front of one reader.  It is open while
\* the callback can pass its checks.
Handoff == INSTANCE FrameHandoff
  WITH QueueDepth <- ReceiveQueueLength,
       open <- (initialized /\ ownerPc # "cleanup") \/ ownerPc = "unregister",
       dropOldest <- FALSE,
       pending <- queue,
       running <- Dispatching

\* The worker sees the frames that fitted into the queue, once each and in the
\* order of arrival; none is queued after the path was closed, and what is left
\* over is dropped only when the worker is done.
HandoffSpec == Handoff!Spec

\* The maintenance handlers, which drive the time-outs and retries of the
\* Command and State transports, are all called in each round, and the rounds go
\* on as long as the transport is up (once frames stop arriving: the worker
\* drains the queue first, however long it takes).
MaintenanceRuns ==
  \A c \in Clients :
    c \in maintenance /\ worker # Off
      ~> \/ c \notin maintenance \/ worker = Off
         \/ worker.at = "maintain" /\ c \in worker.todo
=============================================================================
