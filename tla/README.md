# TLA+ models of ESPressio ESP-Now

This directory specifies the concurrent core of the library in `src/src`, checks it
with TLC on small instances and proves its safety for every instance with TLAPS.
Every definition is written from the headers; comments in the modules name the
methods. `PROJECT.json` maps each definition to its lines.

    tlc -config AsyncHandler.cfg MCAsyncHandler      # one run
    tlapm AsyncHandlerProofs.tla                     # the proofs of one component

## 1. The system

The library carries application protocols over ESP-NOW frames of at most 250 bytes.
A node has these parts.

| Part | State it keeps | Operations | Runs on |
|---|---|---|---|
| `ESPNowTransport`: peers and radio | managed peer registry, interface hints, `_nativeSuspended`, `_radioBinding`; the driver's peer table | `AddPeer`, `RemovePeer`, `RememberPeerInterface`, `SuspendNativeForRadioTransition`, `SetRadioAvailable`, `ApplyRadioBinding`, `ReconcileManagedPeers`, `ReinitializeNativeState`, `Initialize`, `Shutdown` | application threads, the worker, WiFi's notifying thread |
| `ESPNowTransport`: receiving and sending | receive queue, protocol handlers, maintenance handlers, send diagnostics | native callback, worker loop, `RegisterProtocolHandler`, `SendDetailed` | driver task, worker, application |
| `ESPNowAsyncProtocolHandler` | frame pool, executor, its queue | `Initialize`, `Submit`, `Shutdown`, executor callbacks | worker (producer), protocol task (consumer), owner |
| `ESPNowCommandEndpoint` / `CommandTransport` | pending, inbound, reassemblies, duplicates, next request ID | `Invoke`, `Receive`, `CompleteInbound`, `Update`, `Initialize`, `Shutdown` | one lock; protocol task, worker (maintenance), application |
| `ESPNowEventTransport` | inbound reassemblies, outbound pool, destinations | `HandleFrame`, `Send`, executor | protocol task, outbound task, application |
| `ESPNowSecureTransport` | reassembly slots, cursor, message ID | `HandleFrame`, `Send` | worker |
| `ESPNowStateTransport` | subscribers, pending records, subscription intents, peers | `OnTypedStatePublished`, `HandleFrame`, `Maintain`, `OnStateSubscribed`, `OnStateUnsubscribed`, peer reports | worker, publishing thread, reporting thread |
| `ESPNowWiFiCoordinator` | last snapshot, four flags | `Initialize`, `Shutdown`, `RefreshBinding`, five WiFi notifications | WiFi's notifying thread, application |
| `ESPNowClockSynchronizer` | configuration, next and outstanding sequence, time of the last attempt | `Initialize`, `Shutdown`, `RequestSynchronization`, `Update`, request and response frames | worker, application |
| `ESPNowPeerLiveness` | time of the last frame of each peer | `Observe`, `Forget`, `GetState` | callers, under one lock |
| command handler, event bridge, observers | none of their own | textual commands, forwarding | callers |

How they interact: the driver's callback queues frames; the worker takes them, lets
the transport learn the peer's interface (`RememberPeerInterface`) and dispatches to
protocol handlers, either directly (State, Security, clock) or through an
`ESPNowAsyncProtocolHandler` (Command, Event), which copies the frame and lets another
task handle it.
The worker also calls maintenance handlers in each iteration, which is what drives
time-outs and retries. The WiFi coordinator observes the WiFi manager and takes the
native driver down around a transition through the transport. Commands, events and
envelopes longer than a frame are fragmented and reassembled.

What is hard here: sections under different mutexes that were meant to belong
together (`_nativeMutex`, the registry's and the binding's; `_mutex` of the State
transport and the publisher's own lock); tear-down against producers; a driver that
refuses some calls half-way through a rebuild; messages lost, repeated and late
against bounded tables with time-outs; callbacks that call back into the component;
scans and transitions of the radio that overlap. `PROJECT.json` lists these hazards
line by line with the property that covers each, or why none does.

What makes each part correct:

* hand-off: no slot lost or shared, the pool never the bottleneck, frames handled
  unchanged and in order, nothing used after tear-down, every slot returned;
* peers and radio: a suspended driver stays down; an available binding is backed by
  the driver; the driver knows no peer the registry does not; pinned peers stay;
* receive path: the unlocked queue is there for whoever uses it, frames are dispatched
  in order, an unregistered handler is not called on and on, maintenance keeps running;
* commands: one completion for each invocation and with its own answer, no execution
  twice while the answer is kept, every wait ends;
* reassembly: parts of different messages are joined only where no header tells them
  apart, and stale pieces keep a good message out once at most;
* State: the newest version is pending until the subscriber has it, and it gets there;
* WiFi: detached during transitions, unavailable during scans, correctly bound after;
* clock: each exchange gives at most one sample and in order, a sample is of one clock,
  the outstanding request is not forgotten, attempts are spaced and go on.

## 2. The modules

| Module | Models | Used by |
|---|---|---|
| `FrameHandoff` | what the asynchronous hand-off promises: a FIFO of frames with an overflow policy that opens and closes | refined by `AsyncHandler` and `ReceivePath` |
| `AsyncHandler` | `ESPressio_ESPNowAsyncProtocolHandler.hpp` | `MCAsyncHandler`, `AsyncHandlerProofs` |
| `ReceivePath` | callback, receive queue, worker and handler tables of `ESPressio_ESPNowTransport.hpp` | `MCReceivePath`, `ReceivePathProofs` |
| `PeerRegistry` | peers, hints, native table and binding of `ESPressio_ESPNowTransport.hpp` | `MCPeerRegistry`, `PeerRegistryProofs` |
| `CommandWire`, `CommandRequester`, `CommandResponder` | the radio and the two roles of `ESPNowCommandEndpoint` | composed by `CommandExchange` |
| `CommandExchange` | requesters, a responder, each with its own clock, and the radio | `MCCommandExchange`, `CommandExchangeProofs` |
| `Reassembly` | the Command, Event and Security reassemblers | `MCReassembly`, `ReassemblyProofs` |
| `StateTransport` | a publisher and its subscribers in `ESPressio_ESPNowStateTransport.hpp` | `MCStateTransport`, `StateTransportProofs` |
| `WiFiCoordinator` | `ESPressio_ESPNowWiFiCoordinator.hpp`, with the WiFi manager as environment | `MCWiFiCoordinator`, `WiFiCoordinatorProofs` |
| `ClockSynchronizer` | `ESPressio_ESPNowClockSynchronizer.hpp` | `MCClockSynchronizer`, `ClockSynchronizerProofs` |

Each `...Proofs` module extends its component's module with the inductive invariant, the
lemmas and the theorems of section 4.

### AsyncHandler

A slot is an index of `_frames`; `slotInUse` are the bytes set in `_slotInUse`; the
executor's queue holds slots. `SubmitBegin`, `AcquireFrame`, `Enqueue` / `Reject` /
`Evict` and the releases are the stretches of `Submit` between two lock operations.
`TakeFrame` and `FinishFrame` are the executor's task around the protocol's handler.
`TakeExecutor` (the locked part of `Shutdown` and of `Initialize`), `StopExecutor`,
`ClearPool`, `Allocate`, `StartExecutor` and `Publish` are the owner's steps, with the
two ways `Initialize` can fail. `TaskExecutor` is a library; its queue, overflow policy
and `Stop` are external definitions modelled from their use here. `Stop` may drop what
is queued with or without the discard callback.

`FrameHandoff` has the queue of frames itself (`pending`), the frame being handled
(`running`) and no pool. The refinement mapping reads each queued slot's contents, so
a slot overwritten while it is queued or handled is a step the abstraction forbids.

### ReceivePath

A frame is the client whose protocol it has, or `Unclaimed`. `ReceiveCallback` and
`QueueFrame` are `QueueReceivedData` before and at its use of `_receiveQueue`;
`BeginIteration` to `EndIteration` are `ProcessWorkerIteration`, split where it takes
or leaves `_handlerMutex` and `_maintenanceMutex`. The owner's steps are `Initialize`
with its failures (`CleanupCallback`, `CleanupQueue`) and `Shutdown`; `SuspendCallback`
and `ReinitializeCallback` are what a WiFi transition does to the callback. The ESP-IDF
function that unregisters the callback is external: `UnregisterWaits` says whether it
returns only when no callback runs. `lateFrames` and `lateMaintenance` are history
variables. The whole refines `FrameHandoff` too, as a FIFO that rejects when full.

### PeerRegistry

`managed`, `hints`, `native` map a peer to an interface or `None`; `driverUp`,
`callback` and `suspended` are the driver, its registered callback and
`_nativeSuspended`; `preferred` and `available` the binding. A section under
`_nativeMutex` is one action; everything between two sections is a point where other
threads run. `AddPeer` is `AddPeer`, `StoreManagedPeer`, then `ProgramPeer` or
`ProgramPeerFails`; a received unicast frame is `ReceiveUnicast`, `RememberHint`,
`RememberNative`. A radio operation goes through `SuspendNative`, or through
`ReconcileNative` / `ReinitializeNative` / `ReinitializeFails` / `ReinitializeRefused`
and then `PublishBinding`. `EnsurePeerExists` and `EnsureAddPeer` are the clock
synchronizer, which asks the driver for a peer and adds it if it is not there; it does so
on the application's thread (`Initialize`) and on the worker (a request), which is a
thread of `Apps` here. The
ESP-IDF driver is external and fails as `NativeFaults` says. A behaviour is under one
of the `Conditions` for good (`cond`): what the radio thread calls, what may fail,
whether the life cycle overlaps other calls, and how large the tables are. `Coordinated`
selects those under which the transport is used as `ESPNowWiFiCoordinator` uses it. Channel, key and encryption of a peer travel with its interface.

### CommandWire, CommandRequester, CommandResponder, CommandExchange

Each `Invoke` gets a serial number, which stands for the command and its result; the
key is the pair of peer and request ID that the endpoint uses. `outcome[s]` collects
the calls of the completion handler of invocation `s`. Sent requests stay available,
so that a request may arrive late and any number of times; a response may be lost,
and the responder may send it again. Completion handlers may invoke again in the contexts named
by `Reinvokes`. `Restart` is `Shutdown` and `Initialize` of a requester, which keep
the request counter; `RestartResponder` that of the responder. Time is a tick on each
node; a table's entry has an age. Entries that expire are named by their positions and
`EntriesAt` is the table without the others. `answered` and `attempts` are history
variables; `answered` counts newer answers up to the capacity of the cache
(`UpToCapacity`), of which more makes no difference.

### Reassembly

`kind` selects one of the three reassemblers; `Receive` is a fragment arriving at it,
through `ReceiveCommand`, `ReceiveEvent` or `ReceiveSecurity`, which keep their
different policies: refuse when full and expire in `Update`; expire on arrival and
evict the oldest; never expire and overwrite in turn. Any fragment of any message may
arrive at any time, which covers loss, repetition and reordering. `out` is the last
message handed on. A message has a sender, an ID, a type, a shape (fragments and length)
and the bytes of each part; different messages may agree in all but the bytes (`Twins`),
since a sender that restarts numbers from 1 again (`ESPNowSecureTransport::Shutdown`
does, and every reboot). A part that has come stays: Event and Security take a repeated
fragment for the same one, Command compares them and refuses one that differs
(`Stored`, with the history `disputed`). A part's bytes are not `None`, the mark of a
part that has not arrived: the code tells the two apart by a flag. `streak` is a history
variable: the fragments that came back to back, and whether the message was `Due` to be
handed on when its first one came.

### StateTransport

A version is an epoch and a revision. `publishing` is the thread inside
`OnTypedStatePublished`, `worker` the handler between `Snapshot` and `QueueUpdate`,
`leaving` the thread that reports a loss. `Maintain(due)` repeats the records whose
interval has passed. On the device side, `intent` is the unacknowledged wish and
`remote` what `RemoteStateManager` accepted. Links are FIFO and lose messages. `Restart`
and `RestartDevice` are `Shutdown` with the next `Initialize`, on either side. `Shutdown`
clears the records and keeps the subscribers; `Maintain` clears the record of a subscriber
when `Send` refuses the repetition, as it does during a WiFi scan or transition.
`forgotten`, a history variable, has the subscribers for which the State was not queued
since either of these, and which `NewestPending` and `Converges` except. A subscription
to any device may miss a publisher that is not in the peer table.

### WiFiCoordinator

Each method is one action, since `_stateMutex` is held throughout. WiFi's side
(`BeginTransition`, `ChangeRadio`, `BeginScan`, `EndScan`, `Notify`,
`CompleteTransition`) is external: it notifies synchronously, and its state may change
before the notification comes. `InitializeTransport` may come at any time, also under an
attached coordinator, which nobody tells: `unannounced`, a history variable, is set from
there to the next state the coordinator applies or transition it begins, and the
properties, which are about the coordinator, except that time. The transport appears through the result of
`ApplyRadioBinding`, which `PeerRegistry` models in detail.

### ClockSynchronizer

`caller` is the thread inside `Initialize`, `Shutdown`, `RequestSynchronization` or
`Update`, `worker` the one inside `ProcessResponse`; `onWorker` says that they are the
same thread, which takes calls and frames in turn. The steps are divided at the accesses
to `_pendingSequence` and to the clock, since nothing is locked. A time is the
exchange it was read for and its era, the number of adjustments of the clock before it.
`ProcessRequest` is a reference, and requests and responses stay in the air. The
sequence wraps at `SequenceCount`, for 2^32.

## 3. The runs

| Run | Properties | What it shows |
|---|---|---|
| `async_handler` | `TypeOK`, `SlotAccounting`, `AcquireAlwaysSucceeds`, `DropOldestNeverRejects`, `NoUseAfterTeardown`, `HandoffSpec`, `SlotsReturn` | pool, tear-down and refinement, and that every slot comes back |
| `receive_path` | `TypeOK`, `QueueInUse`, `OneLateCall`, `HandoffSpec`, `MaintenanceRuns` | callback, worker, clients, transitions and life cycle interleave; the path is a FIFO, and maintenance goes on |
| `peer_registry` | `TypeOK`, `SuspendedMeansDown`, `AvailableMeansProgrammed`, `NoOrphanPeer`, `ExplicitPeersPinned` | two applications, a clock synchronizer, one radio thread and a failing driver; the last three under the coordinator, the first two under everything, life cycle included |
| `peer_registry_clock` (violation) | `ConfiguredPeersKept` | finding 1 |
| `command_exchange` | `TypeOK`, `CompletedOnce`, `OwnResult`, `OneRecordPerKey`, `NoEarlyReexecution`, `EveryInvocationCompletes`, `InboundSlotsReturn` | one answer for each invocation, no early execution, and every wait ends |
| `command_shutdown` (violation) | `CompletedOnce` | finding 2 |
| `state_transport` | `TypeOK`, `NewestPending`, `Converges`, `StaleRecordDropped` | loss, reboot, restarts, refused sends and departures |
| `state_transport_race` (violation) | `NewestPending` | finding 3 |
| `wifi_coordinator` | `DownDuringTransition`, `UnavailableDuringScan`, `BoundWhenQuiet` | transitions, scans, refreshes and restarts in every overlap, but for `RefreshOutOfTurn` and the time a transport is `unannounced` (its `TypeOK` is proved) |
| `reassembly` | `TypeOK`, `PartsBelongTogether`, `BackToBackDelivered` | the three reassemblers, with IDs that restarted senders reuse |
| `reassembly_conflict` (violation) | `ConflictInvalidates` | finding 4 |
| `clock_synchronizer` | `TypeOK`, `SamplesInOrder`, `SampleOfOneClock`, `AwaitedIsPending`, `AttemptsSpaced`, `KeepsAsking` | loss, repetition, delay, failed sends, reconfiguration and the wrap of the sequence |

Each property of a passing run has a mutant in `PROJECT.json`: a change of one mapped
definition, of the kind a bug in that code would be, that makes TLC refute it. The
mutated forms stand before the definitions they replace, marked "Mutant".

### Findings

1. `ESPNowClockSynchronizer::EnsurePeerExists` asks the driver whether its peer exists.
   While a WiFi transition has the driver down the answer is no, and the default
   configuration replaces the one the application stored, against
   `docs/PEER_OWNERSHIP.md` and the comment above the method. (The same happens between
   `AddPeer`'s store and its programming of the driver when the worker answers a clock
   request in between; the run has one thread for both callers and does not explore it.)
2. `ESPNowCommandEndpoint::Shutdown` calls completion handlers before it stops being
   initialized. A handler that invokes again gets `true` and never a completion.
3. `QueueSnapshot` reads the publisher before `QueueUpdate` locks the records and
   overwrites without comparing: a publication in between is lost from the record.
   With `PublishDuringSnapshot` FALSE, `state_transport`, the property holds.
4. `ESPNowCommandEndpoint::Receive` refuses a repeated fragment whose bytes disagree, but
   refreshes and keeps the record, which may still be completed and dispatched;
   `COMMAND_INTEGRATION.md` says that reassembly is "invalidated when duplicate fragment
   contents disagree".

More limits of the code, which the passing runs stay clear of and the hazard list
describes:

* `RememberPeerInterface` decides that a peer is Auto under one mutex and moves the
  native peer under another: if `AddPeer` makes the peer explicit in between, the driver
  ends on the frame's interface and `ExplicitPeersPinned` fails, although `README.md`
  says that explicit peers "never silently migrate". In `peer_registry` a peer's kind
  never changes; with an `AddCalls` of both kinds for one peer TLC shows the race.
* `ESPNowStateTransport::Maintain` clears a pending record when `Send` refuses its
  repetition, for instance with `RadioUnavailable` during a scan: a lost update is then
  not repeated, although `wiki/Memory-and-Performance.md` asks callers to "handle
  `RadioUnavailable` and retry according to their own protocol semantics".
  `state_transport` has this step; its properties except the subscriber until the State
  is queued for it again.
* `EnsurePeerExists` on the worker adds a peer while its owner removes it: the driver
  keeps a peer that the registry forgot, and `NoOrphanPeer` fails. In `peer_registry`
  the calls for a peer come from one thread.
* `CompleteInbound` finds a record by peer and request ID alone: after a time-out, and
  once the cached answer is gone, a repeated copy of the request may be accepted anew
  and the late completion of the first execution answers for the second.
* `ProcessResponse` compares `_pendingSequence`, then clears it and submits. The comment
  in `Update` expects it to run on the worker; with `Update` called from `loop()`, as the
  examples do (`ClockClient.ino`, `BidirectionalClockSync.ino`), a request begun in
  between is forgotten or spans the adjustment: `SampleOfOneClock` and
  `AwaitedIsPending`, without their premise `onWorker`, are refuted. `SamplesInOrder`,
  `AttemptsSpaced` and `KeepsAsking` hold on either thread.

### Bounds, and why they are enough

* `AsyncHandler`: `QueueDepth` 2 with two callers and two frames lets the queue be
  empty, partly filled and full, with one frame being handled and one incoming, which
  is what the pool of `QueueDepth + 2` is for. `RejectedCap` bounds the counter, of
  which only zero or not matters. The theorems remove these bounds for safety.
* `ReceivePath`: two clients for a table of one and a queue of two with three frames:
  the table and the queue fill up, a frame is left when the path closes, and the same
  client's frames follow each other. `MaxArrivals` bounds the frames of a behaviour.
* `PeerRegistry`: two peers of different kinds; tables of two (room for all) under the
  coordinator, and of one (overflow) under everything. Two radio threads are not explored
  (see section 6). Modification failures (`"mod"`) are left out under the coordinator:
  with them `AddPeer` of a known peer forgets the record while the driver keeps it; the
  hazard list has it.
* `CommandExchange`: two invocations suffice for one request's answer to meet another;
  time-outs of one tick let every expiry race every message; two inbound records and one
  cached answer let records of one key meet within a table and across the two, and make
  the cache evict. `MaxAttempts` bounds executions of a key. One requester, for the sake of
  the liveness properties; the safety properties were also checked with two that share
  a responder with tables of one, and are proved for any number.
* `Reassembly`: six messages (of one, two and three fragments, with shared IDs, a
  request and a response alike, an ID reused with another length, and one reused with the
  same shape and other bytes in two parts of three) for two slots.
* `StateTransport`: one device, two epochs, two revisions and one message in flight on
  each link. The invariants were also checked with `MaxInFlight` 2, and all properties
  with `MaxInFlight` 2, one epoch and one revision. Devices share only the bounded
  tables; section 4 says when that matters.
* `WiFiCoordinator`: two channels; all modes and interface combinations.
* `ClockSynchronizer`: three exchanges, so that an answer may be late for two of them;
  two references and four configurations; sequences that start at 1 or just before the
  wrap. An interval of one tick lets every response be late.

### Fairness

* `AsyncHandler`: `Submit` does not block under its mutex, handlers return, the owner
  finishes what it began. Nobody has to call anything.
* `CommandExchange`: time passes and `Update` runs, as the worker's maintenance handler
  does in each iteration. No message has to arrive and no application has to complete.
* `StateTransport`: threads finish what they began, `Maintain` runs for each device
  whose interval has passed, the worker takes frames (weak fairness), and an update or
  acknowledgement repeated for ever arrives in the end (strong fairness): the usual
  assumption about a lossy radio, without which no protocol converges.

* `ReceivePath`: `PrecisionThread` schedules the worker again and again. The worker
  drains the queue before it calls the maintenance handlers, so `MaintenanceRuns` says
  that they run once frames stop coming, which `MaxArrivals` sees to.
* `ClockSynchronizer`: threads finish what they began and time passes (weak fairness),
  and the application's loop calls `Update` again and again: strong fairness, since other
  calls may keep the caller busy in between. No message has to arrive.

Deadlock is checked in all runs but the Command ones, where the bounds on
invocations and attempts let the model come to rest.

## 4. What is proved

`AsyncHandlerProofs`, for every set of callers and frames and every `QueueDepth`:

| Theorem | Statement |
|---|---|
| `TypeCorrect` | `Spec => []TypeOK` |
| `PoolAccounted` | `Spec => []SlotAccounting` |
| `AcquireNeverFails` | `Spec => []AcquireAlwaysSucceeds` |
| `DropOldestKeepsIncoming` | `Spec => []DropOldestNeverRejects` |
| `TeardownSafe` | `Spec => []NoUseAfterTeardown` |
| `Refinement` | `Spec => HandoffSpec` |

Assumptions: the named ASSUMEs of `AsyncHandler` (a queue of at least one, sentinels
that are not members). The inductive invariant is
`Inv == TypeOK /\ SlotAccounting /\ SubmitControl /\ OwnerControl`. Slot accounting
alone is not inductive: that a slot `Submit` releases is its own needs to know what a
caller holds at each point (`SubmitControl`), and that nobody is inside while the
owner clears the pool needs to know what exists at each of the owner's steps
(`OwnerControl`). `AcquireNeverFails` adds a counting argument: the slots in use are
those queued (at most `QueueDepth`, being distinct), the one being handled and the
caller's own, and the caller at "acquire" holds none, so one of `QueueDepth + 2` is
free. `Refinement` adds that every slot in use contains a frame (`FramesPresent`), and
maps each action to a step of `FrameHandoff` or a stutter.

`WiFiCoordinatorProofs`, for every set of channels, whatever the transport's calls
answer and WiFi does:

| Theorem | Statement |
|---|---|
| `TypeCorrect` | `Spec => []TypeOK` |
| `WithdrawnDuringScan` | `Spec => []UnavailableDuringScan` |
| `DetachedDuringTransition` | `~RefreshOutOfTurn` implies `Spec => []DownDuringTransition` |
| `BoundAfterwards` | `~RefreshOutOfTurn /\ HasPeers` implies `Spec => []BoundWhenQuiet` |

`RefreshOutOfTurn` is the application calling `RefreshBinding` during a transition or on
a coordinator that is not initialized; with it TLC refutes the last two. All three
properties except an `unannounced` transport. `HasPeers` is
needed because an empty registry lets a lightweight rebind succeed on a driver that is
down. `UnavailableDuringScan` is inductive with `TypeOK`. The other two need
`Inv == TypeOK /\ ScanAccounted /\ TransitionAccounted /\ DownDuringTransition`: the
suspension flags are set only on an observer and only between the two notifications they
belong to, without which a flag of an earlier scan or transition could skip the binding
that the end of this one has to restore. `BoundWhenQuiet` is then kept because a
step that ends quietly either called `ApplyState` with the radio's state or changed
neither. The lemmas `ApplyOnResult` and `ApplyStateResult` say once what `ApplyState`
leaves on each of its paths.

`ReceivePathProofs`, for every set of clients and frames, every capacity and every
queue length:

| Theorem | Statement |
|---|---|
| `ReceivePathTypes` | `Spec => []TypeOK` |
| `OneLateCallAtMost` | `Spec => []OneLateCall` |
| `QueueIsThere` | `UnregisterWaits` implies `Spec => []QueueInUse` |
| `ReceivePathRefines` | `UnregisterWaits` implies `Spec => HandoffSpec` |

The first two rest on `TableInv`: a handler that is registered, or that the worker has
copied and not called yet, has made no late call. The other two add `OwnerControl`, what
exists at each step of `Initialize` and `Shutdown`, and `NativeControl`, that the WiFi
task is past its checks only while the callback is registered. Without
`UnregisterWaits` the second fails and TLC refutes `QueueInUse`.

`PeerRegistryProofs`, for every set of peers, applications and radio threads, every
table size and every way in which the driver fails:

| Theorem | Statement |
|---|---|
| `RegistryTypes` | `Spec => []TypeOK` |
| `SuspendedStaysDown` | `Spec => []SuspendedMeansDown` |
| `NoOrphans` | `OneOwner` implies `Spec => []NoOrphanPeer` |
| `PinnedStayPinned` | `OneOwner /\ PinnedOrDynamic` implies `Spec => []ExplicitPeersPinned` |
| `AvailableIsBacked` | `OneRadio` implies `Spec => []AvailableMeansProgrammed` |

`SuspendedMeansDown` follows from `DriverControl`: the callback is registered exactly
while the driver is up, and only such a driver has peers. `OneOwner` is the rule of
`docs/PEER_OWNERSHIP.md`: without it one application's `RemovePeer` between another's
store and its programming of the same peer leaves the driver a peer that nobody knows.
`PinnedOrDynamic` excludes the race of `RememberPeerInterface` that section 3 describes,
and `OneRadio` the second radio thread of the hazard list, whose rebind may publish
after a later failed one. The invariants are `LifecycleControl` (nobody is in the transport while the
owner works on it), `CallControl` and `ProgramStored` (a call is about a peer of its
thread, and programs what it stored), `NativeManaged`, `NativePinned` and
`RadioControl` (a binding that is about to be published as available is backed
already, not only once it is published).

`CommandExchangeProofs`, for every set of requesters, every capacity, time-out and
number of invocations:

| Theorem | Statement |
|---|---|
| `ExchangeTypes` | `Spec => []TypeOK` |
| `ResultsAreOwn` | `Spec => []OwnResult` |
| `KeysHaveOneRecord` | `Spec => []OneRecordPerKey` |
| `NoRequestRunsEarly` | `Spec => NoEarlyReexecution`, an action property |
| `InvocationsCompleteOnce` | `"shutdown" \notin Reinvokes` implies `Spec => []CompletedOnce` |

`Inv == TableInv /\ OutcomeInv /\ ResponderInv`. `TableInv` ties every pending entry,
every request and every response to one invocation per key, which is why
correlation by request ID alone is enough while the counter is kept. `ResponderInv` says
that inbound requests and cached answers have distinct keys and that the cache holds
every answer of which fewer than `MaximumDuplicateResults` newer ones were stored and
that is within its lifetime (`CacheHolds`): `NoEarlyReexecution` is this fact read at the
moment of an execution. `CompletedOnce` adds `CompletionControl`: an invocation either
has its only entry or its only completion. Its hypothesis is finding 2. The lemmas about
`EntriesAt` and `Nth` (what is left keeps its order, and each entry comes from one place)
stand in for induction over the erase loops. The attempt to prove `TypeOK` showed that
the history variable `answered` outgrew its type when more inbound requests expire at
once than the cache holds, which no run's bounds reach; `UpToCapacity` is the
correction.

`ReassemblyProofs`, for every set of messages, table size and time-out and all three
reassemblers:

| Theorem | Statement |
|---|---|
| `ReassemblyTypes` | `Spec => []TypeOK` |
| `OnlyPartsThatBelong` | `Spec => []PartsBelongTogether` |
| `BackToBackIsDelivered` | `Spec => []BackToBackDelivered` |

Nothing is assumed of the messages but that each is well formed: they may share keys,
shapes and bytes. The invariant says that every part of a record comes from a twin of the
message that began it (`TableControl`), that a key has one record at most
(`KeyControl`), and that a message that is due was handed on or has a record that is not
old, agrees with it and holds the streak's fragments; one that is not due has, in the
course of the first attempt, used up the record that stood in its way (`StreakControl`).
That eviction does not take this record needs a least element of the
table's ages, from `WellFoundedInduction`.

`ClockSynchronizerProofs`, for every set of references and configurations, every interval
and every number of exchanges below `SequenceCount`, so that the sequence wraps at most
once:

| Theorem | Statement |
|---|---|
| `SynchronizerTypes` | `Spec => []TypeOK` |
| `SamplesComeInOrder` | `Spec => []SamplesInOrder` |
| `SamplesAreOfOneClock` | `Spec => []SampleOfOneClock` |
| `AwaitedStaysPending` | `Spec => []AwaitedIsPending` |
| `AttemptsAreSpaced` | `Spec => AttemptsSpaced`, an action property |

`SamplesInOrder` needs to know which exchange a sequence belongs to although it wraps:
`IssueControl` says that as many sequences were taken since as exchanges were begun, and
`OrderControl` that the pending exchange is later than everything submitted and not
older than what the worker has in hand. `ClockControl` and `AwaitControl` are about
`onWorker`: calls and frames take turns, so that nothing is still to be answered that was
read before the last adjustment, and the request last sent is pending or in the worker's
hands. `AgeControl` gives `AttemptsSpaced`.

`StateTransportProofs`, for every set of devices, any epochs, revisions and messages in
flight:

| Theorem | Statement |
|---|---|
| `TransportTypes` | `Spec => []TypeOK` |
| `NewestStaysPending` | `~PublishDuringSnapshot` and `Cardinality(Devices) =< MaximumPeers` imply `Spec => []NewestPending` |

`Inv == TypeOK /\ VersionControl /\ NewestPending`. `VersionControl` orders versions along
their way: what a thread is about to queue is the State's version (`ThreadsCurrent`),
what a device holds and what is on its way to it is not newer than the State
(`RemoteControl`, `UpdateControl`), and no acknowledgement is newer than what its sender
holds (`AcknowledgementControl`). So an acknowledgement that settles the newest
version comes from a device that holds it, whatever is lost or late and whichever epoch
it is of. Refused repetitions and restarts of the transport are steps of the
specification here, not excluded: the subscribers they leave behind are `forgotten`. The
first hypothesis excludes finding 3. The second is needed because `HandleControl` queues
a snapshot even for a device that the full subscriber table refused: with more devices than `TMaximumPeers` that record may
be the one a subscriber needs, and TLC refutes `NewestPending` with two devices and
`MaximumPeers` 1.

The theorems assume the named ASSUMEs of the modules only, besides the hypotheses
above; TLC evaluates these ASSUMEs in each run.

Only model-checked: all liveness (`SlotsReturn`, `MaintenanceRuns`,
`EveryInvocationCompletes`, `InboundSlotsReturn`, `Converges`, `StaleRecordDropped`,
`KeepsAsking`), since the prover does not handle fairness. Every invariant and action
property of a passing run has a theorem; the hypotheses exclude what the violation
runs, the limits of section 3 and the switches of section 5 are about.

## 5. Not modelled, and why

* Byte layouts, text formats and key material: no property here distinguishes them.
* Malformed frames: every parser drops them before it touches a table.
* Encryption and replay protection: they belong to the Security library.
* `RefreshBinding` out of turn (`RefreshOutOfTurn` TRUE) is modelled but switched off in
  the passing run: TLC refutes `DownDuringTransition` and `BoundWhenQuiet` with it.
* What an `unannounced` transport does: initialized during a scan or transition under an
  attached coordinator, it is up and available at once. It is modelled, and excepted by
  the three properties of the coordinator.
* `EnsurePeerExists` on the worker overlapping its peer's owner: see section 3.
* Which of two messages of one key and shape a receiver of joined parts is handed: under
  Security's policies that authenticate, another library rejects the mix; under the
  others it is delivered. The model has the mix and not the policy.
* A callback that is still running when `esp_now_unregister_recv_cb` has returned
  (`UnregisterWaits` FALSE) is modelled and switched off: TLC refutes `QueueInUse` with
  it, and the repository relies on the driver here.
* Reboots that set the Command request counter or the clock's sequence back to 1: the
  messages of the earlier life are then taken for the new one's. Listed as hazards.
* State: the peer table itself, availability (State's own), and a device with
  subscriptions of both scopes to the same State.
* Sending: it changes two diagnostic fields that nothing reads back, and its result is
  a choice in every module that sends.
* Peer liveness: one critical section per call, and no caller in the library.
* The runtime commands are calls of `ApplyRadioBinding`, which the radio threads of
  `PeerRegistry` make; observers and event bridge only forward.
* The outbound side of the Event transport: see the plan.

## 6. Plan

Done, in this order: `AsyncHandler` with its abstraction and proofs, `PeerRegistry`,
the Command modules, `StateTransport`, `WiFiCoordinator`, `Reassembly`, `ReceivePath`,
`ClockSynchronizer`, and the proofs, in the order `AsyncHandler`, `WiFiCoordinator`,
`ReceivePath`, `PeerRegistry`, `ClockSynchronizer`, `Reassembly`, `CommandExchange`,
`StateTransport`.

Next, proving: weaker hypotheses where the code allows them (`NewestPending` for the
devices that the subscriber table accepts, `CompletedOnce` for the handlers that do not
invoke from `Shutdown`); that what a device holds never goes back to an older version, and
that a suspended binding is left only by a rebuild, as action properties.

Left to model:

1. A composition of `WiFiCoordinator` with `PeerRegistry`'s radio operations, with a
   second radio thread (the `espnow` runtime commands): the later publisher of two
   overlapping rebinds, and `AvailableMeansProgrammed` across both.
2. The Event transport's outbound pool, which repeats the hand-off's pattern with
   other limits, and State subscriptions of both scopes.
