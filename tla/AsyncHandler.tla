---------------------------- MODULE AsyncHandler ----------------------------
(***************************************************************************)
(* ESPNowAsyncProtocolHandler: frames received by the transport worker are  *)
(* copied into a pool of QueueDepth + 2 slots, and a TaskExecutor's queue   *)
(* carries pointers to the slots to the protocol's own task.                *)
(*                                                                          *)
(* Three kinds of thread meet here.  The Callers run Submit.  One owner     *)
(* runs Initialize and Shutdown (the protocol transports call them from one *)
(* place).  The executor's task takes slots off the queue and runs the      *)
(* handler on them.  An action is one step between two lock operations;     *)
(* lifecycleMutex is held by a caller for the whole of Submit.              *)
(*                                                                          *)
(* The TaskExecutor is a library: its queue, its overflow policy and Stop   *)
(* (which lets the handler return, then drops what is queued, with or       *)
(* without the discard callback) are modelled from how this class uses it.  *)
(***************************************************************************)
EXTENDS Naturals, Sequences, FiniteSets

CONSTANTS Callers,      \* threads that call Submit
          Frames,       \* received frames
          NoFrame,
          NoCaller,
          NoSlot,
          QueueDepth,   \* Configuration::QueueDepth
          RejectedCap   \* _handoffRejected is counted up to this bound

ASSUME QueueDepthAssumption == QueueDepth \in Nat \ {0}
ASSUME RejectedCapAssumption == RejectedCap \in Nat \ {0}
ASSUME NoFrameAssumption == NoFrame \notin Frames
ASSUME NoCallerAssumption == NoCaller \notin Callers
ASSUME NoSlotAssumption == NoSlot \notin Nat

\* Mutant: the pool forgets the incoming frame.
PoolSizeWithoutIncoming == QueueDepth + 1

PoolSize == QueueDepth + 2
Slots == 1 .. PoolSize

VARIABLES
  frames,          \* _frames: what each slot holds (NoFrame: default constructed)
  slotInUse,       \* _slotInUse: the slots whose byte is 1
  pool,            \* _frames is not empty
  handler,         \* _handler is set
  initialized,     \* _initialized
  executor,        \* where the executor is: "none", "local" (owned by a frame of
                   \* Initialize or Shutdown) or "published" (_executor)
  dropOldest,      \* Configuration::OverflowPolicy of the executor is DropOldest
  task,            \* the executor's task is running
  queue,           \* the executor's queue of slots, oldest first
  executing,       \* the slot the executor's task works on
  handoffRejected, \* _handoffRejected, saturating at RejectedCap
  lifecycleMutex,  \* _lifecycleMutex: the caller that holds it
  pc,              \* where each caller is in Submit
  incoming,        \* Submit's argument
  item,            \* Submit's local: the slot it acquired
  victim,          \* the slot DropOldest took off the queue, not yet released
  ownerPc,         \* where the owner is in Initialize or Shutdown
  reinit           \* the owner's Shutdown is the first step of an Initialize

poolVars == <<frames, slotInUse, pool, handler>>
executorVars == <<executor, dropOldest, task, queue, executing>>
callerVars == <<pc, incoming, item, victim>>
ownerVars == <<ownerPc, reinit>>
vars == <<poolVars, executorVars, callerVars, ownerVars,
          initialized, handoffRejected, lifecycleMutex>>

-----------------------------------------------------------------------------
FreeSlots == Slots \ slotInUse

\* ReleaseFrame returns early when the pool is gone.
Released(s) == IF pool THEN slotInUse \ {s} ELSE slotInUse

CountRejected == handoffRejected' =
                   IF handoffRejected < RejectedCap THEN handoffRejected + 1
                                                    ELSE handoffRejected

\* Submit returns: the lock guard releases _lifecycleMutex.
Return(c) == /\ lifecycleMutex' = NoCaller
             /\ pc' = [pc EXCEPT ![c] = "idle"]
             /\ incoming' = [incoming EXCEPT ![c] = NoFrame]
             /\ item' = [item EXCEPT ![c] = NoSlot]

Init == /\ frames = [s \in Slots |-> NoFrame]
        /\ slotInUse = {}
        /\ pool = FALSE
        /\ handler = FALSE
        /\ initialized = FALSE
        /\ executor = "none"
        /\ dropOldest = FALSE
        /\ task = FALSE
        /\ queue = << >>
        /\ executing = NoSlot
        /\ handoffRejected = 0
        /\ lifecycleMutex = NoCaller
        /\ pc = [c \in Callers |-> "idle"]
        /\ incoming = [c \in Callers |-> NoFrame]
        /\ item = [c \in Callers |-> NoSlot]
        /\ victim = [c \in Callers |-> NoSlot]
        /\ ownerPc = "idle"
        /\ reinit = FALSE

-----------------------------------------------------------------------------
(* Submit.                                                                  *)

SubmitBegin(c) ==
  /\ pc[c] = "idle"
  /\ lifecycleMutex = NoCaller
  /\ initialized /\ executor = "published"
  /\ \E f \in Frames : incoming' = [incoming EXCEPT ![c] = f]
  /\ lifecycleMutex' = c
  /\ pc' = [pc EXCEPT ![c] = "acquire"]
  /\ UNCHANGED <<poolVars, executorVars, ownerVars, item, victim,
                 initialized, handoffRejected>>

\* Mutant: the scan runs one element past the end of _slotInUse.
AcquireFramePastEnd(c) ==
  /\ pc[c] = "acquire"
  /\ \E s \in (1 .. PoolSize + 1) \ slotInUse :
       /\ slotInUse' = slotInUse \cup {s}
       /\ frames' = [frames EXCEPT ![s] = incoming[c]]
       /\ item' = [item EXCEPT ![c] = s]
  /\ pc' = [pc EXCEPT ![c] = "handoff"]
  /\ UNCHANGED <<executorVars, ownerVars, pool, handler, incoming, victim,
                 initialized, handoffRejected, lifecycleMutex>>

\* AcquireFrame returned nullptr: the frame is lost and counted.
NoFreeSlot(c) ==
  /\ FreeSlots = {}
  /\ CountRejected
  /\ Return(c)
  /\ UNCHANGED <<slotInUse, frames>>

FirstFreeSlot(c) ==
  /\ \E s \in FreeSlots :
       /\ \A t \in FreeSlots : s =< t
       /\ slotInUse' = slotInUse \cup {s}
       /\ frames' = [frames EXCEPT ![s] = incoming[c]]
       /\ item' = [item EXCEPT ![c] = s]
  /\ pc' = [pc EXCEPT ![c] = "handoff"]
  /\ UNCHANGED <<incoming, handoffRejected, lifecycleMutex>>

AcquireFrame(c) ==
  /\ pc[c] = "acquire"
  /\ NoFreeSlot(c) \/ FirstFreeSlot(c)
  /\ UNCHANGED <<executorVars, ownerVars, pool, handler, victim, initialized>>

\* _executor->Submit(item) returns Success.
Enqueue(c) ==
  /\ pc[c] = "handoff"
  /\ Len(queue) < QueueDepth
  /\ queue' = Append(queue, item[c])
  /\ Return(c)
  /\ UNCHANGED <<poolVars, ownerVars, executor, task, executing, victim,
                 initialized, handoffRejected, dropOldest>>

\* The queue is full and the policy is Reject: Submit reports a failure.
Reject(c) ==
  /\ pc[c] = "handoff"
  /\ Len(queue) >= QueueDepth
  /\ ~dropOldest
  /\ pc' = [pc EXCEPT ![c] = "reject"]
  /\ UNCHANGED <<poolVars, executorVars, ownerVars, incoming, item, victim,
                 initialized, handoffRejected, lifecycleMutex>>

\* Mutant: a rejected handoff keeps its slot.
ReleaseRejectedLeaks(c) ==
  /\ pc[c] = "reject"
  /\ CountRejected
  /\ Return(c)
  /\ UNCHANGED <<poolVars, executorVars, ownerVars, victim, initialized>>

ReleaseRejected(c) ==
  /\ pc[c] = "reject"
  /\ slotInUse' = Released(item[c])
  /\ CountRejected
  /\ Return(c)
  /\ UNCHANGED <<executorVars, ownerVars, frames, pool, handler, victim,
                 initialized>>

\* The queue is full and the policy is DropOldest: the oldest item leaves the
\* queue, then the discard callback releases its slot, then the executor
\* tries to enqueue again.
Evict(c) ==
  /\ pc[c] = "handoff"
  /\ Len(queue) >= QueueDepth
  /\ dropOldest
  /\ victim' = [victim EXCEPT ![c] = Head(queue)]
  /\ queue' = Tail(queue)
  /\ pc' = [pc EXCEPT ![c] = "discard"]
  /\ UNCHANGED <<poolVars, ownerVars, executor, task, executing, incoming,
                 item, initialized, handoffRejected, lifecycleMutex, dropOldest>>

\* Mutant: the executor is initialized without the discard callback.
ReleaseEvictedLeaks(c) ==
  /\ pc[c] = "discard"
  /\ victim' = [victim EXCEPT ![c] = NoSlot]
  /\ pc' = [pc EXCEPT ![c] = "handoff"]
  /\ UNCHANGED <<poolVars, executorVars, ownerVars, incoming, item,
                 initialized, handoffRejected, lifecycleMutex>>

ReleaseEvicted(c) ==
  /\ pc[c] = "discard"
  /\ slotInUse' = Released(victim[c])
  /\ victim' = [victim EXCEPT ![c] = NoSlot]
  /\ pc' = [pc EXCEPT ![c] = "handoff"]
  /\ UNCHANGED <<executorVars, ownerVars, frames, pool, handler, incoming,
                 item, initialized, handoffRejected, lifecycleMutex>>

-----------------------------------------------------------------------------
(* The executor's task: ProcessFrame.                                       *)

\* Mutant: ProcessFrame releases the slot before the handler has read it.
TakeFrameReleasesEarly ==
  /\ task
  /\ executing = NoSlot
  /\ queue # << >>
  /\ executing' = Head(queue)
  /\ slotInUse' = Released(Head(queue))
  /\ queue' = Tail(queue)
  /\ UNCHANGED <<frames, pool, handler, callerVars, ownerVars, executor, task,
                 initialized, handoffRejected, lifecycleMutex, dropOldest>>

TakeFrame ==
  /\ task
  /\ executing = NoSlot
  /\ queue # << >>
  /\ executing' = Head(queue)
  /\ queue' = Tail(queue)
  /\ UNCHANGED <<poolVars, callerVars, ownerVars, executor, task,
                 initialized, handoffRejected, lifecycleMutex, dropOldest>>

\* Mutant: ProcessFrame has no FrameRelease guard.
FinishFrameLeaks ==
  /\ task
  /\ executing # NoSlot
  /\ executing' = NoSlot
  /\ UNCHANGED <<poolVars, callerVars, ownerVars, executor, task, queue,
                 initialized, handoffRejected, lifecycleMutex, dropOldest>>

\* The handler returns and ~FrameRelease runs.
FinishFrame ==
  /\ task
  /\ executing # NoSlot
  /\ slotInUse' = Released(executing)
  /\ executing' = NoSlot
  /\ UNCHANGED <<callerVars, ownerVars, frames, pool, handler, executor,
                 task, queue, initialized, handoffRejected, lifecycleMutex, dropOldest>>

-----------------------------------------------------------------------------
(* The owner: Initialize and Shutdown.                                      *)

\* Mutant: the executor is moved out without _lifecycleMutex.
TakeExecutorUnlocked(init) ==
  /\ ownerPc = "idle"
  /\ initialized' = FALSE
  /\ executor' = IF executor = "published" THEN "local" ELSE "none"
  /\ ownerPc' = "stop"
  /\ reinit' = init
  /\ UNCHANGED <<poolVars, callerVars, task, queue, executing,
                 handoffRejected, lifecycleMutex, dropOldest>>

\* Both begin by taking the executor under _lifecycleMutex.
TakeExecutor(init) ==
  /\ ownerPc = "idle"
  /\ lifecycleMutex = NoCaller
  /\ initialized' = FALSE
  /\ executor' = IF executor = "published" THEN "local" ELSE "none"
  /\ ownerPc' = "stop"
  /\ reinit' = init
  /\ UNCHANGED <<poolVars, callerVars, task, queue, executing,
                 handoffRejected, lifecycleMutex, dropOldest>>

Shutdown == TakeExecutor(FALSE)
InitializeBegin == TakeExecutor(TRUE)

\* executor->Stop() and executor.reset(), outside every lock.
StopExecutor ==
  /\ ownerPc = "stop"
  /\ executing = NoSlot
  /\ \/ slotInUse' = slotInUse
     \/ slotInUse' = slotInUse \ {queue[i] : i \in 1 .. Len(queue)}
  /\ queue' = << >>
  /\ task' = FALSE
  /\ executor' = "none"
  /\ ownerPc' = "clear"
  /\ UNCHANGED <<callerVars, frames, pool, handler, executing, reinit,
                 initialized, handoffRejected, lifecycleMutex, dropOldest>>

\* _handler = {}, _frames.clear(), _slotInUse.clear().
ClearedPool == /\ frames' = [s \in Slots |-> NoFrame]
               /\ slotInUse' = {}
               /\ pool' = FALSE
               /\ handler' = FALSE

ClearPool ==
  /\ ownerPc = "clear"
  /\ ClearedPool
  /\ ownerPc' = IF reinit THEN "allocate" ELSE "idle"
  /\ UNCHANGED <<executorVars, callerVars, reinit, initialized,
                 handoffRejected, lifecycleMutex>>

Allocate ==
  /\ ownerPc = "allocate"
  /\ frames' = [s \in Slots |-> NoFrame]
  /\ slotInUse' = {}
  /\ pool' = TRUE
  /\ handler' = TRUE
  /\ ownerPc' = "start"
  /\ UNCHANGED <<executorVars, callerVars, reinit, initialized,
                 handoffRejected, lifecycleMutex>>

\* Initialize returns false: a bad configuration, or a resize that throws.
AllocateFails ==
  /\ ownerPc = "allocate"
  /\ ClearedPool
  /\ ownerPc' = "idle"
  /\ UNCHANGED <<executorVars, callerVars, reinit, initialized,
                 handoffRejected, lifecycleMutex>>

\* executor->Initialize and executor->Start on the local executor.
StartExecutor ==
  /\ ownerPc = "start"
  /\ executor' = "local"
  /\ dropOldest' \in BOOLEAN
  /\ task' = TRUE
  /\ ownerPc' = "publish"
  /\ UNCHANGED <<poolVars, callerVars, queue, executing, reinit,
                 initialized, handoffRejected, lifecycleMutex>>

StartFails ==
  /\ ownerPc = "start"
  /\ ClearedPool
  /\ ownerPc' = "idle"
  /\ UNCHANGED <<executorVars, callerVars, reinit, initialized,
                 handoffRejected, lifecycleMutex>>

Publish ==
  /\ ownerPc = "publish"
  /\ lifecycleMutex = NoCaller
  /\ executor' = "published"
  /\ handoffRejected' = 0
  /\ initialized' = TRUE
  /\ ownerPc' = "idle"
  /\ UNCHANGED <<poolVars, callerVars, task, queue, executing, reinit,
                 lifecycleMutex, dropOldest>>

-----------------------------------------------------------------------------
SubmitStep(c) == \/ AcquireFrame(c)
                 \/ Enqueue(c) \/ Reject(c) \/ ReleaseRejected(c)
                 \/ Evict(c) \/ ReleaseEvicted(c)

TaskStep == TakeFrame \/ FinishFrame

OwnerStep == \/ StopExecutor \/ ClearPool \/ Allocate \/ AllocateFails
             \/ StartExecutor \/ StartFails \/ Publish

Next == \/ \E c \in Callers : SubmitBegin(c) \/ SubmitStep(c)
        \/ TaskStep
        \/ Shutdown \/ InitializeBegin \/ OwnerStep

Spec == Init /\ [][Next]_vars

\* Submit takes no blocking step while it holds the mutex; the executor's
\* task runs as long as it exists and handlers return; a lifecycle call, once
\* it has taken the executor, runs to its end (Stop waits for the running
\* handler only, and nothing is enqueued any more).  Nobody is obliged to call
\* Submit, Initialize or Shutdown.
Fairness == /\ \A c \in Callers : WF_vars(SubmitStep(c))
            /\ WF_vars(TaskStep)
            /\ WF_vars(OwnerStep)

FairSpec == Spec /\ Fairness

-----------------------------------------------------------------------------
SlotsOf(q) == {q[i] : i \in 1 .. Len(q)}
QueuedSlots == SlotsOf(queue)
Distinct(q) == \A i, j \in 1 .. Len(q) : i # j => q[i] # q[j]

\* The slots the lock holder's Submit works on.
SubmitSlots == {item[c] : c \in Callers} \cup {victim[c] : c \in Callers}

\* Type correctness, with the capacity of the executor's queue.
TypeOK ==
  /\ frames \in [Slots -> Frames \cup {NoFrame}]
  /\ slotInUse \subseteq Slots
  /\ pool \in BOOLEAN /\ handler \in BOOLEAN /\ initialized \in BOOLEAN
  /\ executor \in {"none", "local", "published"}
  /\ dropOldest \in BOOLEAN
  /\ task \in BOOLEAN
  /\ queue \in Seq(Slots) /\ Len(queue) =< QueueDepth
  /\ executing \in Slots \cup {NoSlot}
  /\ handoffRejected \in 0 .. RejectedCap
  /\ lifecycleMutex \in Callers \cup {NoCaller}
  /\ pc \in [Callers -> {"idle", "acquire", "handoff", "reject", "discard"}]
  /\ incoming \in [Callers -> Frames \cup {NoFrame}]
  /\ item \in [Callers -> Slots \cup {NoSlot}]
  /\ victim \in [Callers -> Slots \cup {NoSlot}]
  /\ ownerPc \in {"idle", "stop", "clear", "allocate", "start", "publish"}
  /\ reinit \in BOOLEAN

\* Every slot marked in use is in exactly one hand: queued once, being
\* executed, or held by the one Submit under way.  Nothing leaks when a
\* handoff is rejected, evicted, finished or torn down, and no slot is handed
\* out twice.  Only between Stop and the clearing of the pool may a slot of a
\* dropped item still be marked.
SlotAccounting ==
  /\ QueuedSlots \cup (({executing} \cup SubmitSlots) \ {NoSlot}) \subseteq slotInUse
  /\ ownerPc # "clear" =>
       slotInUse = QueuedSlots \cup (({executing} \cup SubmitSlots) \ {NoSlot})
  /\ Distinct(queue)
  /\ executing \notin QueuedSlots
  /\ SubmitSlots \cap (QueuedSlots \cup {executing}) \subseteq {NoSlot}
  /\ \A c \in Callers : item[c] = victim[c] => item[c] = NoSlot

\* "The pool includes capacity for all queued frames, one frame currently
\* executing, and one incoming frame": AcquireFrame never returns nullptr.
AcquireAlwaysSucceeds == \A c \in Callers : pc[c] = "acquire" => FreeSlots # {}

\* "... so DropOldest can evict an accepted item without losing the incoming
\* handoff": under DropOldest no handoff is ever counted as rejected.
DropOldestNeverRejects == initialized /\ dropOldest => handoffRejected = 0

\* "Receive callbacks cannot dereference an executor after shutdown has taken
\* ownership of it", and neither the handler nor its frame goes away while the
\* executor's task is inside ProcessFrame.
NoUseAfterTeardown ==
  /\ \A c \in Callers : pc[c] # "idle" => executor = "published" /\ task /\ pool
  /\ executing # NoSlot => task /\ pool /\ handler

\* The frames as the handler sees them, through the slots.
Handoff == INSTANCE FrameHandoff WITH
             open <- initialized,
             pending <- [i \in 1 .. Len(queue) |-> frames[queue[i]]],
             running <- IF executing = NoSlot THEN NoFrame ELSE frames[executing]

\* The handler sees the accepted frames, in the order they were accepted, each
\* unchanged from its acceptance until the handler returns; only DropOldest
\* on a full queue, or a teardown, takes one away.
HandoffSpec == Handoff!Spec

\* Every slot that is taken is eventually given back: accepted frames reach
\* the handler (or are dropped by eviction or teardown) and the pool never
\* runs dry for good.
SlotsReturn == \A s \in Slots : s \in slotInUse ~> s \notin slotInUse
=============================================================================
