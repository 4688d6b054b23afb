------------------------- MODULE AsyncHandlerProofs -------------------------
(***************************************************************************)
(* The pool of ESPNowAsyncProtocolHandler is exactly large enough, for every *)
(* queue depth, every number of callers and both overflow policies; and the  *)
(* handler implements FrameHandoff.                                          *)
(***************************************************************************)
EXTENDS AsyncHandler, FiniteSetTheorems, TLAPS

-----------------------------------------------------------------------------
(* The inductive invariant.                                                 *)

\* Where Submit is tells what it holds; whoever is inside holds the mutex.
SubmitControl ==
  \A c \in Callers :
    /\ pc[c] # "idle" => lifecycleMutex = c
    /\ pc[c] # "idle" => incoming[c] \in Frames
    /\ pc[c] \in {"idle", "acquire"} <=> item[c] = NoSlot
    /\ pc[c] # "discard" <=> victim[c] = NoSlot

\* Where the owner is tells what exists.
OwnerControl ==
  /\ \A c \in Callers : pc[c] # "idle" => initialized
  /\ initialized => executor = "published"
  /\ executor = "published" => initialized /\ ownerPc = "idle"
  /\ executor # "none" => task
  /\ task => pool /\ handler
  /\ ~task => queue = << >> /\ executing = NoSlot
  /\ ~pool => slotInUse = {}
  /\ ownerPc \in {"clear", "allocate", "start"} => ~task
  /\ ownerPc = "publish" => task /\ queue = << >> /\ executing = NoSlot
  /\ ownerPc = "idle" /\ task => initialized
  /\ ownerPc \in {"start", "publish"} => pool /\ handler

Inv == TypeOK /\ SlotAccounting /\ SubmitControl /\ OwnerControl

-----------------------------------------------------------------------------
(* Lemmas about the executor's queue.                                       *)

\* Enqueueing adds one slot to the slots of the queue.
LEMMA AppendSlots ==
  ASSUME NEW S, NEW q \in Seq(S), NEW s \in S
  PROVE  /\ SlotsOf(Append(q, s)) = SlotsOf(q) \cup {s}
         /\ Distinct(q) /\ s \notin SlotsOf(q) => Distinct(Append(q, s))
<1> DEFINE n == Len(q)
           a == Append(q, s)
<1>1. n \in Nat /\ Len(a) = n + 1 /\ a[n + 1] = s /\ \A i \in 1 .. n : a[i] = q[i]
  OBVIOUS
<1>2. SlotsOf(a) = SlotsOf(q) \cup {s}
  <2>1. 1 .. n + 1 = (1 .. n) \cup {n + 1}
    BY <1>1
  <2> QED
    BY <1>1, <2>1 DEF SlotsOf
<1>3. ASSUME Distinct(q), s \notin SlotsOf(q)
      PROVE  Distinct(a)
  BY <1>1, <1>3 DEF Distinct, SlotsOf
<1> QED
  BY <1>2, <1>3

\* Taking the head removes exactly that slot, because slots are distinct.
LEMMA TailSlots ==
  ASSUME NEW S, NEW q \in Seq(S), q # << >>, Distinct(q)
  PROVE  /\ Head(q) \in S
         /\ Head(q) \in SlotsOf(q)
         /\ SlotsOf(Tail(q)) = SlotsOf(q) \ {Head(q)}
         /\ Distinct(Tail(q))
<1> DEFINE n == Len(q)
           t == Tail(q)
<1>1. /\ n \in Nat \ {0} /\ Len(t) = n - 1
      /\ \A i \in 1 .. n - 1 : t[i] = q[i + 1]
      /\ Head(q) = q[1] /\ \A i \in 1 .. n : q[i] \in S
  OBVIOUS
<1>2. Head(q) \in S /\ Head(q) \in SlotsOf(q)
  BY <1>1 DEF SlotsOf
<1>3. SlotsOf(t) \subseteq SlotsOf(q) \ {Head(q)}
  <2> SUFFICES ASSUME NEW i \in 1 .. n - 1
               PROVE  t[i] \in SlotsOf(q) /\ t[i] # Head(q)
    BY <1>1 DEF SlotsOf
  <2>1. i + 1 \in 1 .. n /\ 1 \in 1 .. n /\ i + 1 # 1
    BY <1>1
  <2> QED
    BY <1>1, <2>1 DEF SlotsOf, Distinct
<1>4. SlotsOf(q) \ {Head(q)} \subseteq SlotsOf(t)
  <2> SUFFICES ASSUME NEW i \in 1 .. n, q[i] # Head(q)
               PROVE  q[i] \in SlotsOf(t)
    BY DEF SlotsOf
  <2>1. i - 1 \in 1 .. n - 1 /\ t[i - 1] = q[i]
    BY <1>1
  <2> QED
    BY <1>1, <2>1 DEF SlotsOf
<1>5. Distinct(t)
  <2> SUFFICES ASSUME NEW i \in 1 .. n - 1, NEW j \in 1 .. n - 1, i # j
               PROVE  t[i] # t[j]
    BY <1>1 DEF Distinct
  <2>1. i + 1 \in 1 .. n /\ j + 1 \in 1 .. n /\ i + 1 # j + 1
    BY <1>1
  <2> QED
    BY <1>1, <2>1 DEF Distinct
<1> QED
  BY <1>2, <1>3, <1>4, <1>5

\* The empty queue holds no slot.
LEMMA EmptySlots == SlotsOf(<< >>) = {} /\ Distinct(<< >>)
  BY DEF SlotsOf, Distinct

-----------------------------------------------------------------------------
(* One lemma per action that moves a slot, then the invariance theorem.     *)

USE QueueDepthAssumption, RejectedCapAssumption,
    NoFrameAssumption, NoCallerAssumption, NoSlotAssumption

\* The pool is a finite range of numbers, and NoSlot is none of them.
LEMMA SlotFacts == /\ PoolSize \in Nat /\ Slots \subseteq Nat
                   /\ NoSlot \notin Slots
  BY DEF PoolSize, Slots

\* A handler that was just constructed has no pool, no executor and no caller inside.
LEMMA InitInv == Init => Inv
<1> SUFFICES ASSUME Init PROVE Inv
  OBVIOUS
<1>1. TypeOK
  <2>1. queue \in Seq(Slots) /\ Len(queue) =< QueueDepth /\ handoffRejected \in 0 .. RejectedCap
    BY DEF Init
  <2> QED
    BY <2>1 DEF Init, TypeOK
<1>2. SlotAccounting
  BY EmptySlots DEF Init, SlotAccounting, QueuedSlots, SubmitSlots
<1>3. SubmitControl /\ OwnerControl
  BY DEF Init, SubmitControl, OwnerControl
<1> QED
  BY <1>1, <1>2, <1>3 DEF Inv

\* The slots held by Submit are unchanged by steps that leave the locals alone.
LEMMA SubmitBeginInv ==
  ASSUME Inv, NEW c \in Callers, SubmitBegin(c)
  PROVE  Inv'
<1> USE DEF Inv, poolVars, executorVars, callerVars, ownerVars
<1>1. TypeOK'
  BY DEF TypeOK, SubmitBegin
<1>2. SlotAccounting'
  BY DEF SlotAccounting, QueuedSlots, SubmitSlots, SubmitBegin
<1>3. SubmitControl'
  BY DEF TypeOK, SubmitControl, SubmitBegin
<1>4. OwnerControl'
  BY DEF TypeOK, OwnerControl, SubmitBegin
<1> QED
  BY <1>1, <1>2, <1>3, <1>4

\* Whoever is inside Submit is the only one, so every other caller holds nothing.
LEMMA OnlyOneInside ==
  ASSUME Inv, NEW c \in Callers, pc[c] # "idle"
  PROVE  \A d \in Callers \ {c} : pc[d] = "idle" /\ item[d] = NoSlot /\ victim[d] = NoSlot
  BY DEF Inv, SubmitControl, TypeOK

\* ... and the slots held by Submit are those of the one inside.
LEMMA HolderSlots ==
  ASSUME Inv, NEW c \in Callers, pc[c] # "idle"
  PROVE  SubmitSlots \cup {NoSlot} = {item[c], victim[c], NoSlot}
  BY OnlyOneInside DEF SubmitSlots

\* AcquireFrame marks a slot that nobody else holds.
LEMMA AcquireFrameInv ==
  ASSUME Inv, NEW c \in Callers, AcquireFrame(c)
  PROVE  Inv'
<1> USE DEF Inv, poolVars, executorVars, callerVars, ownerVars, AcquireFrame
<1>1. CASE NoFreeSlot(c)
  <2>1. TypeOK'
    BY <1>1 DEF TypeOK, NoFreeSlot, Return, CountRejected
  <2>2. item' = item /\ victim' = victim
    BY <1>1 DEF TypeOK, SubmitControl, NoFreeSlot, Return
  <2>3. SlotAccounting'
    BY <1>1, <2>2 DEF SlotAccounting, QueuedSlots, SubmitSlots, NoFreeSlot, Return
  <2>4. SubmitControl'
    BY <1>1 DEF TypeOK, SubmitControl, NoFreeSlot, Return
  <2>5. OwnerControl'
    BY <1>1 DEF TypeOK, OwnerControl, NoFreeSlot, Return
  <2> QED
    BY <2>1, <2>3, <2>4, <2>5
<1>2. CASE FirstFreeSlot(c)
  <2>1. PICK s \in FreeSlots :
          /\ slotInUse' = slotInUse \cup {s}
          /\ frames' = [frames EXCEPT ![s] = incoming[c]]
          /\ item' = [item EXCEPT ![c] = s]
    BY <1>2 DEF FirstFreeSlot
  <2>2. s \in Slots /\ s \notin slotInUse /\ s # NoSlot
    BY SlotFacts DEF FreeSlots
  <2>3. TypeOK'
    BY <1>2, <2>1, <2>2 DEF TypeOK, FirstFreeSlot
  <2>4. item[c] = NoSlot /\ victim[c] = NoSlot
    BY DEF SubmitControl
  <2>5. item'[c] = s /\ victim' = victim /\ queue' = queue /\ executing' = executing
    BY <2>1 DEF TypeOK
  <2>6. SubmitSlots' \cup {NoSlot} = {s, NoSlot} /\ SubmitSlots \subseteq {NoSlot}
    BY <2>1, <2>4, <2>5, OnlyOneInside, HolderSlots DEF SubmitSlots, TypeOK
  <2>7. SlotAccounting'
    BY <2>1, <2>2, <2>4, <2>5, <2>6, OnlyOneInside DEF SlotAccounting, QueuedSlots, TypeOK
  <2>8. SubmitControl'
    BY <1>2, <2>1, <2>2 DEF TypeOK, SubmitControl, FirstFreeSlot
  <2>9. OwnerControl'
    BY <1>2, <2>1 DEF TypeOK, OwnerControl, FirstFreeSlot
  <2> QED
    BY <2>3, <2>7, <2>8, <2>9
<1> QED
  BY <1>1, <1>2

\* The accepted slot passes from Submit to the executor's queue.
LEMMA EnqueueInv ==
  ASSUME Inv, NEW c \in Callers, Enqueue(c)
  PROVE  Inv'
<1> USE DEF Inv, poolVars, executorVars, callerVars, ownerVars, Enqueue, Return
<1>1. item[c] \in Slots /\ item[c] # NoSlot /\ victim[c] = NoSlot
  BY SlotFacts DEF TypeOK, SubmitControl
<1>2. /\ SlotsOf(queue') = SlotsOf(queue) \cup {item[c]}
      /\ item[c] \notin SlotsOf(queue) => Distinct(queue')
  BY <1>1, AppendSlots DEF TypeOK, SlotAccounting
<1>3. TypeOK'
  BY <1>1 DEF TypeOK
<1>4. SubmitSlots \cup {NoSlot} = {item[c], NoSlot} /\ SubmitSlots' \subseteq {NoSlot}
  BY <1>1, OnlyOneInside, HolderSlots DEF SubmitSlots, TypeOK
<1>5. item[c] \notin SlotsOf(queue) /\ item[c] # executing
  BY <1>1, <1>4 DEF SlotAccounting, QueuedSlots
<1>6. SlotAccounting'
  BY <1>1, <1>2, <1>4, <1>5, OnlyOneInside DEF SlotAccounting, QueuedSlots, TypeOK
<1>7. SubmitControl'
  BY DEF TypeOK, SubmitControl
<1>8. OwnerControl'
  BY DEF TypeOK, OwnerControl
<1> QED
  BY <1>3, <1>6, <1>7, <1>8

\* A rejected handoff still holds its slot until it is released.
LEMMA RejectInv ==
  ASSUME Inv, NEW c \in Callers, Reject(c)
  PROVE  Inv'
<1> USE DEF Inv, poolVars, executorVars, callerVars, ownerVars, Reject
<1>1. TypeOK'
  BY DEF TypeOK
<1>2. SlotAccounting'
  BY DEF SlotAccounting, QueuedSlots, SubmitSlots
<1>3. SubmitControl' /\ OwnerControl'
  BY DEF TypeOK, SubmitControl, OwnerControl
<1> QED
  BY <1>1, <1>2, <1>3

\* Releasing a rejected slot frees exactly that slot.
LEMMA ReleaseRejectedInv ==
  ASSUME Inv, NEW c \in Callers, ReleaseRejected(c)
  PROVE  Inv'
<1> USE DEF Inv, poolVars, executorVars, callerVars, ownerVars, ReleaseRejected, Return
<1>1. item[c] \in Slots /\ item[c] # NoSlot /\ victim[c] = NoSlot
  BY SlotFacts DEF TypeOK, SubmitControl
<1>2. slotInUse' = slotInUse \ {item[c]}
  BY DEF Released, OwnerControl
<1>3. TypeOK'
  BY <1>2 DEF TypeOK, CountRejected
<1>4. SubmitSlots \cup {NoSlot} = {item[c], NoSlot} /\ SubmitSlots' \subseteq {NoSlot}
  BY <1>1, OnlyOneInside, HolderSlots DEF SubmitSlots, TypeOK
<1>5. item[c] \notin QueuedSlots /\ item[c] # executing
  BY <1>1, <1>4 DEF SlotAccounting
<1>6. SlotAccounting'
  BY <1>1, <1>2, <1>4, <1>5, OnlyOneInside DEF SlotAccounting, QueuedSlots, TypeOK
<1>7. SubmitControl'
  BY DEF TypeOK, SubmitControl
<1>8. OwnerControl'
  BY <1>2 DEF TypeOK, OwnerControl
<1> QED
  BY <1>3, <1>6, <1>7, <1>8

\* An evicted slot passes from the queue to the Submit that evicted it.
LEMMA EvictInv ==
  ASSUME Inv, NEW c \in Callers, Evict(c)
  PROVE  Inv'
<1> USE DEF Inv, poolVars, executorVars, callerVars, ownerVars, Evict
<1>1. queue # << >> /\ queue' \in Seq(Slots) /\ Len(queue') =< QueueDepth
  BY DEF TypeOK
<1>2. /\ Head(queue) \in Slots /\ Head(queue) \in SlotsOf(queue) /\ Distinct(queue')
      /\ SlotsOf(queue') = SlotsOf(queue) \ {Head(queue)}
  BY <1>1, TailSlots DEF TypeOK, SlotAccounting
<1>3. item[c] # NoSlot /\ victim[c] = NoSlot /\ Head(queue) # NoSlot
  BY <1>2, SlotFacts DEF SubmitControl
<1>4. TypeOK'
  BY <1>1, <1>2 DEF TypeOK
<1>5. /\ SubmitSlots \cup {NoSlot} = {item[c], NoSlot}
      /\ SubmitSlots' \cup {NoSlot} = {item[c], Head(queue), NoSlot}
  BY <1>3, OnlyOneInside, HolderSlots DEF SubmitSlots, TypeOK
<1>6. item[c] # Head(queue) /\ executing # Head(queue)
  BY <1>2, <1>3, <1>5 DEF SlotAccounting, QueuedSlots
<1>7. SlotAccounting'
  BY <1>2, <1>3, <1>5, <1>6, OnlyOneInside DEF SlotAccounting, QueuedSlots, TypeOK
<1>8. SubmitControl'
  BY <1>3 DEF TypeOK, SubmitControl
<1>9. OwnerControl'
  BY DEF TypeOK, OwnerControl
<1> QED
  BY <1>4, <1>7, <1>8, <1>9

\* The discard callback frees exactly the evicted slot.
LEMMA ReleaseEvictedInv ==
  ASSUME Inv, NEW c \in Callers, ReleaseEvicted(c)
  PROVE  Inv'
<1> USE DEF Inv, poolVars, executorVars, callerVars, ownerVars, ReleaseEvicted
<1>1. item[c] # NoSlot /\ victim[c] # NoSlot /\ item[c] # victim[c]
  BY DEF SubmitControl, SlotAccounting
<1>2. slotInUse' = slotInUse \ {victim[c]}
  BY DEF Released, OwnerControl
<1>3. TypeOK'
  BY <1>2 DEF TypeOK
<1>4. /\ SubmitSlots \cup {NoSlot} = {item[c], victim[c], NoSlot}
      /\ SubmitSlots' \cup {NoSlot} = {item[c], NoSlot}
  BY <1>1, OnlyOneInside, HolderSlots DEF SubmitSlots, TypeOK
<1>5. victim[c] \notin QueuedSlots /\ victim[c] # executing
  BY <1>1, <1>4 DEF SlotAccounting
<1>6. SlotAccounting'
  BY <1>1, <1>2, <1>4, <1>5, OnlyOneInside DEF SlotAccounting, QueuedSlots, TypeOK
<1>7. SubmitControl'
  BY <1>1 DEF TypeOK, SubmitControl
<1>8. OwnerControl'
  BY <1>2 DEF TypeOK, OwnerControl
<1> QED
  BY <1>3, <1>6, <1>7, <1>8

\* The oldest slot passes from the queue to the executor's task.
LEMMA TakeFrameInv ==
  ASSUME Inv, TakeFrame
  PROVE  Inv'
<1> USE DEF Inv, poolVars, executorVars, callerVars, ownerVars, TakeFrame
<1>1. queue' \in Seq(Slots) /\ Len(queue') =< QueueDepth
  BY DEF TypeOK
<1>2. /\ Head(queue) \in Slots /\ Head(queue) \in SlotsOf(queue) /\ Distinct(queue')
      /\ SlotsOf(queue') = SlotsOf(queue) \ {Head(queue)}
  BY TailSlots DEF TypeOK, SlotAccounting
<1>3. TypeOK'
  BY <1>1, <1>2 DEF TypeOK
<1>4. Head(queue) # NoSlot /\ Head(queue) \notin SubmitSlots
  BY <1>2, SlotFacts DEF SlotAccounting, QueuedSlots
<1>5. SlotAccounting'
  BY <1>2, <1>4 DEF SlotAccounting, QueuedSlots, SubmitSlots
<1>6. SubmitControl' /\ OwnerControl'
  BY DEF TypeOK, SubmitControl, OwnerControl
<1> QED
  BY <1>3, <1>5, <1>6

\* ~FrameRelease frees exactly the slot the handler has read.
LEMMA FinishFrameInv ==
  ASSUME Inv, FinishFrame
  PROVE  Inv'
<1> USE DEF Inv, poolVars, executorVars, callerVars, ownerVars, FinishFrame
<1>1. slotInUse' = slotInUse \ {executing}
  BY DEF Released, OwnerControl
<1>2. TypeOK'
  BY <1>1 DEF TypeOK
<1>5. QueuedSlots' = QueuedSlots /\ SubmitSlots' = SubmitSlots
  BY DEF QueuedSlots, SubmitSlots
<1>6. executing \notin QueuedSlots /\ executing \notin SubmitSlots
  BY DEF SlotAccounting
<1>7. NoSlot \notin QueuedSlots
  BY SlotFacts DEF QueuedSlots, SlotsOf, TypeOK
<1>3. SlotAccounting'
  BY <1>1, <1>5, <1>6, <1>7 DEF SlotAccounting
<1>4. SubmitControl' /\ OwnerControl'
  BY <1>1 DEF TypeOK, SubmitControl, OwnerControl
<1> QED
  BY <1>2, <1>3, <1>4

\* Shutdown takes the executor only when no Submit is inside.
LEMMA TakeExecutorInv ==
  ASSUME Inv, NEW init \in BOOLEAN, TakeExecutor(init)
  PROVE  Inv'
<1> USE DEF Inv, poolVars, executorVars, callerVars, ownerVars, TakeExecutor
<1>1. TypeOK'
  BY DEF TypeOK
<1>2. SlotAccounting'
  BY DEF SlotAccounting, QueuedSlots, SubmitSlots
<1>3. SubmitControl' /\ OwnerControl'
  BY DEF TypeOK, SubmitControl, OwnerControl
<1> QED
  BY <1>1, <1>2, <1>3

\* While the owner is past "idle" nobody is inside Submit.
LEMMA OwnerAlone ==
  ASSUME Inv, ownerPc # "idle"
  PROVE  /\ \A c \in Callers : pc[c] = "idle" /\ item[c] = NoSlot /\ victim[c] = NoSlot
         /\ SubmitSlots \subseteq {NoSlot}
  BY DEF Inv, OwnerControl, SubmitControl, SubmitSlots, TypeOK

\* Stop leaves no slot queued or executing.
LEMMA StopExecutorInv ==
  ASSUME Inv, StopExecutor
  PROVE  Inv'
<1> USE DEF Inv, poolVars, executorVars, callerVars, ownerVars, StopExecutor
<1>1. SubmitSlots' \subseteq {NoSlot}
  BY OwnerAlone DEF SubmitSlots
<1>2. TypeOK'
  <2>1. queue' \in Seq(Slots) /\ Len(queue') =< QueueDepth
    OBVIOUS
  <2> QED
    BY <2>1 DEF TypeOK
<1>3. SlotsOf(queue') = {} /\ Distinct(queue')
  BY EmptySlots
<1>4. SlotAccounting'
  BY <1>1, <1>3, OwnerAlone DEF SlotAccounting, QueuedSlots
<1>5. SubmitControl' /\ OwnerControl'
  BY OwnerAlone DEF TypeOK, SubmitControl, OwnerControl
<1> QED
  BY <1>2, <1>4, <1>5

\* Initialize and Shutdown rebuild or clear the pool only while it is unused.
LEMMA PoolInv ==
  ASSUME Inv, ClearPool \/ Allocate \/ AllocateFails \/ StartFails
  PROVE  Inv'
<1> USE DEF Inv, poolVars, executorVars, callerVars, ownerVars,
            ClearPool, Allocate, AllocateFails, StartFails, ClearedPool
<1>1. queue = << >> /\ executing = NoSlot /\ queue' = queue /\ executing' = executing
  BY DEF OwnerControl
<1>2. SubmitSlots' \subseteq {NoSlot} /\ slotInUse' = {}
  BY OwnerAlone DEF SubmitSlots
<1>3. TypeOK'
  BY <1>1 DEF TypeOK
<1>4. SlotAccounting'
  BY <1>1, <1>2, EmptySlots, OwnerAlone DEF SlotAccounting, QueuedSlots
<1>5. SubmitControl' /\ OwnerControl'
  BY <1>1, OwnerAlone DEF TypeOK, SubmitControl, OwnerControl
<1> QED
  BY <1>3, <1>4, <1>5

\* Starting and publishing the executor move no slot.
LEMMA StartOrPublishInv ==
  ASSUME Inv, StartExecutor \/ Publish
  PROVE  Inv'
<1> USE DEF Inv, poolVars, executorVars, callerVars, ownerVars, StartExecutor, Publish
<1>1. TypeOK'
  <2>1. handoffRejected' \in 0 .. RejectedCap
    BY DEF TypeOK
  <2> QED
    BY <2>1 DEF TypeOK
<1>2. SlotAccounting'
  BY DEF SlotAccounting, QueuedSlots, SubmitSlots
<1>3. SubmitControl' /\ OwnerControl'
  BY OwnerAlone DEF TypeOK, SubmitControl, OwnerControl
<1> QED
  BY <1>1, <1>2, <1>3

\* A step that changes nothing keeps the invariant.
LEMMA StutterInv ==
  ASSUME Inv, UNCHANGED vars
  PROVE  Inv'
  BY DEF Inv, TypeOK, SlotAccounting, QueuedSlots, SubmitSlots, SubmitControl,
         OwnerControl, vars, poolVars, executorVars, callerVars, ownerVars

\* Every step keeps the invariant.
LEMMA InvNext == Inv /\ [Next]_vars => Inv'
<1> SUFFICES ASSUME Inv, [Next]_vars PROVE Inv'
  OBVIOUS
<1>1. CASE \E c \in Callers : SubmitBegin(c) \/ SubmitStep(c)
  BY <1>1, SubmitBeginInv, AcquireFrameInv, EnqueueInv, RejectInv,
     ReleaseRejectedInv, EvictInv, ReleaseEvictedInv DEF SubmitStep
<1>2. CASE TaskStep
  BY <1>2, TakeFrameInv, FinishFrameInv DEF TaskStep
<1>3. CASE Shutdown \/ InitializeBegin
  BY <1>3, TakeExecutorInv DEF Shutdown, InitializeBegin
<1>4. CASE OwnerStep
  BY <1>4, StopExecutorInv, PoolInv, StartOrPublishInv DEF OwnerStep
<1>5. CASE UNCHANGED vars
  BY <1>5, StutterInv
<1> QED
  BY <1>1, <1>2, <1>3, <1>4, <1>5 DEF Next

\* The invariant holds in every reachable state.
LEMMA Invariance == Spec => []Inv
  BY InitInv, InvNext, PTL DEF Spec

-----------------------------------------------------------------------------
(* The results.                                                             *)

\* Every reachable state is well typed and the queue never exceeds its depth,
\* for every depth and any number of callers of Submit.
THEOREM TypeCorrect == Spec => []TypeOK
  BY Invariance, PTL DEF Inv

\* No slot of the frame pool leaks, and none is handed out twice, whatever the
\* interleaving of Submit, ProcessFrame, the discard callback, Initialize and
\* Shutdown.
THEOREM PoolAccounted == Spec => []SlotAccounting
  BY Invariance, PTL DEF Inv

\* A queue of n items has at most n slots.
LEMMA QueueCardinality ==
  ASSUME NEW S, NEW q \in Seq(S)
  PROVE  IsFiniteSet(SlotsOf(q)) /\ Cardinality(SlotsOf(q)) \in Nat
         /\ Cardinality(SlotsOf(q)) =< Len(q)
<1> DEFINE f == [i \in 1 .. Len(q) |-> q[i]]
<1>1. Len(q) \in Nat
  OBVIOUS
<1>2. f \in Surjection(1 .. Len(q), SlotsOf(q))
  BY DEF Surjection, SlotsOf
<1>3. IsFiniteSet(1 .. Len(q)) /\ Cardinality(1 .. Len(q)) = Len(q)
  BY <1>1, FS_Interval
<1>4. IsFiniteSet(SlotsOf(q)) /\ Cardinality(SlotsOf(q)) =< Len(q)
  BY <1>2, <1>3, FS_Surjection
<1> QED
  BY <1>4, FS_CardinalityType

\* At the moment AcquireFrame scans the pool, the queue and the executor's
\* task hold at most QueueDepth + 1 of its QueueDepth + 2 slots.
LEMMA FreeSlotExists == Inv => AcquireAlwaysSucceeds
<1> SUFFICES ASSUME Inv, NEW c \in Callers, pc[c] = "acquire", FreeSlots = {}
             PROVE  FALSE
  BY DEF AcquireAlwaysSucceeds
<1> DEFINE Q == SlotsOf(queue)
<1>1. SubmitSlots \subseteq {NoSlot}
  BY HolderSlots DEF Inv, SubmitControl
<1>2. Slots \subseteq Q \cup {executing}
  BY <1>1 DEF FreeSlots, Inv, TypeOK, OwnerControl, SlotAccounting, QueuedSlots
<1>3. /\ IsFiniteSet(Q) /\ Cardinality(Q) \in Nat
      /\ Cardinality(Q) =< Len(queue) /\ Len(queue) =< QueueDepth /\ Len(queue) \in Nat
  BY QueueCardinality DEF Inv, TypeOK
<1>4. /\ IsFiniteSet(Q \cup {executing})
      /\ Cardinality(Q \cup {executing}) =< Cardinality(Q) + 1
      /\ Cardinality(Q \cup {executing}) \in Nat
  <2>1. /\ IsFiniteSet(Q \cup {executing})
        /\ Cardinality(Q \cup {executing}) =
             IF executing \in Q THEN Cardinality(Q) ELSE Cardinality(Q) + 1
    BY <1>3, FS_AddElement
  <2> QED
    BY <1>3, <2>1
<1>5. Cardinality(Slots) = QueueDepth + 2
  BY FS_Interval DEF Slots, PoolSize
<1>6. Cardinality(Slots) =< Cardinality(Q \cup {executing})
  BY <1>2, <1>4, FS_Subset
<1> QED
  BY <1>3, <1>4, <1>5, <1>6

\* AcquireFrame never returns nullptr: QueueDepth + 2 slots are enough for any
\* depth, both policies and any number of callers.
THEOREM AcquireNeverFails == Spec => []AcquireAlwaysSucceeds
  BY Invariance, FreeSlotExists, PTL

\* Under DropOldest nobody is on the rejecting path.
NoRejection == initialized /\ dropOldest =>
                 handoffRejected = 0 /\ \A c \in Callers : pc[c] # "reject"

\* Under DropOldest no incoming frame is ever rejected.
THEOREM DropOldestKeepsIncoming == Spec => []DropOldestNeverRejects
<1>1. Init => NoRejection
  BY DEF Init, NoRejection
<1>2. Inv /\ NoRejection /\ [Next]_vars => NoRejection'
  <2> SUFFICES ASSUME Inv, NoRejection, [Next]_vars, initialized', dropOldest' PROVE NoRejection'
    BY DEF NoRejection
  <2> USE DEF NoRejection
  <2>1. ASSUME NEW c \in Callers, SubmitBegin(c) PROVE NoRejection'
    BY <2>1 DEF SubmitBegin, executorVars, Inv, TypeOK
  <2>2. ASSUME NEW c \in Callers, AcquireFrame(c) PROVE NoRejection'
    BY <2>2, FreeSlotExists
       DEF AcquireFrame, executorVars, NoFreeSlot, FirstFreeSlot, AcquireAlwaysSucceeds, Inv, TypeOK
  <2>3. ASSUME NEW c \in Callers, Enqueue(c) \/ Reject(c) \/ ReleaseRejected(c) PROVE NoRejection'
    BY <2>3 DEF Enqueue, Reject, ReleaseRejected, Return, executorVars, Inv, TypeOK
  <2>4. ASSUME NEW c \in Callers, Evict(c) \/ ReleaseEvicted(c) PROVE NoRejection'
    BY <2>4 DEF Evict, ReleaseEvicted, executorVars, Inv, TypeOK
  <2>5. CASE TaskStep
    BY <2>5 DEF TaskStep, TakeFrame, FinishFrame, callerVars
  <2>6. CASE Shutdown \/ InitializeBegin
    BY <2>6 DEF Shutdown, InitializeBegin, TakeExecutor, callerVars
  <2>7. CASE OwnerStep
    BY <2>7 DEF OwnerStep, StopExecutor, ClearPool, Allocate, AllocateFails, StartExecutor,
                StartFails, Publish, callerVars, executorVars, Inv, OwnerControl, TypeOK
  <2>8. CASE UNCHANGED vars
    BY <2>8 DEF vars, callerVars, executorVars
  <2> QED
    BY <2>1, <2>2, <2>3, <2>4, <2>5, <2>6, <2>7, <2>8 DEF Next, SubmitStep
<1>3. NoRejection => DropOldestNeverRejects
  BY DEF NoRejection, DropOldestNeverRejects
<1> QED
  BY Invariance, <1>1, <1>2, <1>3, PTL DEF Spec

\* Submit never works on an executor, and the handler never reads a frame,
\* that Shutdown has torn down.
THEOREM TeardownSafe == Spec => []NoUseAfterTeardown
<1>1. Inv => NoUseAfterTeardown
  BY DEF Inv, OwnerControl, NoUseAfterTeardown, TypeOK
<1> QED
  BY Invariance, <1>1, PTL

-----------------------------------------------------------------------------
(* Refinement.                                                              *)

\* What the handler will read behind a queue of slots.
Contents(g, q) == [i \in 1 .. Len(q) |-> g[q[i]]]

\* The frames behind a queue of slots are as many as the slots.
LEMMA ContentsFacts ==
  ASSUME NEW g \in [Slots -> Frames \cup {NoFrame}], NEW q \in Seq(Slots)
  PROVE  /\ Contents(g, q) \in Seq(Frames \cup {NoFrame}) /\ Len(Contents(g, q)) = Len(q)
         /\ Contents(g, q) = << >> <=> q = << >>
  BY DEF Contents

\* Enqueueing a slot appends its frame.
LEMMA ContentsAppend ==
  ASSUME NEW g \in [Slots -> Frames \cup {NoFrame}], NEW q \in Seq(Slots), NEW s \in Slots
  PROVE  Contents(g, Append(q, s)) = Append(Contents(g, q), g[s])
  BY DEF Contents

\* Taking the first slot takes the first frame.
LEMMA ContentsTail ==
  ASSUME NEW g \in [Slots -> Frames \cup {NoFrame}], NEW q \in Seq(Slots), q # << >>
  PROVE  /\ Contents(g, Tail(q)) = Tail(Contents(g, q))
         /\ Head(Contents(g, q)) = g[Head(q)]
  BY DEF Contents

\* A slot outside the queue can be overwritten without the queue noticing.
LEMMA ContentsOverwrite ==
  ASSUME NEW g \in [Slots -> Frames \cup {NoFrame}], NEW q \in Seq(Slots),
         NEW s \in Slots \ SlotsOf(q), NEW x
  PROVE  Contents([g EXCEPT ![s] = x], q) = Contents(g, q)
<1>1. \A i \in 1 .. Len(q) : q[i] \in Slots /\ q[i] # s
  BY DEF SlotsOf
<1> QED
  BY <1>1 DEF Contents

\* A slot in use holds a frame, so the handler never reads an empty slot.
FramesPresent == \A s \in slotInUse : frames[s] \in Frames

\* A slot in use holds a frame, after every step.
LEMMA FramesPresentNext == Inv /\ FramesPresent /\ [Next]_vars => FramesPresent'
<1> SUFFICES ASSUME Inv, FramesPresent, [Next]_vars PROVE FramesPresent'
  OBVIOUS
<1> USE DEF FramesPresent, poolVars
<1>1. ASSUME NEW c \in Callers, AcquireFrame(c) PROVE FramesPresent'
  BY <1>1 DEF AcquireFrame, NoFreeSlot, FirstFreeSlot, FreeSlots, Inv, TypeOK, SubmitControl
<1>2. ASSUME NEW c \in Callers, SubmitBegin(c) \/ Enqueue(c) \/ Reject(c) \/ Evict(c)
      PROVE FramesPresent'
  BY <1>2 DEF SubmitBegin, Enqueue, Reject, Evict
<1>3. ASSUME NEW c \in Callers, ReleaseRejected(c) \/ ReleaseEvicted(c) PROVE FramesPresent'
  BY <1>3 DEF ReleaseRejected, ReleaseEvicted, Released
<1>4. CASE TaskStep
  BY <1>4 DEF TaskStep, TakeFrame, FinishFrame, Released
<1>5. CASE Shutdown \/ InitializeBegin
  BY <1>5 DEF Shutdown, InitializeBegin, TakeExecutor
<1>6. CASE OwnerStep
  BY <1>6 DEF OwnerStep, StopExecutor, ClearPool, Allocate, AllocateFails,
              StartExecutor, StartFails, Publish, ClearedPool
<1>7. CASE UNCHANGED vars
  BY <1>7 DEF vars
<1> QED
  BY <1>1, <1>2, <1>3, <1>4, <1>5, <1>6, <1>7 DEF Next, SubmitStep

\* The state of FrameHandoff that AsyncHandler's state stands for.
Pending == Contents(frames, queue)
Running == IF executing = NoSlot THEN NoFrame ELSE frames[executing]

\* FrameHandoff's variables are unchanged.
HandoffStutters == /\ initialized' = initialized /\ dropOldest' = dropOldest
                   /\ Pending' = Pending /\ Running' = Running

\* A step of Submit accepts a frame, evicts the oldest one or is invisible.
LEMMA SubmitRefines ==
  ASSUME Inv, FramesPresent, NEW c \in Callers, SubmitBegin(c) \/ SubmitStep(c)
  PROVE  Handoff!Next \/ HandoffStutters
<1> USE DEF Inv, poolVars, executorVars, callerVars, ownerVars
<1>0. frames \in [Slots -> Frames \cup {NoFrame}] /\ queue \in Seq(Slots)
  BY DEF TypeOK
<1>1. CASE SubmitBegin(c) \/ Reject(c) \/ ReleaseRejected(c) \/ ReleaseEvicted(c)
  BY <1>1 DEF SubmitBegin, Reject, ReleaseRejected, ReleaseEvicted, HandoffStutters,
              Pending, Running, Contents
<1>2. CASE AcquireFrame(c)
  <2>1. CASE NoFreeSlot(c)
    BY <1>2, <2>1 DEF AcquireFrame, NoFreeSlot, HandoffStutters, Pending, Running
  <2>2. CASE FirstFreeSlot(c)
    <3>1. PICK s \in FreeSlots : frames' = [frames EXCEPT ![s] = incoming[c]]
      BY <2>2 DEF FirstFreeSlot
    <3>2. s \in Slots \ SlotsOf(queue) /\ s # executing
      BY SlotFacts DEF FreeSlots, SlotAccounting, QueuedSlots
    <3>3. Pending' = Pending
      BY <1>0, <1>2, <3>1, <3>2, ContentsOverwrite DEF AcquireFrame, Pending
    <3>4. Running' = Running
      BY <1>2, <3>1, <3>2 DEF AcquireFrame, Running, TypeOK
    <3> QED
      BY <1>2, <3>3, <3>4 DEF AcquireFrame, HandoffStutters
  <2> QED
    BY <1>2, <2>1, <2>2 DEF AcquireFrame
<1>3. CASE Enqueue(c)
  <2>1. item[c] \in Slots /\ item[c] \in slotInUse
    BY <1>3 DEF Enqueue, TypeOK, SubmitControl, SlotAccounting, SubmitSlots
  <2>2. Pending' = Append(Pending, frames[item[c]]) /\ frames[item[c]] \in Frames
    BY <1>0, <1>3, <2>1, ContentsAppend DEF Enqueue, Pending, FramesPresent
  <2>3. Len(Pending) < QueueDepth
    BY <1>0, <1>3, ContentsFacts DEF Enqueue, Pending
  <2>4. Running' = Running /\ initialized' = initialized /\ initialized /\ dropOldest' = dropOldest
    BY <1>3 DEF Enqueue, Running, OwnerControl
  <2> QED
    BY <2>2, <2>3, <2>4 DEF Handoff!Next, Handoff!Accept, Pending, Running, Contents
<1>4. CASE Evict(c)
  <2>1. queue # << >> /\ Len(queue) = QueueDepth
    BY <1>4 DEF Evict, TypeOK
  <2>2. Pending' = Tail(Pending) /\ Len(Pending) = QueueDepth
    BY <1>0, <1>4, <2>1, ContentsTail, ContentsFacts DEF Evict, Pending
  <2>3. Running' = Running /\ initialized' = initialized /\ initialized /\ dropOldest
        /\ dropOldest' = dropOldest
    BY <1>4 DEF Evict, Running, OwnerControl
  <2> QED
    BY <2>2, <2>3 DEF Handoff!Next, Handoff!Evict, Pending, Running, Contents
<1> QED
  BY <1>1, <1>2, <1>3, <1>4 DEF SubmitStep

\* A step of the executor's task takes a frame or finishes one.
LEMMA TaskRefines ==
  ASSUME Inv, FramesPresent, TaskStep
  PROVE  Handoff!Next \/ HandoffStutters
<1> USE DEF Inv, poolVars, executorVars, callerVars, ownerVars
<1>0. frames \in [Slots -> Frames \cup {NoFrame}] /\ queue \in Seq(Slots)
  BY DEF TypeOK
<1>1. CASE TakeFrame
  <2>1. /\ Pending # << >> /\ Pending' = Tail(Pending)
        /\ Head(Pending) = frames[Head(queue)]
    BY <1>0, <1>1, ContentsTail, ContentsFacts DEF TakeFrame, Pending
  <2>2. Head(queue) \in Slots /\ Head(queue) # NoSlot
    BY <1>1, SlotFacts DEF TakeFrame, TypeOK
  <2>3. Running = NoFrame /\ Running' = Head(Pending) /\ initialized' = initialized
        /\ dropOldest' = dropOldest
    BY <1>1, <2>1, <2>2 DEF TakeFrame, Running
  <2> QED
    BY <2>1, <2>3 DEF Handoff!Next, Handoff!Take, Pending, Running, Contents
<1>2. CASE FinishFrame
  <2>1. executing \in slotInUse
    BY <1>2 DEF FinishFrame, SlotAccounting
  <2>2. Running # NoFrame /\ Running' = NoFrame
    BY <1>2, <2>1 DEF FinishFrame, Running, FramesPresent
  <2>3. Pending' = Pending /\ initialized' = initialized /\ dropOldest' = dropOldest
    BY <1>2 DEF FinishFrame, Pending
  <2> QED
    BY <2>2, <2>3 DEF Handoff!Next, Handoff!Finish, Pending, Running, Contents
<1> QED
  BY <1>1, <1>2 DEF TaskStep

\* A lifecycle step opens, closes, configures or empties the queue, or is invisible.
LEMMA OwnerRefines ==
  ASSUME Inv, Shutdown \/ InitializeBegin \/ OwnerStep
  PROVE  Handoff!Next \/ HandoffStutters
<1> USE DEF Inv, poolVars, executorVars, callerVars, ownerVars
<1>1. CASE Shutdown \/ InitializeBegin
  <2>1. Pending' = Pending /\ Running' = Running /\ initialized' = FALSE
        /\ dropOldest' = dropOldest
    BY <1>1 DEF Shutdown, InitializeBegin, TakeExecutor, Pending, Running
  <2> QED
    BY <2>1 DEF Handoff!Next, Handoff!Close, HandoffStutters, Pending, Running, Contents, TypeOK
<1>2. CASE StopExecutor
  <2>1. ~initialized /\ initialized' = initialized /\ dropOldest' = dropOldest
    BY <1>2 DEF StopExecutor, OwnerControl
  <2>2. Pending' = << >> /\ Running = NoFrame /\ Running' = NoFrame
    BY <1>2 DEF StopExecutor, Pending, Running, Contents
  <2> QED
    BY <2>1, <2>2 DEF Handoff!Next, Handoff!Discard, Pending, Running, Contents
<1>3. CASE ClearPool \/ Allocate \/ AllocateFails \/ StartFails
  <2>1. queue = << >> /\ executing = NoSlot /\ queue' = << >> /\ executing' = NoSlot
    BY <1>3 DEF ClearPool, Allocate, AllocateFails, StartFails, OwnerControl
  <2> QED
    BY <1>3, <2>1 DEF ClearPool, Allocate, AllocateFails, StartFails, HandoffStutters,
                      Pending, Running, Contents
<1>4. CASE StartExecutor
  <2>1. queue = << >> /\ executing = NoSlot /\ queue' = queue /\ executing' = executing
        /\ ~initialized /\ initialized' = initialized /\ dropOldest' \in BOOLEAN
    BY <1>4 DEF StartExecutor, OwnerControl
  <2>2. Pending = << >> /\ Pending' = << >> /\ Running = NoFrame /\ Running' = NoFrame
    BY <2>1 DEF Pending, Running, Contents
  <2> QED
    BY <2>1, <2>2 DEF Handoff!Next, Handoff!Configure, Pending, Running, Contents
<1>5. CASE Publish
  <2>1. queue = << >> /\ executing = NoSlot /\ queue' = queue /\ executing' = executing
        /\ ~initialized /\ initialized' = TRUE /\ dropOldest' = dropOldest
    BY <1>5 DEF Publish, OwnerControl, TypeOK
  <2>2. Pending = << >> /\ Pending' = << >> /\ Running = NoFrame /\ Running' = NoFrame
    BY <2>1 DEF Pending, Running, Contents
  <2> QED
    BY <2>1, <2>2 DEF Handoff!Next, Handoff!Open, Pending, Running, Contents
<1> QED
  BY <1>1, <1>2, <1>3, <1>4, <1>5 DEF OwnerStep

\* ESPNowAsyncProtocolHandler implements FrameHandoff: the handler reads the
\* accepted frames in order and unchanged, although slots are reused, items
\* are evicted and the executor is torn down and rebuilt around it.
THEOREM Refinement == Spec => HandoffSpec
<1>1. Init => Handoff!Init
  BY DEF Init, Handoff!Init
<1>2. Init => FramesPresent
  BY DEF Init, FramesPresent
<1>3. Inv /\ FramesPresent /\ [Next]_vars => [Handoff!Next]_Handoff!vars
  <2> SUFFICES ASSUME Inv, FramesPresent, [Next]_vars
               PROVE  Handoff!Next \/ HandoffStutters
    BY DEF HandoffStutters, Handoff!vars, Pending, Running, Contents
  <2>1. CASE UNCHANGED vars
    BY <2>1 DEF vars, poolVars, executorVars, HandoffStutters, Pending, Running
  <2> QED
    BY <2>1, SubmitRefines, TaskRefines, OwnerRefines DEF Next
<1> QED
  BY Invariance, FramesPresentNext, <1>1, <1>2, <1>3, PTL DEF Spec, HandoffSpec, Handoff!Spec
=============================================================================
