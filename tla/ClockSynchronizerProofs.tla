----------------------- MODULE ClockSynchronizerProofs -----------------------
(***************************************************************************)
(* The clock synchronizer for every number of references, configurations and *)
(* exchanges, up to the wrap of the sequence: samples are submitted in order, *)
(* once each; and with Update on the worker they are of one clock, and the    *)
(* request last sent is the one that is awaited.                              *)
(***************************************************************************)
EXTENDS ClockSynchronizer, TLAPS

-----------------------------------------------------------------------------
(* The inductive invariant.                                                 *)

Messages == requests \cup responses

\* Sequence s was taken for exchange k: as many sequences were taken since as
\* exchanges were begun, and the counter wrapped at most once.
IssuedAt(s, k, count, next) == /\ k \in 1 .. count
                               /\ s + (count + 1 - k) \in {next, next + SequenceCount}
Issued(s, k) == IssuedAt(s, k, exchanges, nextSequence)

Requesting == caller.at \in {"store", "send"}

\* Whatever carries a sequence and an exchange carries a pair that was issued;
\* while a request is being made, its exchange is the last one, its reference is
\* known and nothing of it is in the air yet.
IssueControl ==
  /\ \A m \in Messages : Issued(m.sequence, m.t1.exchange)
  /\ Requesting => /\ Issued(caller.sequence, caller.t1.exchange)
                   /\ caller.t1.exchange = exchanges
                   /\ config.reference # NoPeer
                   /\ \A m \in Messages : m.t1.exchange < exchanges
  /\ worker.at # "idle" => /\ worker.t1.exchange \in 1 .. exchanges
                           /\ Requesting => worker.t1.exchange < exchanges
  /\ awaited # Answered => Issued(awaited.sequence, awaited.exchange)

\* Exchange k is later than every sample submitted.
AfterSamples(k) == \A i \in 1 .. Len(samples) : samples[i].t1.exchange < k

\* The pending exchange is later than everything submitted, and not older than
\* what the worker has accepted and not submitted yet.
OrderControl ==
  /\ Requesting => AfterSamples(caller.t1.exchange)
  /\ AfterSamples(exchanges + 1)
  /\ worker.at # "idle" => AfterSamples(worker.t1.exchange)
  /\ pending # 0 => \E k \in 1 .. exchanges :
       /\ Issued(pending, k)
       /\ AfterSamples(k)
       /\ worker.at = "consume" => worker.t1.exchange =< k
       /\ worker.at = "submit" => worker.t1.exchange < k

\* On the worker, calls and frames take turns, so nothing that is still to be
\* answered was read before the last adjustment.
ClockControl ==
  onWorker =>
    /\ worker.at # "idle" => caller.at = "idle" /\ worker.t1.era = era
    /\ worker.at = "submit" => pending = 0
    /\ Requesting => caller.t1.era = era
    /\ pending # 0 => \A m \in Messages : m.sequence = pending => m.t1.era = era

\* On the worker, the request last sent is pending, or its answer is in the
\* worker's hands.
AwaitControl ==
  onWorker =>
    /\ caller.at = "send" => pending = caller.sequence /\ awaited = Answered
    /\ awaited # Answered /\ awaited.sequence # 0 =>
         IF worker.at = "idle" THEN awaited.sequence = pending
                               ELSE awaited.exchange = worker.t1.exchange

\* Every attempt is recorded in _lastRequestMonotonicNanoseconds.
AgeControl == lastRequest = lastAttempt

Inv == /\ TypeOK /\ IssueControl /\ OrderControl /\ SamplesInOrder
       /\ ClockControl /\ SampleOfOneClock /\ AwaitControl /\ AgeControl

-----------------------------------------------------------------------------
(* Lemmas about sequences and about the threads' places.                    *)

USE NoPeerAssumption, ConfigsAssumption, IntervalAssumption, MaxExchangesAssumption,
    SequenceCountAssumption, FirstSequencesAssumption

Sequence == 0 .. SequenceCount - 1

\* The 32-bit counter wraps to 0.
LEMMA NextSequence ==
  ASSUME NEW n \in Sequence
  PROVE  (n + 1) % SequenceCount = IF n + 1 = SequenceCount THEN 0 ELSE n + 1
<1>1. SequenceCount \in Nat \ {0}
  OBVIOUS
<1>2. CASE n + 1 = SequenceCount
  <2>1. SequenceCount % SequenceCount = 0
    BY <1>1
  <2> QED
    BY <1>2, <2>1
<1>3. CASE n + 1 # SequenceCount
  <2>1. n + 1 \in 0 .. SequenceCount - 1
    BY <1>1, <1>3 DEF Sequence
  <2>2. \A m \in 0 .. SequenceCount - 1 : m % SequenceCount = m
    BY <1>1
  <2> QED
    BY <1>3, <2>1, <2>2
<1> QED
  BY <1>2, <1>3

\* A sequence stands for one exchange: there are fewer exchanges than sequences.
LEMMA IssuedUnique ==
  ASSUME NEW s \in Sequence, NEW e \in 0 .. MaxExchanges, NEW n \in Sequence,
         NEW j, NEW k, IssuedAt(s, j, e, n), IssuedAt(s, k, e, n)
  PROVE  j = k
  BY DEF IssuedAt, Sequence

\* Taking the next sequence keeps what was issued, and issues one more.
LEMMA IssuedNext ==
  ASSUME NEW e \in 0 .. MaxExchanges, e < MaxExchanges, NEW n \in Sequence
  PROVE  LET m == (n + 1) % SequenceCount
         IN  /\ m \in Sequence
             /\ \A s \in Sequence, k \in 1 .. e : IssuedAt(s, k, e, n) => IssuedAt(s, k, e + 1, m)
             /\ IssuedAt(n, e + 1, e + 1, m)
<1> DEFINE m == (n + 1) % SequenceCount
<1>1. m = IF n + 1 = SequenceCount THEN 0 ELSE n + 1
  BY NextSequence
<1> HIDE DEF m
<1>2. m \in Sequence
  BY <1>1 DEF Sequence
<1>3. ASSUME NEW s \in Sequence, NEW k \in 1 .. e, IssuedAt(s, k, e, n)
      PROVE  IssuedAt(s, k, e + 1, m)
  BY <1>1, <1>3 DEF IssuedAt, Sequence
<1>4. IssuedAt(n, e + 1, e + 1, m)
  BY <1>1 DEF IssuedAt, Sequence
<1> QED
  BY <1>2, <1>3, <1>4 DEF m

Caller == {Idle} \cup [at : {"register", "reset", "unregister"}]
          \cup [at : {"store", "send"}, sequence : Sequence, t1 : Reading]
Worker == {Idle} \cup [at : {"consume", "submit"}, t1 : Reading]

\* Where the caller is tells what it holds.
LEMMA CallerPlaces ==
  ASSUME NEW c \in Caller
  PROVE  /\ c.at \in {"idle", "register", "reset", "unregister", "store", "send"}
         /\ c.at = "idle" <=> c = Idle
         /\ c.at \in {"store", "send"} => /\ c.sequence \in Sequence /\ c.t1 \in Reading
                                          /\ c \in [at : {"store", "send"}, sequence : Sequence, t1 : Reading]
  BY DEF Caller, Idle

\* Where the worker is tells what it holds.
LEMMA WorkerPlaces ==
  ASSUME NEW w \in Worker
  PROVE  /\ w.at \in {"idle", "consume", "submit"}
         /\ w.at = "idle" <=> w = Idle
         /\ w.at \in {"consume", "submit"} => /\ w.t1 \in Reading
                                              /\ w \in [at : {"consume", "submit"}, t1 : Reading]
  BY DEF Worker, Idle

\* The request moves on with its sequence and T1.
LEMMA CallerMove ==
  ASSUME NEW c \in Caller, c.at = "store"
  PROVE  LET d == [c EXCEPT !.at = "send"]
         IN  d \in Caller /\ d.at = "send" /\ d.sequence = c.sequence /\ d.t1 = c.t1
<1>1. c \in [at : {"store", "send"}, sequence : Sequence, t1 : Reading]
  BY CallerPlaces
<1> QED
  BY <1>1 DEF Caller

\* The accepted response moves on with its T1.
LEMMA WorkerMove ==
  ASSUME NEW w \in Worker, w.at = "consume"
  PROVE  LET d == [w EXCEPT !.at = "submit"]
         IN  d \in Worker /\ d.at = "submit" /\ d.t1 = w.t1
<1>1. w \in [at : {"consume", "submit"}, t1 : Reading]
  BY WorkerPlaces
<1> QED
  BY <1>1 DEF Worker

\* The parts of TypeOK under these names.
LEMMA TypeFacts ==
  ASSUME TypeOK
  PROVE  /\ caller \in Caller /\ worker \in Worker
         /\ nextSequence \in Sequence /\ pending \in Sequence
         /\ exchanges \in 0 .. MaxExchanges /\ era \in Nat
         /\ \A m \in Messages : m.sequence \in Sequence /\ m.t1 \in Reading
         /\ awaited.sequence \in Sequence /\ awaited.exchange \in 0 .. MaxExchanges
         /\ \A i \in 1 .. Len(samples) : samples[i].t1 \in Reading /\ samples[i].t4 \in Nat
         /\ samples \in Seq([t1 : Reading, t4 : Nat])
<1>1. /\ caller \in Caller /\ worker \in Worker
      /\ nextSequence \in Sequence /\ pending \in Sequence
      /\ exchanges \in 0 .. MaxExchanges /\ era \in Nat
      /\ samples \in Seq([t1 : Reading, t4 : Nat])
  BY DEF TypeOK, Caller, Worker, Sequence
<1>2. \A m \in Messages : m.sequence \in Sequence /\ m.t1 \in Reading
  BY DEF TypeOK, Sequence, Messages
<1>3. awaited.sequence \in Sequence /\ awaited.exchange \in 0 .. MaxExchanges
  <2>1. awaited \in [sequence : Sequence, exchange : 0 .. MaxExchanges]
    BY DEF TypeOK, Sequence
  <2> QED
    BY <2>1
<1>4. \A i \in 1 .. Len(samples) : samples[i] \in [t1 : Reading, t4 : Nat]
  <2> DEFINE R == [t1 : Reading, t4 : Nat]
  <2>1. samples \in Seq(R)
    BY <1>1
  <2> HIDE DEF R
  <2>2. \A i \in 1 .. Len(samples) : samples[i] \in R
    BY <2>1
  <2> QED
    BY <2>2 DEF R
<1> QED
  BY <1>1, <1>2, <1>3, <1>4

\* A reading is of one exchange and one era.
LEMMA ReadingFacts ==
  \A r \in Reading : r.exchange \in 1 .. MaxExchanges /\ r.exchange \in Nat /\ r.era \in Nat
  BY DEF Reading

\* A record of [t1, t4] appended to the samples.
LEMMA AppendSample ==
  ASSUME NEW q \in Seq([t1 : Reading, t4 : Nat]), NEW x \in [t1 : Reading, t4 : Nat]
  PROVE  LET a == Append(q, x)
         IN  /\ a \in Seq([t1 : Reading, t4 : Nat]) /\ Len(a) = Len(q) + 1 /\ Len(q) \in Nat
             /\ a[Len(q) + 1] = x /\ \A i \in 1 .. Len(q) : a[i] = q[i]
  OBVIOUS

-----------------------------------------------------------------------------
(* One lemma per kind of step.                                              *)

\* Nothing has been asked yet.
LEMMA InitInv == Init => Inv
<1> SUFFICES ASSUME Init PROVE Inv
  OBVIOUS
<1>1. onWorker \in BOOLEAN /\ initialized \in BOOLEAN /\ registered \in BOOLEAN
  BY Zenon DEF Init
<1>2. /\ samples \in Seq([t1 : Reading, t4 : Nat]) /\ Len(samples) = 0
      /\ caller.at = "idle" /\ worker.at = "idle" /\ Messages = {}
  BY DEF Init, Idle, Messages
<1>3. TypeOK
  BY <1>1, <1>2 DEF Init, TypeOK, Age, Answered
<1>4. IssueControl
  BY <1>2 DEF Init, IssueControl, Requesting
<1>5. OrderControl /\ SamplesInOrder /\ SampleOfOneClock
  BY <1>2 DEF Init, OrderControl, Requesting, AfterSamples, SamplesInOrder, SampleOfOneClock
<1>6. ClockControl /\ AwaitControl /\ AgeControl
  BY <1>2 DEF Init, ClockControl, AwaitControl, AgeControl, Requesting
<1> QED
  BY <1>3, <1>4, <1>5, <1>6 DEF Inv

\* The steps of Initialize and Shutdown that leave the pending exchange alone.
LEMMA SetupInv ==
  ASSUME Inv, InitializeConfig \/ InitializeFails \/ InitializeRegister \/ ShutdownUnregister
  PROVE  Inv'
<1> USE DEF fieldVars, airVars, historyVars
<1>0. UNCHANGED <<onWorker, initialized, nextSequence, pending, lastRequest, worker, requests,
                  responses, era, exchanges, samples, lastAttempt, awaited>>
  BY DEF InitializeConfig, InitializeFails, InitializeRegister, ShutdownUnregister
<1>c. /\ caller.at \notin {"store", "send"} /\ caller'.at \notin {"store", "send"}
      /\ caller' \in Caller
      /\ onWorker => worker.at = "idle"
  <2>1. Idle.at = "idle" /\ Idle \in Caller
    BY DEF Idle, Caller
  <2>2. [at |-> "register"] \in Caller /\ [at |-> "reset"] \in Caller
    BY DEF Caller
  <2> QED
    BY <2>1, <2>2
    DEF InitializeConfig, InitializeFails, InitializeRegister, ShutdownUnregister, CallerRuns
<1>1. TypeOK'
  <2>1. config' \in Configs /\ registered' \in BOOLEAN
    BY DEF Inv, TypeOK, InitializeConfig, InitializeFails, InitializeRegister,
           ShutdownUnregister
  <2> QED
    BY <1>0, <1>c, <2>1 DEF Inv, TypeOK, Caller, Sequence
<1>2. IssueControl'
  BY <1>0, <1>c DEF Inv, IssueControl, Issued, Messages, Requesting
<1>3. OrderControl' /\ SamplesInOrder' /\ SampleOfOneClock'
  BY <1>0, <1>c DEF Inv, OrderControl, Issued, AfterSamples, Requesting, SamplesInOrder,
                    SampleOfOneClock
<1>4. ClockControl' /\ AwaitControl' /\ AgeControl'
  BY <1>0, <1>c DEF Inv, ClockControl, AwaitControl, AgeControl, Messages, Requesting
<1> QED
  BY <1>1, <1>2, <1>3, <1>4 DEF Inv

\* Time passes.
LEMMA TickInv ==
  ASSUME Inv, Tick
  PROVE  Inv'
<1> USE DEF airVars
<1>0. UNCHANGED <<onWorker, config, initialized, registered, nextSequence, pending, caller,
                  worker, requests, responses, era, exchanges, samples, awaited>>
  BY DEF Tick
<1>1. lastRequest' \in Age /\ lastAttempt' \in Age /\ AgeControl'
  BY DEF Tick, Inv, TypeOK, AgeControl, Age, Older
<1> QED
  BY <1>0, <1>1
  DEF Inv, TypeOK, IssueControl, Issued, Messages, Requesting, OrderControl, AfterSamples,
      SamplesInOrder, ClockControl, SampleOfOneClock, AwaitControl

\* InitializeReset, Shutdown and a failed send drop the pending exchange.
LEMMA DropInv ==
  ASSUME Inv, InitializeReset \/ Shutdown \/ SendRequestFails
  PROVE  Inv'
<1> USE DEF airVars, historyVars
<1>0. /\ UNCHANGED <<onWorker, config, registered, nextSequence, worker, requests, responses,
                     era, exchanges, samples>>
      /\ pending' = 0
  BY DEF InitializeReset, Shutdown, SendRequestFails
<1>c. /\ caller' \in Caller /\ caller'.at \notin {"store", "send"}
      /\ onWorker => worker.at = "idle"
  BY DEF InitializeReset, Shutdown, SendRequestFails, CallerRuns, Idle, Caller
<1>a. /\ awaited' = Answered \/ (awaited' = awaited /\ (onWorker => awaited = Answered))
      /\ awaited' \in [sequence : 0 .. SequenceCount - 1, exchange : 0 .. MaxExchanges]
  BY DEF InitializeReset, Shutdown, SendRequestFails, Inv, AwaitControl, TypeOK, Answered
<1>g. /\ lastRequest' \in Age /\ lastAttempt' \in Age /\ lastRequest' = lastAttempt'
      /\ initialized' \in BOOLEAN
  <2>1. lastRequest \in Age /\ lastAttempt \in Age /\ Interval \in Age /\ lastRequest = lastAttempt
        /\ initialized \in BOOLEAN
    BY DEF Inv, AgeControl, TypeOK, Age
  <2>2. CASE InitializeReset
    BY <2>1, <2>2, Zenon DEF InitializeReset
  <2>3. CASE Shutdown
    BY <2>1, <2>3, Zenon DEF Shutdown
  <2>4. CASE SendRequestFails
    BY <2>1, <2>4, Zenon DEF SendRequestFails
  <2> QED
    BY <2>2, <2>3, <2>4
<1>1. TypeOK'
  BY <1>0, <1>c, <1>a, <1>g DEF Inv, TypeOK, Caller, Sequence
<1>2. IssueControl'
  BY <1>0, <1>c, <1>a DEF Inv, IssueControl, Issued, Messages, Requesting
<1>3. OrderControl' /\ SamplesInOrder' /\ SampleOfOneClock'
  BY <1>0, <1>c DEF Inv, OrderControl, AfterSamples, Requesting, SamplesInOrder,
                    SampleOfOneClock
<1>4. ClockControl' /\ AwaitControl' /\ AgeControl'
  BY <1>0, <1>c, <1>a, <1>g
  DEF Inv, ClockControl, AwaitControl, AgeControl, Messages, Requesting
<1> QED
  BY <1>1, <1>2, <1>3, <1>4 DEF Inv

\* RequestSynchronization takes the next sequence.
LEMMA BeginInv ==
  ASSUME Inv, BeginRequest
  PROVE  Inv'
<1> USE DEF airVars
<1>0. /\ UNCHANGED <<onWorker, config, initialized, registered, pending, lastRequest, worker,
                     requests, responses, era, samples, lastAttempt, awaited>>
      /\ exchanges < MaxExchanges /\ exchanges' = exchanges + 1
      /\ nextSequence' = (nextSequence + 1) % SequenceCount
      /\ caller.at = "idle" /\ config.reference # NoPeer
      /\ onWorker => worker.at = "idle"
  BY DEF BeginRequest, MayRequest, CallerRuns, Idle
<1>t. /\ nextSequence \in Sequence /\ exchanges \in 0 .. MaxExchanges /\ era \in Nat
      /\ pending \in Sequence /\ worker \in Worker
      /\ \A m \in Messages : m.sequence \in Sequence /\ m.t1 \in Reading
      /\ awaited.sequence \in Sequence
  BY TypeFacts DEF Inv
<1>c. /\ caller' \in Caller /\ caller'.at = "store" /\ caller'.sequence = nextSequence
      /\ caller'.t1.exchange = exchanges' /\ caller'.t1.era = era
  <2>1. [exchange |-> exchanges + 1, era |-> era] \in Reading
    BY <1>0, <1>t DEF Reading
  <2> QED
    BY <1>0, <1>t, <2>1 DEF BeginRequest, Caller
<1>e. exchanges \in Nat /\ exchanges' = exchanges + 1
  BY <1>0, <1>t
<1>n. /\ nextSequence' \in Sequence
      /\ \A s \in Sequence, k \in 1 .. exchanges :
           Issued(s, k) => IssuedAt(s, k, exchanges', nextSequence')
      /\ IssuedAt(nextSequence, exchanges', exchanges', nextSequence')
  BY <1>0, <1>t, IssuedNext DEF Issued
<1>i. \A s, k : Issued(s, k) => k \in 1 .. exchanges
  BY DEF Issued, IssuedAt
<1>1. TypeOK'
  BY <1>0, <1>t, <1>c, <1>n DEF Inv, TypeOK, Caller, Sequence
<1>2. IssueControl'
  <2>0. Requesting' /\ Messages' = Messages
    BY <1>0, <1>c DEF Requesting, Messages
  <2>1. \A m \in Messages : /\ IssuedAt(m.sequence, m.t1.exchange, exchanges', nextSequence')
                            /\ m.t1.exchange < exchanges'
    <3> SUFFICES ASSUME NEW m \in Messages
                 PROVE  /\ IssuedAt(m.sequence, m.t1.exchange, exchanges', nextSequence')
                        /\ m.t1.exchange < exchanges'
      OBVIOUS
    <3>1. Issued(m.sequence, m.t1.exchange) /\ m.sequence \in Sequence
      BY <1>t DEF Inv, IssueControl
    <3>2. m.t1.exchange \in 1 .. exchanges
      BY <3>1, <1>i
    <3>3. m.t1.exchange < exchanges'
      BY <1>e, <3>2
    <3> QED
      BY <1>n, <3>1, <3>2, <3>3
  <2>2. awaited # Answered => IssuedAt(awaited.sequence, awaited.exchange, exchanges', nextSequence')
    BY <1>t, <1>n, <1>i DEF Inv, IssueControl
  <2>3. worker.at # "idle" => /\ worker.t1.exchange \in 1 .. exchanges'
                              /\ worker.t1.exchange < exchanges'
    BY <1>0, <1>t DEF Inv, IssueControl
  <2> QED
    BY <1>0, <1>c, <1>n, <2>0, <2>1, <2>2, <2>3 DEF IssueControl, Issued
<1>3. OrderControl'
  <2>1. \A k : AfterSamples(k)' <=> AfterSamples(k)
    BY <1>0 DEF AfterSamples
  <2>2. AfterSamples(exchanges') /\ AfterSamples(exchanges' + 1)
    <3>1. \A i \in 1 .. Len(samples) : samples[i].t1.exchange \in Nat
      BY TypeFacts, ReadingFacts DEF Inv
    <3> QED
      BY <1>e, <3>1 DEF Inv, OrderControl, AfterSamples
  <2>3. pending # 0 => \E k \in 1 .. exchanges' :
          /\ IssuedAt(pending, k, exchanges', nextSequence')
          /\ AfterSamples(k)
          /\ worker.at = "consume" => worker.t1.exchange =< k
          /\ worker.at = "submit" => worker.t1.exchange < k
    <3> SUFFICES ASSUME pending # 0
                 PROVE  \E k \in 1 .. exchanges' :
                          /\ IssuedAt(pending, k, exchanges', nextSequence')
                          /\ AfterSamples(k)
                          /\ worker.at = "consume" => worker.t1.exchange =< k
                          /\ worker.at = "submit" => worker.t1.exchange < k
      OBVIOUS
    <3>1. PICK k \in 1 .. exchanges :
            /\ Issued(pending, k) /\ AfterSamples(k)
            /\ worker.at = "consume" => worker.t1.exchange =< k
            /\ worker.at = "submit" => worker.t1.exchange < k
      BY DEF Inv, OrderControl
    <3>2. k \in 1 .. exchanges' /\ IssuedAt(pending, k, exchanges', nextSequence')
      BY <1>0, <1>t, <1>n, <3>1
    <3> QED
      BY <3>1, <3>2
  <2>4. worker.at # "idle" => AfterSamples(worker.t1.exchange)
    BY DEF Inv, OrderControl
  <2> QED
    BY <1>0, <1>c, <2>1, <2>2, <2>3, <2>4 DEF OrderControl, Issued, AfterSamples
<1>4. SamplesInOrder' /\ SampleOfOneClock'
  BY <1>0 DEF Inv, SamplesInOrder, SampleOfOneClock
<1>5. ClockControl' /\ AwaitControl' /\ AgeControl'
  BY <1>0, <1>c DEF Inv, ClockControl, AwaitControl, AgeControl, Messages, Requesting
<1> QED
  BY <1>1, <1>2, <1>3, <1>4, <1>5 DEF Inv

\* The request becomes the pending one.
LEMMA StoreInv ==
  ASSUME Inv, StorePending
  PROVE  Inv'
<1> USE DEF airVars
<1>0. /\ UNCHANGED <<onWorker, config, initialized, registered, nextSequence, worker, requests,
                     responses, era, exchanges, samples>>
      /\ caller.at = "store" /\ pending' = caller.sequence /\ awaited' = Answered
      /\ lastRequest' = 0 /\ lastAttempt' = 0
      /\ onWorker => worker.at = "idle"
  BY DEF StorePending, CallerRuns, Idle
<1>t. /\ caller \in Caller /\ caller.sequence \in Sequence /\ exchanges \in 0 .. MaxExchanges
      /\ worker \in Worker /\ nextSequence \in Sequence
      /\ \A m \in Messages : m.sequence \in Sequence /\ m.t1 \in Reading
  BY <1>0, TypeFacts, CallerPlaces DEF Inv
<1>c. /\ caller' \in Caller /\ caller'.at = "send"
      /\ caller'.sequence = caller.sequence /\ caller'.t1 = caller.t1
  <2>1. caller' = [caller EXCEPT !.at = "send"]
    BY DEF StorePending
  <2>2. LET d == [caller EXCEPT !.at = "send"]
        IN  d \in Caller /\ d.at = "send" /\ d.sequence = caller.sequence /\ d.t1 = caller.t1
    BY <1>0, <1>t, CallerMove
  <2> QED
    BY <2>1, <2>2
<1>r. /\ Requesting /\ Requesting' /\ Messages' = Messages
      /\ Issued(caller.sequence, exchanges) /\ caller.t1.exchange = exchanges
      /\ \A m \in Messages : m.t1.exchange < exchanges
      /\ worker.at # "idle" => worker.t1.exchange < exchanges
  BY <1>0, <1>c DEF Inv, IssueControl, Requesting, Messages
<1>1. TypeOK'
  <2>1. awaited' \in [sequence : 0 .. SequenceCount - 1, exchange : 0 .. MaxExchanges]
        /\ 0 \in Age
    BY <1>0 DEF Answered, Age
  <2> QED
    BY <1>0, <1>t, <1>c, <2>1 DEF Inv, TypeOK, Caller, Sequence
<1>2. IssueControl'
  BY <1>0, <1>c, <1>r DEF Inv, IssueControl, Issued
<1>3. OrderControl'
  <2>1. \A k : AfterSamples(k)' <=> AfterSamples(k)
    BY <1>0 DEF AfterSamples
  <2>2. AfterSamples(exchanges) /\ AfterSamples(exchanges + 1)
        /\ (worker.at # "idle" => AfterSamples(worker.t1.exchange))
    BY <1>r DEF Inv, OrderControl
  <2>3. exchanges \in 1 .. exchanges /\ IssuedAt(pending', exchanges, exchanges', nextSequence')
    BY <1>0, <1>r DEF Issued, IssuedAt
  <2>4. worker.at \in {"consume", "submit"} => worker.t1.exchange < exchanges
                                               /\ worker.t1.exchange =< exchanges
    BY <1>r, <1>t DEF Inv, IssueControl
  <2> QED
    BY <1>0, <1>c, <1>r, <2>2, <2>3, <2>4 DEF OrderControl, Issued, AfterSamples
<1>4. SamplesInOrder' /\ SampleOfOneClock'
  BY <1>0 DEF Inv, SamplesInOrder, SampleOfOneClock
<1>5. ClockControl'
  <2>1. \A m \in Messages : m.sequence # caller.sequence
    <3> SUFFICES ASSUME NEW m \in Messages, m.sequence = caller.sequence PROVE FALSE
      OBVIOUS
    <3>1. Issued(caller.sequence, m.t1.exchange)
      BY DEF Inv, IssueControl
    <3>2. m.t1.exchange = exchanges
      BY <1>t, <1>r, <3>1, IssuedUnique DEF Issued
    <3>3. m.t1.exchange < exchanges
      BY <1>r
    <3> QED
      BY <1>t, <3>2, <3>3
  <2> QED
    BY <1>0, <1>c, <1>r, <2>1 DEF Inv, ClockControl
<1>6. AwaitControl' /\ AgeControl'
  BY <1>0, <1>c DEF AwaitControl, AgeControl
<1> QED
  BY <1>1, <1>2, <1>3, <1>4, <1>5, <1>6 DEF Inv

\* The request is sent.
LEMMA SendInv ==
  ASSUME Inv, SendRequest
  PROVE  Inv'
<1> USE DEF fieldVars
<1> DEFINE m0 == [to |-> config.reference, sequence |-> caller.sequence, t1 |-> caller.t1]
<1>0. /\ UNCHANGED <<onWorker, config, initialized, registered, nextSequence, pending,
                     lastRequest, worker, responses, era, exchanges, samples, lastAttempt>>
      /\ caller.at = "send" /\ caller' = Idle /\ requests' = requests \cup {m0}
      /\ awaited' = [sequence |-> caller.sequence, exchange |-> caller.t1.exchange]
      /\ onWorker => worker.at = "idle"
  BY DEF SendRequest, CallerRuns, Idle
<1>t. /\ caller \in Caller /\ caller.sequence \in Sequence /\ caller.t1 \in Reading
      /\ exchanges \in 0 .. MaxExchanges /\ worker \in Worker
  BY <1>0, TypeFacts, CallerPlaces DEF Inv
<1>r. /\ Requesting /\ ~Requesting' /\ caller'.at = "idle" /\ caller' \in Caller
      /\ Issued(caller.sequence, caller.t1.exchange) /\ config.reference # NoPeer
      /\ caller.t1.exchange = exchanges
  BY <1>0 DEF Inv, IssueControl, Requesting, Idle, Caller
<1>m. Messages' = Messages \cup {m0}
  BY <1>0 DEF Messages
<1>f. m0.sequence = caller.sequence /\ m0.t1 = caller.t1 /\ awaited'.sequence = caller.sequence
      /\ awaited'.exchange = caller.t1.exchange
  BY <1>0
<1>1. TypeOK'
  <2>1. config.reference \in References
    BY <1>r DEF Inv, TypeOK
  <2>2. m0 \in [to : References, sequence : 0 .. SequenceCount - 1, t1 : Reading]
    BY <1>t, <2>1 DEF Sequence
  <2>3. awaited' \in [sequence : 0 .. SequenceCount - 1, exchange : 0 .. MaxExchanges]
    BY <1>0, <1>t, <1>r DEF Sequence
  <2> HIDE DEF m0
  <2> QED
    BY <1>0, <1>r, <2>2, <2>3 DEF Inv, TypeOK
<1> HIDE DEF m0
<1>2. IssueControl'
  BY <1>0, <1>r, <1>m, <1>f DEF Inv, IssueControl, Issued
<1>3. OrderControl' /\ SamplesInOrder' /\ SampleOfOneClock'
  BY <1>0, <1>r DEF Inv, OrderControl, Issued, AfterSamples, SamplesInOrder, SampleOfOneClock
<1>4. ClockControl'
  BY <1>0, <1>r, <1>m, <1>f DEF Inv, ClockControl
<1>5. AwaitControl' /\ AgeControl'
  BY <1>0, <1>r, <1>f DEF Inv, AwaitControl, AgeControl
<1> QED
  BY <1>1, <1>2, <1>3, <1>4, <1>5 DEF Inv

\* A reference answers: the response carries the request's sequence and T1.
LEMMA AnswerInv ==
  ASSUME Inv, ProcessRequest
  PROVE  Inv'
<1> USE DEF fieldVars, historyVars
<1>0. UNCHANGED <<onWorker, config, initialized, registered, nextSequence, pending, lastRequest,
                  caller, worker, requests, era, exchanges, samples, lastAttempt, awaited>>
  BY DEF ProcessRequest
<1>1. PICK q \in requests :
        responses' = responses \cup {[from |-> q.to, sequence |-> q.sequence, t1 |-> q.t1]}
  BY DEF ProcessRequest
<1> DEFINE r == [from |-> q.to, sequence |-> q.sequence, t1 |-> q.t1]
<1>2. r \in [from : References, sequence : 0 .. SequenceCount - 1, t1 : Reading]
  BY DEF Inv, TypeOK
<1>3. r.sequence = q.sequence /\ r.t1 = q.t1 /\ q \in Messages
  BY DEF Messages
<1>4. responses' = responses \cup {r} /\ Messages' = Messages \cup {r}
  BY <1>0, <1>1 DEF Messages
<1> HIDE DEF r
<1>5. TypeOK'
  BY <1>0, <1>2, <1>4 DEF Inv, TypeOK
<1>6. IssueControl'
  BY <1>0, <1>3, <1>4 DEF Inv, IssueControl, Issued, Requesting
<1>7. OrderControl' /\ SamplesInOrder' /\ SampleOfOneClock'
  BY <1>0 DEF Inv, OrderControl, Issued, AfterSamples, Requesting, SamplesInOrder,
              SampleOfOneClock
<1>8. ClockControl'
  BY <1>0, <1>3, <1>4 DEF Inv, ClockControl, Requesting
<1>9. AwaitControl' /\ AgeControl'
  BY <1>0 DEF Inv, AwaitControl, AgeControl
<1> QED
  BY <1>5, <1>6, <1>7, <1>8, <1>9 DEF Inv

\* The worker accepts a response: its sequence is the pending one, so its
\* exchange is the pending one too.
LEMMA AcceptInv ==
  ASSUME Inv, ProcessResponse
  PROVE  Inv'
<1> USE DEF fieldVars, airVars, historyVars
<1>0. /\ UNCHANGED <<onWorker, config, initialized, registered, nextSequence, pending,
                     lastRequest, caller, requests, responses, era, exchanges, samples,
                     lastAttempt, awaited>>
      /\ worker.at = "idle" /\ (onWorker => caller.at = "idle")
  BY DEF ProcessResponse, WorkerRuns, Idle
<1>1. PICK m \in responses : /\ pending # 0 /\ m.sequence = pending
                             /\ worker' = [at |-> "consume", t1 |-> m.t1]
  BY DEF ProcessResponse, IsAwaited
<1>2. /\ m \in Messages /\ m.sequence \in Sequence /\ m.t1 \in Reading
      /\ exchanges \in 0 .. MaxExchanges /\ nextSequence \in Sequence
      /\ pending \in Sequence /\ awaited.sequence \in Sequence
  BY TypeFacts DEF Inv, Messages
<1>w. worker'.at = "consume" /\ worker'.t1 = m.t1 /\ worker' \in Worker
  BY <1>1, <1>2 DEF Worker
<1>3. /\ Issued(pending, m.t1.exchange) /\ m.t1.exchange \in 1 .. exchanges
      /\ Requesting => m.t1.exchange < exchanges
  BY <1>1, <1>2 DEF Inv, IssueControl, Issued, IssuedAt
<1>4. AfterSamples(m.t1.exchange)
  <2>1. PICK k \in 1 .. exchanges : Issued(pending, k) /\ AfterSamples(k)
    BY <1>1 DEF Inv, OrderControl
  <2>2. k = m.t1.exchange
    BY <1>2, <1>3, <2>1, IssuedUnique DEF Issued
  <2> QED
    BY <2>1, <2>2
<1>5. TypeOK'
  BY <1>0, <1>w DEF Inv, TypeOK, Worker
<1>6. IssueControl'
  BY <1>0, <1>w, <1>3 DEF Inv, IssueControl, Issued, Messages, Requesting
<1>7. OrderControl'
  <2>1. \A k : AfterSamples(k)' <=> AfterSamples(k)
    BY <1>0 DEF AfterSamples
  <2>2. m.t1.exchange =< m.t1.exchange
    BY <1>3
  <2>3. \E k \in 1 .. exchanges : /\ Issued(pending, k) /\ AfterSamples(k)
                                  /\ worker'.t1.exchange =< k
    BY <1>w, <1>3, <1>4, <2>2
  <2> QED
    BY <1>0, <1>w, <1>4, <2>3 DEF Inv, OrderControl, Issued, AfterSamples, Requesting
<1>8. SamplesInOrder' /\ SampleOfOneClock' /\ AgeControl'
  BY <1>0 DEF Inv, SamplesInOrder, SampleOfOneClock, AgeControl
<1>9. ClockControl'
  BY <1>0, <1>1, <1>2, <1>w DEF Inv, ClockControl, Requesting, Messages
<1>10. AwaitControl'
  <2> SUFFICES ASSUME onWorker, awaited # Answered, awaited.sequence # 0
               PROVE  awaited.exchange = m.t1.exchange
    BY <1>0, <1>w DEF Inv, AwaitControl
  <2>1. awaited.sequence = pending /\ Issued(awaited.sequence, awaited.exchange)
    BY <1>0 DEF Inv, AwaitControl, IssueControl
  <2> QED
    BY <1>2, <1>3, <2>1, IssuedUnique DEF Issued
<1> QED
  BY <1>5, <1>6, <1>7, <1>8, <1>9, <1>10 DEF Inv

\* The worker clears what is pending.  With Update elsewhere that may be a newer
\* request than the one answered; it is lost, and nothing else.
LEMMA ConsumeInv ==
  ASSUME Inv, ConsumePending
  PROVE  Inv'
<1> USE DEF airVars, historyVars
<1>0. /\ UNCHANGED <<onWorker, config, initialized, registered, nextSequence, lastRequest,
                     caller, requests, responses, era, exchanges, samples, lastAttempt, awaited>>
      /\ worker.at = "consume" /\ pending' = 0
  BY DEF ConsumePending
<1>w. worker'.at = "submit" /\ worker'.t1 = worker.t1 /\ worker' \in Worker
  <2>1. worker' = [worker EXCEPT !.at = "submit"] /\ worker \in Worker
    BY TypeFacts DEF ConsumePending, Inv
  <2>2. LET d == [worker EXCEPT !.at = "submit"]
        IN  d \in Worker /\ d.at = "submit" /\ d.t1 = worker.t1
    BY <1>0, <2>1, WorkerMove
  <2> QED
    BY <2>1, <2>2
<1>1. TypeOK'
  BY <1>0, <1>w DEF Inv, TypeOK, Worker
<1>2. IssueControl'
  BY <1>0, <1>w DEF Inv, IssueControl, Issued, Messages, Requesting
<1>3. OrderControl' /\ SamplesInOrder' /\ SampleOfOneClock'
  BY <1>0, <1>w DEF Inv, OrderControl, AfterSamples, Requesting, SamplesInOrder,
                    SampleOfOneClock
<1>4. ClockControl' /\ AwaitControl' /\ AgeControl'
  BY <1>0, <1>w DEF Inv, ClockControl, AwaitControl, AgeControl, Messages, Requesting
<1> QED
  BY <1>1, <1>2, <1>3, <1>4 DEF Inv

\* The sample is submitted: it is later than those before it, and earlier than
\* whatever is pending now.
LEMMA SubmitInv ==
  ASSUME Inv, SubmitSample
  PROVE  Inv'
<1> USE DEF fieldVars, airVars
<1> DEFINE x == [t1 |-> worker.t1, t4 |-> era]
<1>0. /\ UNCHANGED <<onWorker, config, initialized, registered, nextSequence, pending,
                     lastRequest, caller, requests, responses, exchanges, lastAttempt>>
      /\ worker.at = "submit" /\ worker' = Idle /\ worker'.at = "idle"
      /\ samples' = Append(samples, x) /\ era' \in {era, era + 1}
      /\ awaited' = IF awaited.exchange = worker.t1.exchange THEN Answered ELSE awaited
  BY DEF SubmitSample, Idle
<1>t. /\ samples \in Seq([t1 : Reading, t4 : Nat]) /\ era \in Nat /\ worker.t1 \in Reading
      /\ exchanges \in 0 .. MaxExchanges /\ caller \in Caller
      /\ \A i \in 1 .. Len(samples) : samples[i].t1 \in Reading
  BY <1>0, TypeFacts, WorkerPlaces DEF Inv
<1>x. x \in [t1 : Reading, t4 : Nat] /\ x.t1 = worker.t1 /\ x.t4 = era
  BY <1>t
<1> HIDE DEF x
<1>s. /\ samples' \in Seq([t1 : Reading, t4 : Nat])
      /\ Len(samples') = Len(samples) + 1 /\ Len(samples) \in Nat
      /\ samples'[Len(samples) + 1] = x
      /\ \A i \in 1 .. Len(samples) : samples'[i] = samples[i]
  BY <1>0, <1>t, <1>x, AppendSample
<1>k. \A k : AfterSamples(k) /\ worker.t1.exchange < k => AfterSamples(k)'
  BY <1>s, <1>x DEF AfterSamples
<1>o. /\ AfterSamples(worker.t1.exchange) /\ worker.t1.exchange \in 1 .. exchanges
      /\ Requesting => worker.t1.exchange < exchanges
  BY <1>0 DEF Inv, IssueControl, OrderControl
<1>1. TypeOK'
  <2>1. era' \in Nat
    BY <1>0, <1>t
  <2>2. awaited' \in [sequence : 0 .. SequenceCount - 1, exchange : 0 .. MaxExchanges]
    BY <1>0 DEF Inv, TypeOK, Answered
  <2> QED
    BY <1>0, <1>s, <2>1, <2>2 DEF Inv, TypeOK
<1>2. IssueControl'
  BY <1>0 DEF Inv, IssueControl, Issued, Messages, Requesting
<1>3. OrderControl'
  <2>1. Requesting => caller.t1.exchange = exchanges /\ AfterSamples(exchanges)
    BY DEF Inv, IssueControl, OrderControl
  <2>2. worker.t1.exchange < exchanges + 1 /\ AfterSamples(exchanges + 1)
    BY <1>t, <1>o DEF Inv, OrderControl
  <2>3. pending # 0 => \E k \in 1 .. exchanges : Issued(pending, k) /\ AfterSamples(k)'
    BY <1>0, <1>k DEF Inv, OrderControl
  <2>4. (Requesting => AfterSamples(exchanges)') /\ AfterSamples(exchanges + 1)'
    BY <1>0, <1>k, <1>o, <2>1, <2>2 DEF AfterSamples
  <2> QED
    BY <1>0, <2>1, <2>3, <2>4 DEF OrderControl, Issued, Requesting, AfterSamples
<1>4. SamplesInOrder'
  <2> SUFFICES ASSUME NEW i \in 1 .. Len(samples'), NEW j \in 1 .. Len(samples'), i < j
               PROVE  samples'[i].t1.exchange < samples'[j].t1.exchange
    BY DEF SamplesInOrder
  <2>1. i \in 1 .. Len(samples) /\ (j \in 1 .. Len(samples) \/ j = Len(samples) + 1)
    <3> DEFINE n == Len(samples)
               n1 == Len(samples')
    <3>1. n1 = n + 1 /\ n \in Nat
      BY <1>s
    <3> HIDE DEF n, n1
    <3>2. \A a, b \in 1 .. n1 : a < b => a \in 1 .. n /\ (b \in 1 .. n \/ b = n + 1)
      BY <3>1
    <3> QED
      BY <3>2 DEF n, n1
  <2>2. CASE j \in 1 .. Len(samples)
    BY <1>s, <2>1, <2>2 DEF Inv, SamplesInOrder
  <2>3. CASE j = Len(samples) + 1
    BY <1>s, <1>x, <1>o, <2>1, <2>3 DEF AfterSamples
  <2> QED
    BY <2>1, <2>2, <2>3
<1>5. SampleOfOneClock'
  <2> SUFFICES ASSUME onWorker, NEW i \in 1 .. Len(samples')
               PROVE  samples'[i].t1.era = samples'[i].t4
    BY <1>0 DEF SampleOfOneClock
  <2>1. worker.t1.era = era
    BY <1>0 DEF Inv, ClockControl
  <2>2. i \in 1 .. Len(samples) \/ i = Len(samples) + 1
    BY <1>s
  <2> QED
    BY <1>s, <1>x, <2>1, <2>2 DEF Inv, SampleOfOneClock
<1>6. ClockControl'
  BY <1>0 DEF Inv, ClockControl, Requesting
<1>7. AwaitControl' /\ AgeControl'
  <2>1. onWorker => caller.at = "idle" /\ (awaited # Answered /\ awaited.sequence # 0 =>
                                             awaited.exchange = worker.t1.exchange)
    BY <1>0 DEF Inv, ClockControl, AwaitControl
  <2> QED
    BY <1>0, <2>1 DEF Inv, AwaitControl, AgeControl
<1> QED
  BY <1>1, <1>2, <1>3, <1>4, <1>5, <1>6, <1>7 DEF Inv

\* Every step keeps the invariant.
LEMMA NextInv ==
  ASSUME Inv, [Next]_vars
  PROVE  Inv'
<1>1. CASE UNCHANGED vars
  BY <1>1 DEF vars, fieldVars, airVars, historyVars, Inv, TypeOK, IssueControl, Issued, Messages,
              Requesting, OrderControl, AfterSamples, SamplesInOrder, ClockControl,
              SampleOfOneClock, AwaitControl, AgeControl
<1>2. CASE InitializeConfig \/ Shutdown \/ RequestSynchronization \/ Update
  BY <1>2, SetupInv, DropInv, BeginInv DEF RequestSynchronization, Update
<1>3. CASE CallerContinues
  BY <1>3, SetupInv, DropInv, StoreInv, SendInv DEF CallerContinues
<1>4. CASE ProcessRequest \/ ProcessResponse
  BY <1>4, AnswerInv, AcceptInv
<1>5. CASE WorkerContinues
  BY <1>5, ConsumeInv, SubmitInv DEF WorkerContinues
<1>6. CASE Tick
  BY <1>6, TickInv
<1> QED
  BY <1>1, <1>2, <1>3, <1>4, <1>5, <1>6 DEF Next

\* The invariant holds in every behaviour.
LEMMA AlwaysInv == Spec => []Inv
  BY InitInv, NextInv, PTL DEF Spec

-----------------------------------------------------------------------------
(* The theorems.                                                            *)

\* The fields, the messages and the samples keep their types.
THEOREM SynchronizerTypes == Spec => []TypeOK
<1>1. Inv => TypeOK
  BY DEF Inv
<1> QED
  BY <1>1, AlwaysInv, PTL

\* However responses are repeated, delayed or lost, and whichever thread calls
\* Update: Timing gets the samples in the order of their exchanges, each once.
THEOREM SamplesComeInOrder == Spec => []SamplesInOrder
<1>1. Inv => SamplesInOrder
  BY DEF Inv
<1> QED
  BY <1>1, AlwaysInv, PTL

\* With Update on the worker, T1 and T4 of a sample are readings of one clock.
THEOREM SamplesAreOfOneClock == Spec => []SampleOfOneClock
<1>1. Inv => SampleOfOneClock
  BY DEF Inv
<1> QED
  BY <1>1, AlwaysInv, PTL

\* With Update on the worker, the client never forgets the request it sent last.
THEOREM AwaitedStaysPending == Spec => []AwaitedIsPending
<1>1. Inv => AwaitedIsPending
  BY DEF Inv, AwaitControl, AwaitedIsPending, Idle
<1> QED
  BY <1>1, AlwaysInv, PTL

\* Update leaves the interval after every attempt, sent or not.
THEOREM AttemptsAreSpaced == Spec => AttemptsSpaced
<1>1. Inv /\ [Next]_vars => [Update => lastAttempt = Interval]_vars
  BY DEF Inv, AgeControl, Update, Due
<1> QED
  BY <1>1, AlwaysInv, PTL DEF Spec, AttemptsSpaced
=============================================================================
