-------------------------- MODULE ClockSynchronizer --------------------------
(***************************************************************************)
(* ESPNowClockSynchronizer: a client that asks its reference for the time   *)
(* and submits what comes back to ESPressio Timing, which adjusts the local *)
(* clock.  Two threads work on its unlocked fields:                         *)
(*                                                                          *)
(*   caller   calls Initialize, Update, RequestSynchronization, Shutdown    *)
(*   worker   ESPNowTransport's worker, which runs ProcessFrame             *)
(*                                                                          *)
(* An action is what a thread does between two accesses that the other one  *)
(* can tell apart: those to _pendingSequence, and those to the clock.  A    *)
(* read of _config torn by Initialize adds nothing: a pending sequence was  *)
(* asked of one reference only, and a refused response changes nothing.     *)
(*                                                                          *)
(* Only the worker adjusts the clock, so a reading of the local clock is    *)
(* told apart by the number of adjustments before it, its era.  T1 is the   *)
(* exchange it was read for and its era; T2 and T3, which the reference     *)
(* reads and the client only passes on, are left out.  Messages stay in the *)
(* air: each may be delivered late, again, or never.                        *)
(***************************************************************************)
EXTENDS Naturals, Sequences

CONSTANTS
  References,     \* MAC addresses of the devices in Reference mode
  NoPeer,         \* the zero MAC address
  Configs,        \* the configurations that Initialize is called with
  Interval,       \* SynchronizationIntervalMilliseconds, in ticks
  SequenceCount,  \* the number of sequences, 2^32
  FirstSequences, \* the values of _nextSequence at which the model starts
  MaxExchanges    \* bound: how often RequestSynchronization gets to its send

Modes == {"Disabled", "Client", "Reference", "ClientAndReference"}

ASSUME NoPeerAssumption == NoPeer \notin References
ASSUME ConfigsAssumption ==
  Configs \subseteq [mode : Modes, reference : References \cup {NoPeer}]
ASSUME IntervalAssumption == Interval \in Nat \ {0}
ASSUME MaxExchangesAssumption == MaxExchanges \in Nat
ASSUME SequenceCountAssumption == SequenceCount \in Nat /\ MaxExchanges < SequenceCount
ASSUME FirstSequencesAssumption == FirstSequences \subseteq 0 .. SequenceCount - 1

VARIABLES
  onWorker,      \* the caller is the worker itself: it calls Update between frames
  config,        \* _config
  initialized,   \* _initialized
  registered,    \* the transport has this synchronizer's protocol handler
  nextSequence,  \* _nextSequence
  pending,       \* _pendingSequence, 0 for none
  lastRequest,   \* age of _lastRequestMonotonicNanoseconds, Interval for
                 \* an interval or more, and for 0 (never)
  caller,        \* where the caller is
  worker,        \* where the worker is in ProcessResponse
  requests,      \* request messages in the air
  responses,     \* response messages in the air
  era,           \* how often the local clock was adjusted
  exchanges,     \* how many requests were begun
  samples,       \* the samples submitted so far
  lastAttempt,   \* age of the last attempt to send since Initialize, likewise
  awaited        \* the exchange of the last request sent, until it is answered,
                 \* replaced or given up

fieldVars == <<config, initialized, registered, nextSequence, pending, lastRequest>>
airVars == <<requests, responses>>
historyVars == <<exchanges, samples, lastAttempt, awaited>>
vars == <<onWorker, fieldVars, caller, worker, airVars, era, historyVars>>

-----------------------------------------------------------------------------
Idle == [at |-> "idle"]
Answered == [sequence |-> 0, exchange |-> 0]   \* no exchange is awaited

Init == /\ onWorker \in BOOLEAN
        /\ config \in Configs
        /\ initialized = FALSE
        /\ registered = FALSE
        /\ nextSequence \in FirstSequences
        /\ pending = 0
        /\ lastRequest = Interval
        /\ caller = Idle
        /\ worker = Idle
        /\ requests = {}
        /\ responses = {}
        /\ era = 0
        /\ exchanges = 0
        /\ samples = << >>
        /\ lastAttempt = Interval
        /\ awaited = Answered

IsClientMode == config.mode \in {"Client", "ClientAndReference"}

\* A thread may go on: on the worker, calls and frames take turns.
CallerRuns == onWorker => worker = Idle
WorkerRuns == onWorker => caller = Idle

-----------------------------------------------------------------------------
(* The caller: Initialize and Shutdown.                                     *)

InitializeConfig ==
  /\ CallerRuns
  /\ caller = Idle
  /\ \E c \in Configs : config' = c
  /\ caller' = [at |-> "register"]
  /\ UNCHANGED <<onWorker, initialized, registered, nextSequence, pending, lastRequest,
                 worker, airVars, era, historyVars>>

\* EnsurePeerExists or RegisterProtocolHandler fails: the new configuration
\* stays, and so does whatever an earlier Initialize set up.
InitializeFails ==
  /\ CallerRuns
  /\ caller.at = "register"
  /\ (IsClientMode /\ config.reference # NoPeer) \/ ~registered
  /\ caller' = Idle
  /\ UNCHANGED <<onWorker, fieldVars, worker, airVars, era, historyVars>>

InitializeRegister ==
  /\ CallerRuns
  /\ caller.at = "register"
  /\ registered' = TRUE
  /\ caller' = [at |-> "reset"]
  /\ UNCHANGED <<onWorker, config, initialized, nextSequence, pending, lastRequest,
                 worker, airVars, era, historyVars>>

\* Mutant: Initialize also starts the sequence again.
InitializeResetsSequence ==
  /\ CallerRuns
  /\ caller.at = "reset"
  /\ lastRequest' = Interval
  /\ pending' = 0
  /\ nextSequence' \in FirstSequences
  /\ initialized' = TRUE
  /\ caller' = Idle
  /\ lastAttempt' = Interval
  /\ awaited' = Answered
  /\ UNCHANGED <<onWorker, config, registered, worker, airVars, era, exchanges, samples>>

InitializeReset ==
  /\ CallerRuns
  /\ caller.at = "reset"
  /\ lastRequest' = Interval
  /\ pending' = 0
  /\ initialized' = TRUE
  /\ caller' = Idle
  /\ lastAttempt' = Interval
  /\ awaited' = Answered
  /\ UNCHANGED <<onWorker, config, registered, nextSequence, worker, airVars, era,
                 exchanges, samples>>

Shutdown ==
  /\ CallerRuns
  /\ caller = Idle
  /\ initialized
  /\ initialized' = FALSE
  /\ pending' = 0
  /\ caller' = [at |-> "unregister"]
  /\ awaited' = Answered
  /\ UNCHANGED <<onWorker, config, registered, nextSequence, lastRequest,
                 worker, airVars, era, exchanges, samples, lastAttempt>>

ShutdownUnregister ==
  /\ CallerRuns
  /\ caller.at = "unregister"
  /\ registered' = FALSE
  /\ caller' = Idle
  /\ UNCHANGED <<onWorker, config, initialized, nextSequence, pending, lastRequest,
                 worker, airVars, era, historyVars>>

-----------------------------------------------------------------------------
(* The caller: RequestSynchronization and Update.                           *)

\* Mutant: a request waits for the answer to the one before.
MayRequestWhenAnswered ==
  initialized /\ IsClientMode /\ config.reference # NoPeer /\ pending = 0

\* Mutant: nobody checks that there is a reference.
MayRequestOfNobody == initialized /\ IsClientMode

MayRequest == initialized /\ IsClientMode /\ config.reference # NoPeer

\* The sequence is taken and T1 is read.
BeginRequest ==
  /\ CallerRuns
  /\ caller = Idle
  /\ MayRequest
  /\ exchanges < MaxExchanges
  /\ exchanges' = exchanges + 1
  /\ nextSequence' = (nextSequence + 1) % SequenceCount
  /\ caller' = [at |-> "store", sequence |-> nextSequence,
                t1 |-> [exchange |-> exchanges + 1, era |-> era]]
  /\ UNCHANGED <<onWorker, config, initialized, registered, pending, lastRequest,
                 worker, airVars, era, samples, lastAttempt, awaited>>

\* RequestSynchronization, called by the application itself.
RequestSynchronization == BeginRequest

Due == lastRequest = Interval

\* Update calls RequestSynchronization when the interval has passed.
Update == Due /\ BeginRequest

\* Mutant: the time of the attempt is not recorded.
StorePendingOnly ==
  /\ CallerRuns
  /\ caller.at = "store"
  /\ pending' = caller.sequence
  /\ lastAttempt' = 0
  /\ caller' = [caller EXCEPT !.at = "send"]
  /\ awaited' = Answered
  /\ UNCHANGED <<onWorker, config, initialized, registered, nextSequence, lastRequest,
                 worker, airVars, era, exchanges, samples>>

StorePending ==
  /\ CallerRuns
  /\ caller.at = "store"
  /\ pending' = caller.sequence
  /\ lastRequest' = 0
  /\ lastAttempt' = 0
  /\ caller' = [caller EXCEPT !.at = "send"]
  /\ awaited' = Answered
  /\ UNCHANGED <<onWorker, config, initialized, registered, nextSequence,
                 worker, airVars, era, exchanges, samples>>

SendRequest ==
  /\ CallerRuns
  /\ caller.at = "send"
  /\ requests' = requests \cup {[to |-> config.reference, sequence |-> caller.sequence,
                                 t1 |-> caller.t1]}
  /\ awaited' = [sequence |-> caller.sequence, exchange |-> caller.t1.exchange]
  /\ caller' = Idle
  /\ UNCHANGED <<onWorker, fieldVars, worker, responses, era,
                 exchanges, samples, lastAttempt>>

\* The transport refuses the frame: nothing is pending any more.
SendRequestFails ==
  /\ CallerRuns
  /\ caller.at = "send"
  /\ pending' = 0
  /\ caller' = Idle
  /\ UNCHANGED <<onWorker, config, initialized, registered, nextSequence, lastRequest,
                 worker, airVars, era, historyVars>>

-----------------------------------------------------------------------------
(* The worker of a reference: ProcessRequest.  It answers each copy of a    *)
(* request, echoing its sequence and T1.                                    *)

ProcessRequest ==
  /\ \E m \in requests :
       responses' = responses \cup {[from |-> m.to, sequence |-> m.sequence, t1 |-> m.t1]}
  /\ UNCHANGED <<onWorker, fieldVars, caller, worker, requests, era, historyVars>>

-----------------------------------------------------------------------------
(* The client's worker: ProcessResponse.  A response that one of the checks *)
(* refuses changes nothing.                                                 *)

\* Mutant: any response while a request is pending.
AwaitedAnything(m) ==
  /\ config.reference # NoPeer => m.from = config.reference
  /\ pending # 0

\* The checks of ProcessResponse.
IsAwaited(m) ==
  /\ config.reference # NoPeer => m.from = config.reference
  /\ pending # 0
  /\ m.sequence = pending

ProcessResponse ==
  /\ WorkerRuns
  /\ worker = Idle
  /\ registered
  /\ IsClientMode
  /\ \E m \in responses :
       /\ IsAwaited(m)
       /\ worker' = [at |-> "consume", t1 |-> m.t1]
  /\ UNCHANGED <<onWorker, fieldVars, caller, airVars, era, historyVars>>

\* Mutant: the exchange stays outstanding.
ConsumeNothing ==
  /\ worker.at = "consume"
  /\ worker' = [worker EXCEPT !.at = "submit"]
  /\ UNCHANGED <<onWorker, fieldVars, caller, airVars, era, historyVars>>

\* _pendingSequence.store(0)
ConsumePending ==
  /\ worker.at = "consume"
  /\ pending' = 0
  /\ worker' = [worker EXCEPT !.at = "submit"]
  /\ UNCHANGED <<onWorker, config, initialized, registered, nextSequence, lastRequest,
                 caller, airVars, era, historyVars>>

\* T4 is recovered, and Timing, which may refuse the sample, adjusts the clock.
SubmitSample ==
  /\ worker.at = "submit"
  /\ samples' = Append(samples, [t1 |-> worker.t1, t4 |-> era])
  /\ era' \in {era, era + 1}
  /\ worker' = Idle
  /\ awaited' = IF awaited.exchange = worker.t1.exchange THEN Answered ELSE awaited
  /\ UNCHANGED <<onWorker, fieldVars, caller, airVars, exchanges, lastAttempt>>

-----------------------------------------------------------------------------
Older(age) == IF age \in 0 .. Interval - 1 THEN age + 1 ELSE age

Tick ==
  /\ lastRequest \in 0 .. Interval - 1 \/ lastAttempt \in 0 .. Interval - 1
  /\ lastRequest' = Older(lastRequest)
  /\ lastAttempt' = Older(lastAttempt)
  /\ UNCHANGED <<onWorker, config, initialized, registered, nextSequence, pending,
                 caller, worker, airVars, era, exchanges, samples, awaited>>

CallerContinues == InitializeFails \/ InitializeRegister \/ InitializeReset
                   \/ ShutdownUnregister
                   \/ StorePending \/ SendRequest \/ SendRequestFails

WorkerContinues == ConsumePending \/ SubmitSample

Next == \/ InitializeConfig \/ Shutdown \/ RequestSynchronization \/ Update
        \/ CallerContinues
        \/ ProcessRequest
        \/ ProcessResponse
        \/ WorkerContinues
        \/ Tick

\* Both threads are scheduled, the application's loop calls Update, and time
\* passes.  No message need arrive.
Fairness == /\ WF_vars(CallerContinues)
            /\ WF_vars(WorkerContinues)
            /\ SF_vars(Update)
            /\ WF_vars(Tick)

Spec == Init /\ [][Next]_vars /\ Fairness

-----------------------------------------------------------------------------
Reading == [exchange : 1 .. MaxExchanges, era : Nat]
Age == 0 .. Interval

TypeOK ==
  /\ onWorker \in BOOLEAN /\ config \in Configs
  /\ initialized \in BOOLEAN /\ registered \in BOOLEAN
  /\ nextSequence \in 0 .. SequenceCount - 1 /\ pending \in 0 .. SequenceCount - 1
  /\ lastRequest \in Age /\ lastAttempt \in Age
  /\ caller \in {Idle} \cup [at : {"register", "reset", "unregister"}]
                \cup [at : {"store", "send"}, sequence : 0 .. SequenceCount - 1, t1 : Reading]
  /\ worker \in {Idle} \cup [at : {"consume", "submit"}, t1 : Reading]
  /\ requests \subseteq [to : References, sequence : 0 .. SequenceCount - 1, t1 : Reading]
  /\ responses \subseteq [from : References, sequence : 0 .. SequenceCount - 1, t1 : Reading]
  /\ era \in Nat /\ exchanges \in 0 .. MaxExchanges
  /\ samples \in Seq([t1 : Reading, t4 : Nat])
  /\ awaited \in [sequence : 0 .. SequenceCount - 1, exchange : 0 .. MaxExchanges]

\* "Duplicate or delayed responses for this sequence will therefore be
\* ignored": samples come in the order of their exchanges, one of each at the
\* most, whichever thread calls Update and however responses are repeated or
\* delayed, also past Shutdown and Initialize and past the wrap of the sequence.
SamplesInOrder ==
  \A i, j \in 1 .. Len(samples) :
    i < j => samples[i].t1.exchange < samples[j].t1.exchange

\* With Update on the worker, no exchange spans an adjustment: T1 and T4 of a
\* sample are readings of the same clock, as the offset that Timing computes
\* from them takes for granted.
SampleOfOneClock ==
  onWorker => \A i \in 1 .. Len(samples) : samples[i].t1.era = samples[i].t4

\* With Update on the worker, the request last sent is the one whose response
\* is accepted: no late response, failed attempt or repetition makes the client
\* forget it.  (Sequence 0, after the wrap, cannot be told from "none".)
AwaitedIsPending ==
  onWorker /\ caller = Idle /\ worker = Idle /\ awaited # Answered =>
    awaited.sequence \in {0, pending}

\* "Rate-limit synchronization attempts, not only successful sends": Update
\* leaves at least the interval after every attempt since Initialize, sent or
\* not.
AttemptsSpaced ==
  [][Update => lastAttempt = Interval]_vars

\* A lost request or response does not end synchronization: an initialized
\* client begins the next exchange unless it is shut down or reconfigured.
KeepsAsking ==
  LET Client == initialized /\ IsClientMode /\ config.reference # NoPeer
  IN  \A n \in 1 .. MaxExchanges :
        Client /\ exchanges = n - 1 ~> exchanges >= n \/ ~Client
=============================================================================
