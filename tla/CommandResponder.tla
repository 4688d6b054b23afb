-------------------------- MODULE CommandResponder --------------------------
(***************************************************************************)
(* ESPNowCommandEndpoint as the side that executes: the table of inbound    *)
(* requests handed to the application, the cache of answers that keeps a    *)
(* repeated request from executing twice, and the expiry of both.  Each     *)
(* operation runs under ESPNowCommandTransport's _endpointMutex and is one  *)
(* action; the application executes between them.                           *)
(*                                                                          *)
(* Times are ages in ticks, counted up to the time-out.  Sends may fail,    *)
(* which the unreliable radio covers.                                       *)
(***************************************************************************)
EXTENDS CommandWire

CONSTANTS
  MaximumInboundRequests,
  MaximumDuplicateResults,
  InboundRequestTimeout,    \* InboundRequestTimeoutMilliseconds, in ticks
  DuplicateResultLifetime,  \* DuplicateResultLifetimeMilliseconds, in ticks
  MaxAttempts               \* bound: executions of one key

ASSUME MaximumInboundRequestsAssumption == MaximumInboundRequests \in Nat \ {0}
ASSUME MaximumDuplicateResultsAssumption == MaximumDuplicateResults \in Nat \ {0}
ASSUME InboundRequestTimeoutAssumption == InboundRequestTimeout \in Nat \ {0}
ASSUME DuplicateResultLifetimeAssumption == DuplicateResultLifetime \in Nat
ASSUME MaxAttemptsAssumption == MaxAttempts \in Nat

VARIABLES
  inboundHandler,  \* _inboundHandler is set (else the registry executes at once)
  inbound,         \* _inbound, oldest first
  duplicates,      \* _duplicates, oldest first
  handedOff,       \* executions the application has not completed
  attempts,        \* how often each key was executed
  answered         \* the age of each key's last cached answer, and how many
                   \* answers were cached after it

responderVars == <<inboundHandler, inbound, duplicates, handedOff, attempts, answered>>

Forgotten == [age |-> DuplicateResultLifetime, newer |-> MaximumDuplicateResults]

-----------------------------------------------------------------------------
KeysOf(table) == {table[i].key : i \in 1 .. Len(table)}

\* Mutant: a request under way is not recognised.
KnownIfAnswered(k) == k \in KeysOf(duplicates)

\* FindDuplicate, FindInbound.
Known(k) == k \in KeysOf(duplicates) \cup KeysOf(inbound)

\* Mutant: the cache is not bounded.
StoreDuplicatesUnbounded(answers) == duplicates \o answers

\* _duplicates after StoreDuplicate of each of these answers, which evicts
\* from the front.
StoreDuplicates(answers) ==
  LET all == duplicates \o answers
      excess == Len(all) - MaximumDuplicateResults
  IN  IF excess > 0 THEN SubSeq(all, excess + 1, Len(all)) ELSE all

\* The bookkeeping of `answered' for the same answers.
UpToCapacity(n) == IF n < MaximumDuplicateResults THEN n ELSE MaximumDuplicateResults

Answered(answers) ==
  [k \in Keys |->
     IF k \in KeysOf(answers)
       THEN [age |-> 0,
             newer |-> UpToCapacity(Len(answers)
                         - CHOOSE i \in 1 .. Len(answers) : answers[i].key = k)]
       ELSE [answered[k] EXCEPT !.newer = UpToCapacity(@ + Len(answers))]]

Answer(k, s) == [key |-> k, serial |-> s, age |-> 0]

OnWire(d) == [key |-> d.key, serial |-> d.serial]

\* SendResponseAndCache.  A response that is too long is neither cached nor sent.
SendResponseAndCache(k, s) ==
  /\ duplicates' = StoreDuplicates(<<Answer(k, s)>>)
  /\ answered' = Answered(<<Answer(k, s)>>)
  /\ responses' = responses \cup {OnWire(Answer(k, s))}

ResponseTooLong == UNCHANGED <<duplicates, answered, responses>>

ResponderInit == /\ inboundHandler \in BOOLEAN
                 /\ inbound = << >>
                 /\ duplicates = << >>
                 /\ handedOff = {}
                 /\ attempts = [k \in Keys |-> 0]
                 /\ answered = [k \in Keys |-> Forgotten]

-----------------------------------------------------------------------------
(* HandleRequest.  A request that is already inbound changes nothing.       *)

ResendCached ==
  /\ \E m \in requests, i \in 1 .. Len(duplicates) :
       /\ m.key = duplicates[i].key
       /\ responses' = responses \cup {OnWire(duplicates[i])}
  /\ UNCHANGED <<responderVars, requests>>

\* The request is malformed (5), the policy rejects it, the inbound table is
\* full (6) or the handler rejects it (7).
Refuse ==
  /\ \E m \in requests :
       /\ ~Known(m.key)
       /\ SendResponseAndCache(m.key, m.serial)
  /\ UNCHANGED <<inboundHandler, inbound, handedOff, attempts, requests>>

HandOff ==
  /\ inboundHandler
  /\ Len(inbound) < MaximumInboundRequests
  /\ \E m \in requests :
       /\ ~Known(m.key)
       /\ attempts[m.key] < MaxAttempts
       /\ inbound' = Append(inbound, [key |-> m.key, serial |-> m.serial, age |-> 0,
                                      attempt |-> attempts[m.key] + 1])
       /\ handedOff' = handedOff \cup {[key |-> m.key, serial |-> m.serial,
                                        attempt |-> attempts[m.key] + 1]}
       /\ attempts' = [attempts EXCEPT ![m.key] = @ + 1]
  /\ UNCHANGED <<inboundHandler, duplicates, answered, wireVars>>

\* Without a handler the registry executes inside HandleRequest.
ExecuteAtOnce ==
  /\ ~inboundHandler
  /\ \E m \in requests :
       /\ ~Known(m.key)
       /\ attempts[m.key] < MaxAttempts
       /\ attempts' = [attempts EXCEPT ![m.key] = @ + 1]
       /\ SendResponseAndCache(m.key, m.serial) \/ ResponseTooLong
  /\ UNCHANGED <<inboundHandler, inbound, handedOff, requests>>

-----------------------------------------------------------------------------
\* The application completes an execution: CompleteInbound finds the key.
CompleteInbound ==
  /\ \E h \in handedOff, i \in 1 .. Len(inbound) :
       /\ inbound[i].key = h.key
       /\ inbound' = EntriesAt(inbound, (1 .. Len(inbound)) \ {i})
       /\ handedOff' = handedOff \ {h}
       /\ SendResponseAndCache(h.key, h.serial) \/ ResponseTooLong
  /\ UNCHANGED <<inboundHandler, attempts, requests>>

\* CompleteInbound finds nothing and returns false.
CompleteTooLate ==
  /\ \E h \in handedOff :
       /\ h.key \notin KeysOf(inbound)
       /\ handedOff' = handedOff \ {h}
  /\ UNCHANGED <<inboundHandler, inbound, duplicates, attempts, answered, wireVars>>

\* Where the inbound requests are that have timed out.
InboundExpired == {i \in 1 .. Len(inbound) : inbound[i].age >= InboundRequestTimeout}

\* Mutant: an answer expires one tick early.
FreshTooShort(answers) ==
  {i \in 1 .. Len(answers) : answers[i].age + 1 < DuplicateResultLifetime}

\* Where the answers are that are not too old.
Fresh(answers) == {i \in 1 .. Len(answers) : answers[i].age < DuplicateResultLifetime}

\* Mutant: Update does not look at _inbound.
UpdateResponderKeepsInbound ==
  /\ Fresh(duplicates) # 1 .. Len(duplicates)
  /\ duplicates' = EntriesAt(duplicates, Fresh(duplicates))
  /\ UNCHANGED <<inboundHandler, inbound, handedOff, attempts, answered, wireVars>>

\* The error answers to the inbound requests that have timed out.
TimeoutAnswers ==
  LET expired == EntriesAt(inbound, InboundExpired)
  IN  [i \in 1 .. Cardinality(InboundExpired) |-> Answer(expired[i].key, expired[i].serial)]

\* Update, the loop over _inbound and the erasure of old duplicates.
UpdateResponder ==
  /\ InboundExpired # {} \/ Fresh(duplicates) # 1 .. Len(duplicates)
  /\ inbound' = EntriesAt(inbound, (1 .. Len(inbound)) \ InboundExpired)
  /\ LET stored == StoreDuplicates(TimeoutAnswers)
     IN  duplicates' = EntriesAt(stored, Fresh(stored))
  /\ answered' = Answered(TimeoutAnswers)
  /\ responses' = responses \cup {OnWire(TimeoutAnswers[i]) : i \in 1 .. Cardinality(InboundExpired)}
  /\ UNCHANGED <<inboundHandler, handedOff, attempts, requests>>

\* Shutdown, then Initialize.  The tables are empty and the response route is
\* a new one: the executions under way can no longer complete anything.
RestartResponder ==
  /\ inbound \o duplicates # << >>
  /\ inbound' = << >>
  /\ duplicates' = << >>
  /\ answered' = [k \in Keys |-> Forgotten]
  /\ inboundHandler' \in BOOLEAN
  /\ handedOff' = {}
  /\ UNCHANGED <<attempts, wireVars>>

TickResponder ==
  /\ inbound' = Older(inbound, InboundRequestTimeout)
  /\ duplicates' = Older(duplicates, DuplicateResultLifetime)
  /\ answered' = [k \in Keys |-> [answered[k] EXCEPT !.age =
                    IF @ < DuplicateResultLifetime THEN @ + 1 ELSE @]]
  /\ <<inbound, duplicates>>' # <<inbound, duplicates>>
  /\ UNCHANGED <<inboundHandler, handedOff, attempts, wireVars>>
=============================================================================
