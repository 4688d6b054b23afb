-------------------------- MODULE CommandRequester --------------------------
(***************************************************************************)
(* ESPNowCommandEndpoint as the side that invokes: request IDs, the bounded *)
(* table of pending requests, correlation of responses, time-outs and       *)
(* shutdown.  Each operation runs under ESPNowCommandTransport's recursive  *)
(* _endpointMutex and is one action; a completion handler runs inside it    *)
(* and may itself call Invoke.                                              *)
(*                                                                          *)
(* Times are ages: the number of ticks since StartedMilliseconds, counted   *)
(* up to the time-out.                                                      *)
(***************************************************************************)
EXTENDS CommandWire

CONSTANTS
  MaximumOutstandingRequests,
  RequestTimeout,   \* RequestTimeoutMilliseconds, in ticks
  Reinvokes         \* where completion handlers may call Invoke again

ASSUME MaximumOutstandingRequestsAssumption == MaximumOutstandingRequests \in Nat \ {0}
ASSUME RequestTimeoutAssumption == RequestTimeout \in Nat \ {0}
ASSUME ReinvokesAssumption == Reinvokes \subseteq {"response", "timeout", "shutdown"}

VARIABLES
  nextRequestID,  \* _nextRequestID of each requester
  pending,        \* _pending of each requester, oldest first
  invoked,        \* how many invocations were accepted
  outcome         \* for each invocation, the invocations whose results its
                  \* completion handler was given

requesterVars == <<nextRequestID, pending, invoked, outcome>>

-----------------------------------------------------------------------------
RequesterInit == /\ nextRequestID = [r \in Requesters |-> 1]
                 /\ pending = [r \in Requesters |-> << >>]
                 /\ invoked = 0
                 /\ outcome = [s \in Serials |-> << >>]

Bounded(r) == nextRequestID[r] =< MaxRequestID /\ invoked < MaxInvokes

\* The entry and the message of the next invocation of r.
NewPending(r) == [id |-> nextRequestID[r], serial |-> invoked + 1, age |-> 0]
NewRequest(r) == [key |-> <<r, nextRequestID[r]>>, serial |-> invoked + 1]

\* The completion handlers of these invocations are called with a local error
\* (2: not sent, 3: shut down, 4: timed out).
Completed(S) ==
  [s \in Serials |-> IF s \in S THEN Append(outcome[s], s) ELSE outcome[s]]

SerialsAt(r, S) == {pending[r][i].serial : i \in S}

\* The table of r becomes `entries', after the completion handlers that ran in
\* this context invoked at most once again.
Reinvoked(r, entries, context) ==
  \/ /\ pending' = [pending EXCEPT ![r] = entries]
     /\ UNCHANGED <<nextRequestID, invoked, requests>>
  \/ /\ context \in Reinvokes
     /\ Bounded(r)
     /\ pending' = [pending EXCEPT ![r] = Append(entries, NewPending(r))]
     /\ requests' = requests \cup {NewRequest(r)}
     /\ nextRequestID' = [nextRequestID EXCEPT ![r] = @ + 1]
     /\ invoked' = invoked + 1

Invoke(r) ==
  /\ Len(pending[r]) < MaximumOutstandingRequests
  /\ Bounded(r)
  /\ pending' = [pending EXCEPT ![r] = Append(@, NewPending(r))]
  /\ requests' = requests \cup {NewRequest(r)}
  /\ nextRequestID' = [nextRequestID EXCEPT ![r] = @ + 1]
  /\ invoked' = invoked + 1
  /\ UNCHANGED <<outcome, responses>>

\* SendPayload fails: the entry is taken back and the handler is called.
InvokeSendFails(r) ==
  /\ Len(pending[r]) < MaximumOutstandingRequests
  /\ Bounded(r)
  /\ outcome' = Completed({invoked + 1})
  /\ nextRequestID' = [nextRequestID EXCEPT ![r] = @ + 1]
  /\ invoked' = invoked + 1
  /\ UNCHANGED <<pending, requests, responses>>

\* EncodeRequest fails, or the request is too long: an ID is used up.
InvokeNotEncoded(r) ==
  /\ Len(pending[r]) < MaximumOutstandingRequests
  /\ nextRequestID[r] =< MaxRequestID
  /\ nextRequestID' = [nextRequestID EXCEPT ![r] = @ + 1]
  /\ UNCHANGED <<pending, invoked, outcome, requests, responses>>

\* Mutant: the handler is called and the entry stays.
HandleResponseKeepsEntry(r) ==
  \E m \in responses, i \in 1 .. Len(pending[r]) :
    /\ m.key = <<r, pending[r][i].id>>
    /\ outcome' = [outcome EXCEPT ![pending[r][i].serial] = Append(@, m.serial)]
    /\ responses' = responses \ {m}
    /\ UNCHANGED <<nextRequestID, pending, invoked, requests>>

\* HandleResponse finds the pending request of this peer and ID.
HandleResponse(r) ==
  \E m \in responses, i \in 1 .. Len(pending[r]) :
    /\ m.key = <<r, pending[r][i].id>>
    /\ outcome' = [outcome EXCEPT ![pending[r][i].serial] = Append(@, m.serial)]
    /\ Reinvoked(r, EntriesAt(pending[r], (1 .. Len(pending[r])) \ {i}), "response")
    /\ responses' = responses \ {m}

\* HandleResponse finds nothing: the response came after the time-out, or
\* was a repetition.
HandleStrayResponse(r) ==
  /\ \E m \in responses :
       /\ m.key[1] = r
       /\ \A i \in 1 .. Len(pending[r]) : pending[r][i].id # m.key[2]
       /\ responses' = responses \ {m}
  /\ UNCHANGED <<requesterVars, requests>>

\* Where the entries are that have timed out, and those that have not.
TimedOut(r) == {i \in 1 .. Len(pending[r]) : pending[r][i].age >= RequestTimeout}
InTime(r) == (1 .. Len(pending[r])) \ TimedOut(r)

\* Mutant: the loop stops one entry short.
UpdatePendingShort(r) ==
  LET expired == TimedOut(r) \ {Len(pending[r])}
  IN  /\ expired # {}
      /\ outcome' = Completed(SerialsAt(r, expired))
      /\ Reinvoked(r, EntriesAt(pending[r], (1 .. Len(pending[r])) \ expired), "timeout")
      /\ UNCHANGED responses

\* Update, first loop.
UpdatePending(r) ==
  /\ TimedOut(r) # {}
  /\ outcome' = Completed(SerialsAt(r, TimedOut(r)))
  /\ Reinvoked(r, EntriesAt(pending[r], InTime(r)), "timeout")
  /\ UNCHANGED responses

\* Mutant: the request IDs begin again with 1.
RestartResetsIDs(r) ==
  /\ pending[r] # << >>
  /\ outcome' = Completed(SerialsAt(r, 1 .. Len(pending[r])))
  /\ pending' = [pending EXCEPT ![r] = << >>]
  /\ nextRequestID' = [nextRequestID EXCEPT ![r] = 1]
  /\ UNCHANGED <<invoked, wireVars>>

\* Shutdown, and the Initialize after it (in between, Invoke and Receive
\* return false).  The table still holds every entry while the handlers run,
\* and is cleared afterwards.
Restart(r) ==
  /\ pending[r] # << >>
  /\ outcome' = Completed(SerialsAt(r, 1 .. Len(pending[r])))
  /\ pending' = [pending EXCEPT ![r] = << >>]
  /\ \/ UNCHANGED <<nextRequestID, invoked, requests>>
     \/ /\ "shutdown" \in Reinvokes
        /\ Len(pending[r]) < MaximumOutstandingRequests
        /\ Bounded(r)
        /\ requests' = requests \cup {NewRequest(r)}
        /\ nextRequestID' = [nextRequestID EXCEPT ![r] = @ + 1]
        /\ invoked' = invoked + 1
  /\ UNCHANGED responses

TickRequester(r) ==
  /\ InTime(r) # {}
  /\ pending' = [pending EXCEPT ![r] = Older(@, RequestTimeout)]
  /\ UNCHANGED <<nextRequestID, invoked, outcome, wireVars>>
=============================================================================
