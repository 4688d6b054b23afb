--------------------------- MODULE CommandExchange --------------------------
(***************************************************************************)
(* Command requests end to end: requesters and a responder, each an         *)
(* ESPNowCommandEndpoint with its own clock, over an unreliable radio.      *)
(***************************************************************************)
EXTENDS CommandRequester, CommandResponder

vars == <<requesterVars, responderVars, wireVars>>

Init == RequesterInit /\ ResponderInit /\ WireInit

RequesterStep(r) ==
  \/ Invoke(r) /\ UNCHANGED responderVars
  \/ InvokeSendFails(r) /\ UNCHANGED responderVars
  \/ InvokeNotEncoded(r) /\ UNCHANGED responderVars
  \/ HandleResponse(r) /\ UNCHANGED responderVars
  \/ HandleStrayResponse(r) /\ UNCHANGED responderVars
  \/ UpdatePending(r) /\ UNCHANGED responderVars
  \/ Restart(r) /\ UNCHANGED responderVars
  \/ TickRequester(r) /\ UNCHANGED responderVars

ResponderStep ==
  \/ ResendCached /\ UNCHANGED requesterVars
  \/ Refuse /\ UNCHANGED requesterVars
  \/ HandOff /\ UNCHANGED requesterVars
  \/ ExecuteAtOnce /\ UNCHANGED requesterVars
  \/ CompleteInbound /\ UNCHANGED requesterVars
  \/ CompleteTooLate /\ UNCHANGED requesterVars
  \/ UpdateResponder /\ UNCHANGED requesterVars
  \/ RestartResponder /\ UNCHANGED requesterVars
  \/ TickResponder /\ UNCHANGED requesterVars

Next == \/ \E r \in Requesters : RequesterStep(r)
        \/ ResponderStep
        \/ LoseResponse /\ UNCHANGED <<requesterVars, responderVars>>

\* Time passes on every node, and ESPNowTransport's worker calls the
\* maintenance handler (Update) in each iteration.  Nothing else is obliged
\* to happen: messages may all be lost and applications never complete.
Fairness ==
  /\ \A r \in Requesters : WF_vars(TickRequester(r) /\ UNCHANGED responderVars)
                           /\ WF_vars(UpdatePending(r) /\ UNCHANGED responderVars)
  /\ WF_vars(TickResponder /\ UNCHANGED requesterVars)
  /\ WF_vars(UpdateResponder /\ UNCHANGED requesterVars)

Spec == Init /\ [][Next]_vars
FairSpec == Spec /\ Fairness

-----------------------------------------------------------------------------
PendingEntry == [id : 1 .. MaxRequestID, serial : Serials, age : 0 .. RequestTimeout]
InboundEntry == [key : Keys, serial : Serials, attempt : 1 .. MaxAttempts,
                 age : 0 .. InboundRequestTimeout]
CachedAnswer == [key : Keys, serial : Serials, age : 0 .. DuplicateResultLifetime]

\* Type correctness, with the capacities of the three tables.
TypeOK ==
  /\ requests \subseteq Request /\ responses \subseteq Response
  /\ nextRequestID \in [Requesters -> 1 .. MaxRequestID + 1]
  /\ pending \in [Requesters -> Seq(PendingEntry)]
  /\ \A r \in Requesters : Len(pending[r]) =< MaximumOutstandingRequests
  /\ invoked \in 0 .. MaxInvokes
  /\ outcome \in [Serials -> Seq(Serials)]
  /\ inboundHandler \in BOOLEAN
  /\ inbound \in Seq(InboundEntry) /\ Len(inbound) =< MaximumInboundRequests
  /\ duplicates \in Seq(CachedAnswer) /\ Len(duplicates) =< MaximumDuplicateResults
  /\ handedOff \subseteq [key : Keys, serial : Serials, attempt : 1 .. MaxAttempts]
  /\ attempts \in [Keys -> 0 .. MaxAttempts]
  /\ answered \in [Keys -> [age : 0 .. DuplicateResultLifetime,
                            newer : 0 .. MaximumDuplicateResults]]

\* Where an accepted invocation is pending.
PendingAt(s) == {p \in Requesters \X (1 .. MaximumOutstandingRequests) :
                   p[2] =< Len(pending[p[1]]) /\ pending[p[1]][p[2]].serial = s}

\* Every invocation that Invoke took is pending in one place or its completion
\* handler was called, once: whatever is sent late, twice or not at all, and
\* whenever the endpoint is shut down.
CompletedOnce ==
  \A s \in 1 .. invoked : Cardinality(PendingAt(s)) + Len(outcome[s]) = 1

\* A completion handler is given the result of its own invocation, never the
\* answer to another request that had, or has, the same ID.
OwnResult ==
  \A s \in Serials : \A i \in 1 .. Len(outcome[s]) : outcome[s][i] = s

\* A key has at most one record: it is inbound once, or has one cached answer.
OneRecordPerKey ==
  LET records == [i \in 1 .. Len(inbound) |-> inbound[i].key] \o
                 [i \in 1 .. Len(duplicates) |-> duplicates[i].key]
  IN  \A i, j \in 1 .. Len(records) : records[i] = records[j] => i = j

\* "Retransmitted or duplicate requests must not execute twice": the same
\* request is executed again only after its time is up: it is not inbound, and
\* its answer is older than the lifetime, was pushed out by as many newer ones
\* as the cache holds, or was never cached.
NoEarlyReexecution ==
  [][\A k \in Keys : attempts'[k] > attempts[k] =>
       /\ k \notin KeysOf(inbound)
       /\ \/ answered[k].age >= DuplicateResultLifetime
          \/ answered[k].newer >= MaximumDuplicateResults]_vars

\* Every completion handler is called in the end, with an answer or without.
EveryInvocationCompletes ==
  \A s \in Serials : invoked >= s ~> outcome[s] # << >>

\* An inbound slot never stays taken by an application that does not answer.
InboundSlotsReturn ==
  \A k \in Keys : k \in KeysOf(inbound) ~> k \notin KeysOf(inbound)
=============================================================================
