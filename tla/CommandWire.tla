---------------------------- MODULE CommandWire -----------------------------
(***************************************************************************)
(* The Command messages of ESPNowCommandProtocol on the radio.  A message   *)
(* carries the request ID; `serial' is the invocation it is about (what the *)
(* encoded path and parameters, or the encoded result, stand for).  Which   *)
(* result code an answer carries is not told apart.                         *)
(*                                                                          *)
(* The radio is unreliable.  A request that was sent may be received any    *)
(* number of times, late, in any order, or never.  A response is delivered  *)
(* at most once for each time it is sent, in any order, or is lost.         *)
(***************************************************************************)
EXTENDS Naturals, Sequences, FiniteSets

CONSTANTS
  Requesters,    \* peers that invoke Commands on the responder
  MaxInvokes,    \* bound: invocations made in all
  MaxRequestID   \* bound: the request IDs one requester uses

ASSUME MaxInvokesAssumption == MaxInvokes \in Nat
ASSUME MaxRequestIDAssumption == MaxRequestID \in Nat

Serials == 1 .. MaxInvokes
Keys == Requesters \X (1 .. MaxRequestID)   \* remote peer + request ID

VARIABLES requests,    \* the requests that were sent
          responses    \* the responses in flight

wireVars == <<requests, responses>>

Request == [key : Keys, serial : Serials]
Response == [key : Keys, serial : Serials]

WireInit == requests = {} /\ responses = {}

\* The n-th of a set of positions, and the entries of a table at these
\* positions, in their order: what is left when the others are erased.
Nth(S, n) == CHOOSE i \in S : Cardinality({j \in S : j =< i}) = n

EntriesAt(table, S) == [n \in 1 .. Cardinality(S) |-> table[Nth(S, n)]]

\* A table one tick later: the age of an entry counts up to a limit.
Older(table, limit) ==
  [i \in 1 .. Len(table) |->
     [table[i] EXCEPT !.age = IF @ < limit THEN @ + 1 ELSE @]]

LoseResponse == /\ \E m \in responses : responses' = responses \ {m}
                /\ UNCHANGED requests
=============================================================================
