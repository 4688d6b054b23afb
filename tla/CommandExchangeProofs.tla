------------------------ MODULE CommandExchangeProofs ------------------------
(***************************************************************************)
(* Command requests end to end, for every number of requesters and every    *)
(* capacity and time-out: results go to their own invocation, completion     *)
(* handlers are called once, and a request is not executed twice before its  *)
(* time is up.                                                               *)
(***************************************************************************)
EXTENDS CommandExchange, FiniteSetTheorems, SequenceTheorems, TLAPS

-----------------------------------------------------------------------------
(* Positions of a table.                                                    *)

Upto(S, i) == {j \in S : j =< i}

\* The rank of a position grows with it.
LEMMA RankGrows ==
  ASSUME NEW N \in Nat, NEW S \in SUBSET (1 .. N), NEW i \in S, NEW k \in S, i < k
  PROVE  Cardinality(Upto(S, i)) < Cardinality(Upto(S, k))
<1>0. \A x \in S : x \in Nat
  OBVIOUS
<1>1. IsFiniteSet(S)
  <2>1. IsFiniteSet(1 .. N)
    BY FS_Interval
  <2> QED
    BY <2>1, FS_Subset
<1>2. IsFiniteSet(Upto(S, i)) /\ IsFiniteSet(Upto(S, k))
  BY <1>1, FS_Subset DEF Upto
<1>3. Upto(S, i) \in SUBSET Upto(S, k) /\ k \in Upto(S, k) /\ k \notin Upto(S, i)
  <2>1. i \in Nat /\ k \in Nat
    BY <1>0
  <2>2. \A j \in Nat : j =< i => j =< k
    BY <2>1
  <2>3. k =< k /\ ~(k =< i)
    BY <2>1
  <2> QED
    BY <1>0, <2>2, <2>3 DEF Upto
<1>4. Cardinality(Upto(S, i)) =< Cardinality(Upto(S, k))
      /\ Cardinality(Upto(S, i)) # Cardinality(Upto(S, k))
  BY <1>2, <1>3, FS_Subset
<1>5. Cardinality(Upto(S, i)) \in Nat /\ Cardinality(Upto(S, k)) \in Nat
  BY <1>2, FS_CardinalityType
<1> QED
  BY <1>4, <1>5

\* Ranks run from 1 to the number of positions, and each is taken.
LEMMA RankOnto ==
  ASSUME NEW N \in Nat, NEW S \in SUBSET (1 .. N)
  PROVE  /\ IsFiniteSet(S) /\ Cardinality(S) \in Nat /\ Cardinality(S) =< N
         /\ \A i \in S : Cardinality(Upto(S, i)) \in 1 .. Cardinality(S)
         /\ \A n \in 1 .. Cardinality(S) : \E i \in S : Cardinality(Upto(S, i)) = n
<1> DEFINE c == Cardinality(S)
           f == [i \in S |-> Cardinality(Upto(S, i))]
<1>1. IsFiniteSet(S) /\ c \in Nat /\ c =< N
  <2>1. IsFiniteSet(1 .. N) /\ Cardinality(1 .. N) = N
    BY FS_Interval
  <2> QED
    BY <2>1, FS_Subset, FS_CardinalityType
<1>2. ASSUME NEW i \in S
      PROVE  Cardinality(Upto(S, i)) \in 1 .. c
  <2>1. Upto(S, i) \in SUBSET S /\ i \in Upto(S, i)
    BY DEF Upto
  <2>2. IsFiniteSet(Upto(S, i)) /\ Cardinality(Upto(S, i)) =< c
    BY <1>1, <2>1, FS_Subset
  <2>3. Cardinality(Upto(S, i)) \in Nat /\ Cardinality(Upto(S, i)) # 0
    BY <2>1, <2>2, FS_CardinalityType, FS_EmptySet
  <2> HIDE DEF c
  <2> QED
    BY <1>1, <2>2, <2>3
<1>3. f \in Injection(S, 1 .. c)
  <2>1. f \in [S -> 1 .. c]
    BY <1>2
  <2>2. ASSUME NEW i \in S, NEW k \in S, f[i] = f[k]
        PROVE  i = k
    <3>1. Cardinality(Upto(S, i)) = Cardinality(Upto(S, k)) /\ Cardinality(Upto(S, i)) \in Nat
      BY <1>2, <2>2
    <3>2. i < k \/ k < i \/ i = k
      OBVIOUS
    <3> QED
      BY <3>1, <3>2, RankGrows
  <2> HIDE DEF f
  <2> QED
    BY <2>1, <2>2 DEF Injection, IsInjective
<1>4. f \in Surjection(S, 1 .. c)
  <2>1. IsFiniteSet(1 .. c) /\ Cardinality(1 .. c) = c
    BY <1>1, FS_Interval
  <2> HIDE DEF f
  <2> QED
    BY <1>1, <1>3, <2>1, FS_Injection
<1> QED
  BY <1>1, <1>2, <1>4 DEF Surjection

\* The n-th position is one of them, they come in order, and each comes.
LEMMA NthFacts ==
  ASSUME NEW N \in Nat, NEW S \in SUBSET (1 .. N)
  PROVE  /\ Cardinality(S) \in Nat /\ Cardinality(S) =< N
         /\ \A n \in 1 .. Cardinality(S) : Nth(S, n) \in S /\ Cardinality(Upto(S, Nth(S, n))) = n
         /\ \A n, k \in 1 .. Cardinality(S) : n < k => Nth(S, n) < Nth(S, k)
         /\ \A i \in S : \E n \in 1 .. Cardinality(S) : Nth(S, n) = i
<1> DEFINE c == Cardinality(S)
<1>1. /\ c \in Nat /\ c =< N
      /\ \A i \in S : Cardinality(Upto(S, i)) \in 1 .. c
      /\ \A n \in 1 .. c : \E i \in S : Cardinality(Upto(S, i)) = n
  BY RankOnto
<1>0. \A x \in S : x \in Nat
  OBVIOUS
<1> HIDE DEF c
<1>2. \A n \in 1 .. c : Nth(S, n) \in S /\ Cardinality(Upto(S, Nth(S, n))) = n
  BY <1>1 DEF Nth, Upto
<1>3. ASSUME NEW n \in 1 .. c, NEW k \in 1 .. c, n < k
      PROVE  Nth(S, n) < Nth(S, k)
  <2> DEFINE p == Nth(S, n)
             q == Nth(S, k)
  <2>1. /\ p \in S /\ q \in S /\ Cardinality(Upto(S, p)) = n /\ Cardinality(Upto(S, q)) = k
        /\ n \in Nat /\ k \in Nat
    BY <1>1, <1>2
  <2> HIDE DEF p, q
  <2>2. p \in Nat /\ q \in Nat /\ p # q
    BY <1>0, <1>3, <2>1
  <2>3. ~(q < p)
    <3> SUFFICES ASSUME q < p PROVE FALSE
      OBVIOUS
    <3>1. Cardinality(Upto(S, q)) < Cardinality(Upto(S, p))
      BY <2>1, RankGrows
    <3> QED
      BY <1>3, <2>1, <3>1
  <2>4. p < q
    BY <2>2, <2>3
  <2> QED
    BY <2>4 DEF p, q
<1>4. ASSUME NEW i \in S
      PROVE  \E n \in 1 .. c : Nth(S, n) = i
  <2> DEFINE n == Cardinality(Upto(S, i))
  <2>1. n \in 1 .. c
    BY <1>1
  <2> DEFINE p == Nth(S, n)
  <2>2. p \in S /\ Cardinality(Upto(S, p)) = n
    BY <1>2, <2>1
  <2> HIDE DEF p
  <2>3. Cardinality(Upto(S, i)) = Cardinality(Upto(S, p)) /\ n \in Nat
    BY <1>1, <2>1, <2>2
  <2>4. p = i
    <3> HIDE DEF n
    <3>0. Cardinality(Upto(S, p)) \in Nat /\ ~(n < n)
      BY <2>2, <2>3
    <3>1. ~(p < i)
      <4> SUFFICES ASSUME p < i PROVE FALSE
        OBVIOUS
      <4>1. Cardinality(Upto(S, p)) < Cardinality(Upto(S, i))
        BY <2>2, RankGrows
      <4> QED
        BY <2>2, <2>3, <3>0, <4>1
    <3>2. ~(i < p)
      <4> SUFFICES ASSUME i < p PROVE FALSE
        OBVIOUS
      <4>1. Cardinality(Upto(S, i)) < Cardinality(Upto(S, p))
        BY <2>2, RankGrows
      <4> QED
        BY <2>2, <2>3, <3>0, <4>1
    <3> QED
      BY <1>0, <2>2, <3>1, <3>2
  <2> QED
    BY <2>1, <2>4 DEF p
<1> QED
  BY <1>1, <1>2, <1>3, <1>4 DEF c

\* No more positions follow the n-th one than entries follow it in the table.
LEMMA NthTail ==
  ASSUME NEW N \in Nat, NEW S \in SUBSET (1 .. N), NEW n \in 1 .. Cardinality(S)
  PROVE  Cardinality(S) + Nth(S, n) =< N + n
<1> DEFINE p == Nth(S, n)
           L == Upto(S, p)
           H == S \ L
<1>1. /\ p \in S /\ Cardinality(L) = n /\ Cardinality(S) \in Nat
  BY NthFacts
<1>2. IsFiniteSet(S) /\ L \in SUBSET S
  BY RankOnto DEF Upto
<1>3. p \in 1 .. N /\ H \in SUBSET (p + 1 .. N)
  <2>1. p \in 1 .. N
    BY <1>1
  <2>2. \A x \in S : x \in 1 .. N /\ (x =< p \/ x \in p + 1 .. N)
    <3> HIDE DEF p
    <3> QED
      BY <2>1
  <2> QED
    BY <2>1, <2>2 DEF Upto
<1>4. IsFiniteSet(p + 1 .. N) /\ Cardinality(p + 1 .. N) = N - p
  <2> HIDE DEF p
  <2>1. p + 1 \in Int /\ N \in Int
    BY <1>3
  <2>2. IsFiniteSet(p + 1 .. N)
        /\ Cardinality(p + 1 .. N) = IF p + 1 > N THEN 0 ELSE N - (p + 1) + 1
    BY <2>1, FS_Interval
  <2>3. (IF p + 1 > N THEN 0 ELSE N - (p + 1) + 1) = N - p
    BY <1>3
  <2> QED
    BY <2>2, <2>3
<1>5. Cardinality(H) =< N - p
  BY <1>3, <1>4, FS_Subset
<1>6. Cardinality(H) = Cardinality(S) - n
  <2>1. IsFiniteSet(L) /\ S \cap L = L
    BY <1>2, FS_Subset
  <2> HIDE DEF L
  <2>2. Cardinality(S \ L) = Cardinality(S) - Cardinality(S \cap L)
    BY <1>2, FS_Difference
  <2> QED
    BY <1>1, <2>1, <2>2
<1> HIDE DEF p, H
<1>7. Cardinality(S) - n =< N - p
  BY <1>5, <1>6
<1>8. Cardinality(S) + p =< N + n
  BY <1>1, <1>3, <1>7
<1> QED
  BY <1>8 DEF p

\* The positions of a table of N entries.
LEMMA PositionCount ==
  ASSUME NEW N \in Nat
  PROVE  IsFiniteSet(1 .. N) /\ Cardinality(1 .. N) = N
  BY FS_Interval

\* The entries at some of a table's positions.
LEMMA EntriesFacts ==
  ASSUME NEW E, NEW t \in Seq(E), NEW S \in SUBSET (1 .. Len(t))
  PROVE  /\ EntriesAt(t, S) \in Seq(E) /\ Len(EntriesAt(t, S)) = Cardinality(S)
         /\ Cardinality(S) \in Nat /\ Cardinality(S) =< Len(t)
         /\ S # 1 .. Len(t) => Cardinality(S) < Len(t)
         /\ \A n \in 1 .. Cardinality(S) : Nth(S, n) \in S /\ EntriesAt(t, S)[n] = t[Nth(S, n)]
         /\ \A n, k \in 1 .. Cardinality(S) : Nth(S, n) = Nth(S, k) => n = k
         /\ \A i \in S : \E n \in 1 .. Cardinality(S) : Nth(S, n) = i
<1> DEFINE c == Cardinality(S)
           u == EntriesAt(t, S)
<1>0. Len(t) \in Nat /\ \A i \in 1 .. Len(t) : t[i] \in E
  OBVIOUS
<1>1. /\ c \in Nat /\ c =< Len(t)
      /\ \A n \in 1 .. c : Nth(S, n) \in S
      /\ \A n, k \in 1 .. c : n < k => Nth(S, n) < Nth(S, k)
      /\ \A i \in S : \E n \in 1 .. c : Nth(S, n) = i
  BY <1>0, NthFacts
<1>2. S # 1 .. Len(t) => c < Len(t)
  <2>1. IsFiniteSet(1 .. Len(t)) /\ Cardinality(1 .. Len(t)) = Len(t)
    BY <1>0, PositionCount
  <2>2. c = Len(t) => S = 1 .. Len(t)
    BY <2>1, FS_Subset
  <2> HIDE DEF c
  <2> QED
    BY <1>0, <1>1, <2>2
<1> HIDE DEF c
<1>3. u = [n \in 1 .. c |-> t[Nth(S, n)]]
  BY DEF EntriesAt, c
<1>4. \A n \in 1 .. c : t[Nth(S, n)] \in E
  BY <1>0, <1>1
<1> HIDE DEF u
<1>5. u \in Seq(E) /\ Len(u) = c /\ \A n \in 1 .. c : u[n] = t[Nth(S, n)]
  BY <1>1, <1>3, <1>4
<1>6. ASSUME NEW n \in 1 .. c, NEW k \in 1 .. c, Nth(S, n) = Nth(S, k)
      PROVE  n = k
  <2>0. \A x \in S : x \in Nat
    BY <1>0
  <2>1. Nth(S, n) \in Nat /\ n \in Nat /\ k \in Nat
    <3>1. Nth(S, n) \in S
      BY <1>1
    <3>2. n \in Nat /\ k \in Nat
      OBVIOUS
    <3> QED
      BY <2>0, <3>1, <3>2
  <2>2. ~(Nth(S, n) < Nth(S, n))
    BY <2>1
  <2>3. ~(n < k) /\ ~(k < n)
    BY <1>1, <1>6, <2>2
  <2> QED
    BY <2>1, <2>3
<1> QED
  BY <1>1, <1>2, <1>5, <1>6 DEF c, u

-----------------------------------------------------------------------------
(* The inductive invariant of the requesters.                               *)

USE MaxInvokesAssumption, MaxRequestIDAssumption, MaximumOutstandingRequestsAssumption,
    RequestTimeoutAssumption, ReinvokesAssumption, MaximumInboundRequestsAssumption,
    MaximumDuplicateResultsAssumption, InboundRequestTimeoutAssumption,
    DuplicateResultLifetimeAssumption, MaxAttemptsAssumption

TableTypes ==
  /\ requests \subseteq Request
  /\ nextRequestID \in [Requesters -> 1 .. MaxRequestID + 1]
  /\ pending \in [Requesters -> Seq(PendingEntry)]
  /\ \A r \in Requesters : Len(pending[r]) =< MaximumOutstandingRequests
  /\ invoked \in 0 .. MaxInvokes

\* A request ID and an invocation are used for one request: the IDs go up, and
\* nothing sets them back.
RequestControl ==
  /\ \A m \in requests : m.key[2] < nextRequestID[m.key[1]] /\ m.serial =< invoked
  /\ \A m, n \in requests : m.key = n.key \/ m.serial = n.serial => m = n

Asked(r, e) == [key |-> <<r, e.id>>, serial |-> e.serial]

\* An entry is of a request that was sent, and is the only one of its invocation.
PendingControl ==
  \A r \in Requesters :
    /\ \A i \in 1 .. Len(pending[r]) : Asked(r, pending[r][i]) \in requests
    /\ \A i, j \in 1 .. Len(pending[r]) : pending[r][i].serial = pending[r][j].serial => i = j

TableInv == TableTypes /\ RequestControl /\ PendingControl

\* What is left of r's table after some entries are erased, or all grow older.
Kept(r, u) ==
  /\ u \in Seq(PendingEntry) /\ Len(u) =< Len(pending[r])
  /\ \A n \in 1 .. Len(u) : \E i \in 1 .. Len(pending[r]) :
       u[n].id = pending[r][i].id /\ u[n].serial = pending[r][i].serial
  /\ \A n, k \in 1 .. Len(u) : u[n].serial = u[k].serial => n = k

\* The fields of an entry.
LEMMA EntryFields ==
  ASSUME NEW t \in Seq(PendingEntry)
  PROVE  /\ Len(t) \in Nat
         /\ \A i \in 1 .. Len(t) : /\ t[i].id \in 1 .. MaxRequestID /\ t[i].serial \in Serials
                                   /\ t[i].age \in 0 .. RequestTimeout /\ t[i] \in PendingEntry
<1>1. Len(t) \in Nat /\ \A i \in 1 .. Len(t) : t[i] \in PendingEntry
  OBVIOUS
<1> QED
  BY <1>1 DEF PendingEntry

\* A table that stays.
LEMMA KeptSelf ==
  ASSUME TableInv, NEW r \in Requesters
  PROVE  Kept(r, pending[r])
<1>1. pending[r] \in Seq(PendingEntry) /\ Len(pending[r]) \in Nat
  BY DEF TableInv, TableTypes
<1> QED
  BY <1>1 DEF Kept, TableInv, PendingControl

\* A table some entries of which are erased.
LEMMA KeptAt ==
  ASSUME TableInv, NEW r \in Requesters, NEW S \in SUBSET (1 .. Len(pending[r]))
  PROVE  /\ Kept(r, EntriesAt(pending[r], S))
         /\ S # 1 .. Len(pending[r]) =>
              Len(EntriesAt(pending[r], S)) < MaximumOutstandingRequests
         /\ {EntriesAt(pending[r], S)[n].serial : n \in 1 .. Len(EntriesAt(pending[r], S))}
              = SerialsAt(r, S)
<1> DEFINE t == pending[r]
           u == EntriesAt(t, S)
<1>1. t \in Seq(PendingEntry) /\ Len(t) \in Nat /\ Len(t) =< MaximumOutstandingRequests
  BY DEF TableInv, TableTypes
<1>2. /\ u \in Seq(PendingEntry) /\ Len(u) = Cardinality(S)
      /\ Cardinality(S) \in Nat /\ Cardinality(S) =< Len(t)
      /\ S # 1 .. Len(t) => Cardinality(S) < Len(t)
      /\ \A n \in 1 .. Cardinality(S) : Nth(S, n) \in S /\ u[n] = t[Nth(S, n)]
      /\ \A n, k \in 1 .. Cardinality(S) : Nth(S, n) = Nth(S, k) => n = k
      /\ \A i \in S : \E n \in 1 .. Cardinality(S) : Nth(S, n) = i
  BY <1>1, EntriesFacts
<1>3. \A i, j \in 1 .. Len(t) : t[i].serial = t[j].serial => i = j
  BY DEF TableInv, PendingControl
<1>4. {u[n].serial : n \in 1 .. Len(u)} = {t[i].serial : i \in S}
  <2> HIDE DEF u, t
  <2>1. \A n \in 1 .. Len(u) : \E i \in S : u[n].serial = t[i].serial
    BY <1>2
  <2>2. \A i \in S : \E n \in 1 .. Len(u) : u[n].serial = t[i].serial
    BY <1>2
  <2>3. {u[n].serial : n \in 1 .. Len(u)} \subseteq {t[i].serial : i \in S}
    BY <2>1
  <2>4. {t[i].serial : i \in S} \subseteq {u[n].serial : n \in 1 .. Len(u)}
    BY <2>2
  <2> QED
    BY <2>3, <2>4
<1>5. Kept(r, u)
  <2> HIDE DEF u
  <2>1. \A n \in 1 .. Len(u) : \E i \in 1 .. Len(t) : u[n] = t[i]
    BY <1>2
  <2>2. \A n, k \in 1 .. Len(u) : u[n].serial = u[k].serial => n = k
    <3>1. \A n \in 1 .. Len(u) : Nth(S, n) \in 1 .. Len(t) /\ u[n] = t[Nth(S, n)]
      BY <1>2
    <3> HIDE DEF t
    <3> QED
      BY <1>2, <1>3, <3>1
  <2> QED
    BY <1>2, <2>1, <2>2 DEF Kept
<1>6. S # 1 .. Len(t) => Len(u) < MaximumOutstandingRequests
  <2> HIDE DEF u, t
  <2> QED
    BY <1>1, <1>2
<1> QED
  BY <1>4, <1>5, <1>6 DEF SerialsAt

\* The tables when r's is thinned out.
LEMMA TableStays ==
  ASSUME TableInv, NEW r \in Requesters, NEW u, Kept(r, u),
         pending' = [pending EXCEPT ![r] = u], UNCHANGED <<nextRequestID, invoked, requests>>
  PROVE  TableInv'
<1>0. pending \in [Requesters -> Seq(PendingEntry)] /\ Len(pending[r]) \in Nat /\ Len(u) \in Nat
  BY DEF TableInv, TableTypes, Kept
<1>1. /\ pending' \in [Requesters -> Seq(PendingEntry)]
      /\ pending'[r] = u /\ \A q \in Requesters : q # r => pending'[q] = pending[q]
  BY <1>0 DEF Kept
<1>2. Len(u) =< MaximumOutstandingRequests
  BY <1>0 DEF TableInv, TableTypes, Kept
<1>3. TableTypes'
  BY <1>1, <1>2 DEF TableInv, TableTypes
<1>4. \A n \in 1 .. Len(u) : Asked(r, u[n]) \in requests
  BY DEF Kept, TableInv, PendingControl, Asked
<1>5. PendingControl'
  BY <1>1, <1>4 DEF TableInv, PendingControl, Kept, Asked
<1> QED
  BY <1>3, <1>5 DEF TableInv, RequestControl

\* A new request has an ID and an invocation of its own.
LEMMA RequestNew ==
  ASSUME TableInv, NEW r \in Requesters, Bounded(r), requests' = requests \cup {NewRequest(r)},
         nextRequestID' = [nextRequestID EXCEPT ![r] = @ + 1], invoked' = invoked + 1
  PROVE  /\ requests' \subseteq Request /\ nextRequestID' \in [Requesters -> 1 .. MaxRequestID + 1]
         /\ invoked' \in 0 .. MaxInvokes /\ RequestControl'
         /\ invoked + 1 \in Serials /\ \A m \in requests : m.serial # invoked + 1
         /\ NewPending(r) \in PendingEntry /\ NewPending(r).serial = invoked + 1
         /\ Asked(r, NewPending(r)) = NewRequest(r)
<1>0. /\ nextRequestID \in [Requesters -> 1 .. MaxRequestID + 1] /\ invoked \in 0 .. MaxInvokes
      /\ requests \subseteq Request /\ nextRequestID[r] \in 1 .. MaxRequestID
      /\ invoked + 1 \in 1 .. MaxInvokes
  BY DEF TableInv, TableTypes, Bounded
<1>1. nextRequestID' \in [Requesters -> 1 .. MaxRequestID + 1] /\ invoked' \in 0 .. MaxInvokes
  BY <1>0
<1>2. /\ NewPending(r) \in PendingEntry /\ NewPending(r).serial = invoked + 1
      /\ Asked(r, NewPending(r)) = NewRequest(r)
  BY <1>0 DEF NewPending, PendingEntry, Asked, NewRequest, Serials
<1>3. /\ NewRequest(r) \in Request /\ NewRequest(r).key = <<r, nextRequestID[r]>>
      /\ NewRequest(r).serial = invoked + 1
  BY <1>0 DEF NewRequest, Request, Keys, Serials
<1>4. \A m \in requests : m.key \in Keys /\ m.serial \in Serials /\ m.serial \in Nat
  BY <1>0 DEF Request, Serials
<1>5. \A m \in requests : /\ m.key[1] \in Requesters /\ m.key[2] \in Nat
                          /\ m.key[2] < nextRequestID'[m.key[1]]
                          /\ m.serial # invoked + 1 /\ m.serial =< invoked'
                          /\ m.key # <<r, nextRequestID[r]>>
  <2> SUFFICES ASSUME NEW m \in requests
               PROVE  /\ m.key[1] \in Requesters /\ m.key[2] \in Nat
                      /\ m.key[2] < nextRequestID'[m.key[1]]
                      /\ m.serial # invoked + 1 /\ m.serial =< invoked'
                      /\ m.key # <<r, nextRequestID[r]>>
    OBVIOUS
  <2>1. m.key[1] \in Requesters /\ m.key[2] \in 1 .. MaxRequestID
    BY <1>4 DEF Keys
  <2>2. m.key[2] < nextRequestID[m.key[1]] /\ m.serial =< invoked
    BY DEF TableInv, RequestControl
  <2>3. nextRequestID'[m.key[1]] \in {nextRequestID[m.key[1]], nextRequestID[m.key[1]] + 1}
    BY <1>0, <2>1
  <2>4. m.key[2] < nextRequestID'[m.key[1]]
    BY <1>0, <2>1, <2>2, <2>3
  <2>5. m.serial # invoked + 1 /\ m.serial =< invoked'
    BY <1>0, <1>4, <2>2
  <2>6. m.key # <<r, nextRequestID[r]>>
    BY <1>0, <2>1, <2>2
  <2> QED
    BY <2>1, <2>4, <2>5, <2>6
<1>6. nextRequestID[r] < nextRequestID'[r] /\ invoked + 1 =< invoked'
  BY <1>0
<1>7. RequestControl'
  BY <1>3, <1>5, <1>6 DEF TableInv, RequestControl
<1> QED
  BY <1>0, <1>1, <1>2, <1>3, <1>5, <1>7 DEF Serials

\* The tables when r's gets a new entry.
LEMMA TableGrows ==
  ASSUME TableInv, NEW r \in Requesters, NEW u, Kept(r, u), Len(u) < MaximumOutstandingRequests,
         Bounded(r), pending' = [pending EXCEPT ![r] = Append(u, NewPending(r))],
         requests' = requests \cup {NewRequest(r)},
         nextRequestID' = [nextRequestID EXCEPT ![r] = @ + 1], invoked' = invoked + 1
  PROVE  TableInv'
<1> DEFINE e == NewPending(r)
           w == Append(u, e)
<1>0. /\ requests' \subseteq Request /\ nextRequestID' \in [Requesters -> 1 .. MaxRequestID + 1]
      /\ invoked' \in 0 .. MaxInvokes /\ RequestControl'
      /\ \A m \in requests : m.serial # invoked + 1
      /\ e \in PendingEntry /\ e.serial = invoked + 1 /\ Asked(r, e) = NewRequest(r)
  BY RequestNew
<1> HIDE DEF e
<1>1. u \in Seq(PendingEntry) /\ Len(u) \in Nat
  BY DEF Kept
<1>2. /\ w \in Seq(PendingEntry) /\ Len(w) = Len(u) + 1 /\ w[Len(u) + 1] = e
      /\ \A n \in 1 .. Len(u) : w[n] = u[n]
  BY <1>0, <1>1
<1>3. \A n \in 1 .. Len(w) : n \in 1 .. Len(u) \/ n = Len(u) + 1
  BY <1>1, <1>2
<1>4. pending' = [pending EXCEPT ![r] = w] /\ pending \in [Requesters -> Seq(PendingEntry)]
  BY DEF TableInv, TableTypes, e
<1> HIDE DEF w
<1>5. /\ pending' \in [Requesters -> Seq(PendingEntry)]
      /\ pending'[r] = w /\ \A q \in Requesters : q # r => pending'[q] = pending[q]
  BY <1>2, <1>4
<1>6. TableTypes'
  <2>1. Len(w) =< MaximumOutstandingRequests
    BY <1>1, <1>2
  <2> QED
    BY <1>0, <1>5, <2>1 DEF TableInv, TableTypes
<1>7. \A n \in 1 .. Len(u) : Asked(r, u[n]) \in requests /\ u[n].serial # invoked + 1
  <2> SUFFICES ASSUME NEW n \in 1 .. Len(u)
               PROVE  Asked(r, u[n]) \in requests /\ u[n].serial # invoked + 1
    OBVIOUS
  <2>1. Asked(r, u[n]) \in requests
    BY DEF Kept, TableInv, PendingControl, Asked
  <2>2. Asked(r, u[n]).serial = u[n].serial
    BY DEF Asked
  <2> QED
    BY <1>0, <2>1, <2>2
<1>8. \A n \in 1 .. Len(w) : Asked(r, w[n]) \in requests'
  BY <1>0, <1>2, <1>3, <1>7
<1>9. ASSUME NEW n \in 1 .. Len(w), NEW k \in 1 .. Len(w), w[n].serial = w[k].serial
      PROVE  n = k
  <2>1. CASE n \in 1 .. Len(u) /\ k \in 1 .. Len(u)
    BY <1>2, <1>9, <2>1 DEF Kept
  <2>2. CASE n = Len(u) + 1 /\ k \in 1 .. Len(u)
    BY <1>0, <1>2, <1>7, <1>9, <2>2
  <2>3. CASE n \in 1 .. Len(u) /\ k = Len(u) + 1
    BY <1>0, <1>2, <1>7, <1>9, <2>3
  <2> QED
    BY <1>3, <2>1, <2>2, <2>3
<1>10. PendingControl'
  <2> SUFFICES ASSUME NEW q \in Requesters
               PROVE  /\ \A i \in 1 .. Len(pending'[q]) : Asked(q, pending'[q][i]) \in requests'
                      /\ \A i, j \in 1 .. Len(pending'[q]) :
                           pending'[q][i].serial = pending'[q][j].serial => i = j
    BY DEF PendingControl, Asked
  <2>1. CASE q = r
    BY <1>5, <1>8, <1>9, <2>1
  <2>2. CASE q # r
    BY <1>5, <2>2 DEF TableInv, PendingControl
  <2> QED
    BY <2>1, <2>2
<1> QED
  BY <1>0, <1>6, <1>10 DEF TableInv

-----------------------------------------------------------------------------
(* The steps of a requester.                                                *)

OutcomeInv == outcome \in [Serials -> Seq(Serials)] /\ OwnResult

\* A completion handler that ran may invoke again.
LEMMA ReinvokedInv ==
  ASSUME TableInv, NEW r \in Requesters, NEW u, Kept(r, u), Len(u) < MaximumOutstandingRequests,
         NEW context, Reinvoked(r, u, context)
  PROVE  TableInv' /\ requests \subseteq requests'
  BY TableStays, TableGrows DEF Reinvoked

\* A local error goes to the invocation it is about.
LEMMA CompletedOwn ==
  ASSUME OutcomeInv, NEW S, outcome' = Completed(S)
  PROVE  /\ OutcomeInv'
         /\ \A s \in Serials : outcome'[s] = IF s \in S THEN Append(outcome[s], s) ELSE outcome[s]
<1>0. outcome \in [Serials -> Seq(Serials)]
  BY DEF OutcomeInv
<1>1. \A s \in Serials : outcome'[s] = IF s \in S THEN Append(outcome[s], s) ELSE outcome[s]
  BY DEF Completed
<1>2. ASSUME NEW s \in Serials
      PROVE  outcome'[s] \in Seq(Serials) /\ \A i \in 1 .. Len(outcome'[s]) : outcome'[s][i] = s
  <2> DEFINE q == outcome[s]
  <2>1. q \in Seq(Serials) /\ \A i \in 1 .. Len(q) : q[i] = s
    BY <1>0 DEF OutcomeInv, OwnResult
  <2>2. outcome'[s] = q \/ outcome'[s] = Append(q, s)
    BY <1>1
  <2> HIDE DEF q
  <2>3. /\ Append(q, s) \in Seq(Serials) /\ Len(Append(q, s)) = Len(q) + 1 /\ Len(q) \in Nat
        /\ Append(q, s)[Len(q) + 1] = s /\ \A i \in 1 .. Len(q) : Append(q, s)[i] = q[i]
    BY <2>1
  <2>4. \A i \in 1 .. Len(Append(q, s)) : Append(q, s)[i] = s
    BY <2>1, <2>3
  <2> QED
    BY <2>1, <2>2, <2>3, <2>4
<1>3. outcome' \in [Serials -> Seq(Serials)]
  BY <1>2 DEF Completed
<1> QED
  BY <1>1, <1>2, <1>3 DEF OutcomeInv, OwnResult

\* An entry grows older.
LEMMA OlderEntry ==
  ASSUME NEW e \in PendingEntry
  PROVE  LET d == [e EXCEPT !.age = IF @ < RequestTimeout THEN @ + 1 ELSE @]
         IN  d \in PendingEntry /\ d.id = e.id /\ d.serial = e.serial
<1>1. (IF e.age < RequestTimeout THEN e.age + 1 ELSE e.age) \in 0 .. RequestTimeout
  BY DEF PendingEntry
<1> QED
  BY <1>1 DEF PendingEntry

\* Time passes for a requester.
LEMMA TickTable ==
  ASSUME TableInv, NEW r \in Requesters, TickRequester(r)
  PROVE  TableInv' /\ \A q \in Requesters : /\ Len(pending'[q]) = Len(pending[q])
                                            /\ \A i \in 1 .. Len(pending[q]) :
                                                 pending'[q][i].serial = pending[q][i].serial
<1> DEFINE t == pending[r]
           w == [i \in 1 .. Len(t) |->
                   [t[i] EXCEPT !.age = IF @ < RequestTimeout THEN @ + 1 ELSE @]]
<1>0. /\ pending' = [pending EXCEPT ![r] = w] /\ pending \in [Requesters -> Seq(PendingEntry)]
      /\ UNCHANGED <<nextRequestID, invoked, requests>>
  BY DEF TickRequester, Older, TableInv, TableTypes, wireVars
<1>1. t \in Seq(PendingEntry) /\ Len(t) \in Nat /\ \A i \in 1 .. Len(t) : t[i] \in PendingEntry
  BY <1>0, EntryFields
<1>2. \A i, j \in 1 .. Len(t) : t[i].serial = t[j].serial => i = j
  BY DEF TableInv, PendingControl
<1>3. \A i \in 1 .. Len(t) : w[i] \in PendingEntry /\ w[i].id = t[i].id /\ w[i].serial = t[i].serial
  <2> HIDE DEF t
  <2> QED
    BY <1>1, OlderEntry
<1>4. w \in Seq(PendingEntry) /\ Len(w) = Len(t)
  <2>1. w \in [1 .. Len(t) -> PendingEntry]
    BY <1>3
  <2> HIDE DEF w, t
  <2> QED
    BY <1>1, <2>1
<1> HIDE DEF w
<1>5. Kept(r, w)
  <2>1. Len(w) =< Len(t)
    <3> HIDE DEF t
    <3> QED
      BY <1>1, <1>4
  <2> QED
    BY <1>2, <1>3, <1>4, <2>1 DEF Kept
<1>6. TableInv'
  BY <1>0, <1>5, TableStays
<1>7. pending'[r] = w /\ \A q \in Requesters : q # r => pending'[q] = pending[q]
  BY <1>0
<1> QED
  BY <1>3, <1>4, <1>6, <1>7

\* The request IDs go up; nothing else changes.
LEMMA IDUsed ==
  ASSUME TableInv, NEW r \in Requesters, nextRequestID[r] =< MaxRequestID,
         nextRequestID' = [nextRequestID EXCEPT ![r] = @ + 1], UNCHANGED <<pending, requests>>,
         invoked' \in {invoked, invoked + 1}, invoked' \in 0 .. MaxInvokes
  PROVE  TableInv'
<1>0. /\ nextRequestID \in [Requesters -> 1 .. MaxRequestID + 1] /\ invoked \in 0 .. MaxInvokes
      /\ requests \subseteq Request
  BY DEF TableInv, TableTypes
<1>1. /\ nextRequestID' \in [Requesters -> 1 .. MaxRequestID + 1]
      /\ \A q \in Requesters : nextRequestID'[q] \in {nextRequestID[q], nextRequestID[q] + 1}
  BY <1>0
<1>2. TableTypes'
  BY <1>1 DEF TableInv, TableTypes
<1>3. ASSUME NEW m \in requests
      PROVE  m.key[2] < nextRequestID'[m.key[1]] /\ m.serial =< invoked'
  <2>1. m.key[1] \in Requesters /\ m.key[2] \in 1 .. MaxRequestID /\ m.serial \in 1 .. MaxInvokes
    BY <1>0 DEF Request, Keys, Serials
  <2>2. m.key[2] < nextRequestID[m.key[1]] /\ m.serial =< invoked
    BY DEF TableInv, RequestControl
  <2> QED
    BY <1>0, <1>1, <2>1, <2>2
<1>4. RequestControl' /\ PendingControl'
  BY <1>3 DEF TableInv, RequestControl, PendingControl, Asked
<1> QED
  BY <1>2, <1>4 DEF TableInv

\* The response that is found carries the result of the invocation that waits.
LEMMA ResponseOwn ==
  ASSUME TableInv, OutcomeInv, NEW r \in Requesters, NEW m \in requests,
         NEW i \in 1 .. Len(pending[r]), m.key = <<r, pending[r][i].id>>,
         outcome' = [outcome EXCEPT ![pending[r][i].serial] = Append(@, m.serial)]
  PROVE  outcome' = Completed({pending[r][i].serial}) /\ pending[r][i].serial \in Serials
<1>1. Asked(r, pending[r][i]) \in requests /\ Asked(r, pending[r][i]).key = m.key
      /\ Asked(r, pending[r][i]).serial = pending[r][i].serial
  BY DEF TableInv, PendingControl, Asked
<1>2. m.serial = pending[r][i].serial
  BY <1>1 DEF TableInv, RequestControl
<1>3. outcome \in [Serials -> Seq(Serials)]
  BY DEF OutcomeInv
<1>4. pending[r][i].serial \in Serials
  BY <1>1 DEF TableInv, TableTypes, Request
<1> QED
  BY <1>2, <1>3, <1>4 DEF Completed

-----------------------------------------------------------------------------
(* Invocations, pending and completed.                                      *)

\* The invocations in a table, and whether an invocation is in one.
SerialsIn(u) == {u[n].serial : n \in 1 .. Len(u)}
IsPending(s) == \E q \in Requesters : s \in SerialsIn(pending[q])

\* An invocation that was accepted waits or was completed; later ones do neither.
CompletionControl ==
  \A s \in Serials :
    /\ Len(outcome[s]) =< 1
    /\ s > invoked => outcome[s] = << >>
    /\ IsPending(s) <=> s =< invoked /\ outcome[s] = << >>

\* A step that accepts the invocations of A and completes those of S.
CompletionStep(S, A) ==
  /\ S \subseteq Serials
  /\ \/ A = {} /\ invoked' = invoked
     \/ A = {invoked + 1} /\ invoked' = invoked + 1 /\ invoked + 1 \in Serials
  /\ \A s \in S : IsPending(s) \/ s \in A
  /\ outcome' = Completed(S)
  /\ \A s \in Serials : IsPending(s)' <=> (IsPending(s) \/ s \in A) /\ s \notin S

\* What it leaves.
LEMMA CompletionKept ==
  ASSUME TableInv, OutcomeInv, CompletionControl, NEW S, NEW A, CompletionStep(S, A)
  PROVE  CompletionControl'
<1>0. invoked \in Nat /\ outcome \in [Serials -> Seq(Serials)] /\ \A s \in Serials : s \in Nat
  BY DEF TableInv, TableTypes, OutcomeInv, Serials
<1> SUFFICES ASSUME NEW s \in Serials
             PROVE  /\ Len(outcome'[s]) =< 1
                    /\ s > invoked' => outcome'[s] = << >>
                    /\ IsPending(s)' <=> s =< invoked' /\ outcome'[s] = << >>
  BY DEF CompletionControl, IsPending, SerialsIn
<1>1. /\ Len(outcome[s]) =< 1 /\ (s > invoked => outcome[s] = << >>)
      /\ IsPending(s) <=> s =< invoked /\ outcome[s] = << >>
      /\ IsPending(s)' <=> (IsPending(s) \/ s \in A) /\ s \notin S
      /\ s \in S => IsPending(s) \/ s \in A
      /\ \/ A = {} /\ invoked' = invoked
         \/ A = {invoked + 1} /\ invoked' = invoked + 1
      /\ outcome'[s] = IF s \in S THEN Append(outcome[s], s) ELSE outcome[s]
  BY DEF CompletionControl, CompletionStep, Completed
<1>2. /\ Append(<< >>, s) # << >> /\ Len(Append(<< >>, s)) = 1 /\ Len(<< >>) = 0
      /\ outcome[s] \in Seq(Serials)
  BY <1>0
<1> HIDE DEF IsPending
<1>3. CASE s \in S
  <2>1. outcome[s] = << >>
    BY <1>0, <1>1, <1>3
  <2>2. outcome'[s] = Append(<< >>, s) /\ ~IsPending(s)'
    BY <1>1, <1>3, <2>1
  <2>3. s =< invoked'
    BY <1>0, <1>1, <1>3
  <2>4. Len(outcome'[s]) =< 1 /\ outcome'[s] # << >>
    BY <1>2, <2>2
  <2>5. ~(s > invoked')
    <3>1. s \in Nat /\ invoked' \in Nat
      BY <1>0, <1>1
    <3> QED
      BY <2>3, <3>1
  <2> QED
    BY <2>2, <2>4, <2>5
<1>4. CASE s \notin S
  <2>1. outcome'[s] = outcome[s] /\ (IsPending(s)' <=> IsPending(s) \/ s \in A)
    BY <1>1, <1>4
  <2>2. s \in A => s > invoked /\ s =< invoked'
    BY <1>0, <1>1
  <2>3. s \notin A => (s > invoked <=> s > invoked') /\ (s =< invoked <=> s =< invoked')
    BY <1>0, <1>1
  <2> QED
    BY <1>0, <1>1, <2>1, <2>2, <2>3
<1> QED
  BY <1>3, <1>4

\* An invocation is pending in at most one place.
LEMMA PendingUnique ==
  ASSUME TableInv, NEW q \in Requesters, NEW r \in Requesters,
         NEW i \in 1 .. Len(pending[q]), NEW j \in 1 .. Len(pending[r]),
         pending[q][i].serial = pending[r][j].serial
  PROVE  q = r /\ i = j
<1>1. Asked(q, pending[q][i]) \in requests /\ Asked(r, pending[r][j]) \in requests
  BY DEF TableInv, PendingControl
<1>2. Asked(q, pending[q][i]) = Asked(r, pending[r][j])
  BY <1>1 DEF TableInv, RequestControl, Asked
<1>3. q = r
  BY <1>2 DEF Asked
<1> QED
  BY <1>3 DEF TableInv, PendingControl

\* An invocation that is pending was accepted.
LEMMA PendingAccepted ==
  ASSUME TableInv, NEW s, IsPending(s)
  PROVE  s \in Serials /\ s # invoked + 1
<1>1. PICK q \in Requesters : \E i \in 1 .. Len(pending[q]) : s = pending[q][i].serial
  BY DEF IsPending, SerialsIn
<1> PICK i \in 1 .. Len(pending[q]) : s = pending[q][i].serial
  BY <1>1
<1>2. Asked(q, pending[q][i]) \in requests /\ Asked(q, pending[q][i]).serial = s
  BY DEF TableInv, PendingControl, Asked
<1>3. s \in Serials /\ s =< invoked
  BY <1>2 DEF TableInv, TableTypes, RequestControl, Request
<1> QED
  BY <1>3 DEF TableInv, TableTypes, Serials

\* The invocations pending after r's table keeps the entries at K, and perhaps
\* gets one of the invocation e.
LEMMA PendingAfter ==
  ASSUME TableInv, NEW r \in Requesters, NEW K \in SUBSET (1 .. Len(pending[r])), NEW A,
         \A s \in A : s = invoked + 1,
         pending' = [pending EXCEPT ![r] = pending'[r]],
         SerialsIn(pending'[r]) = SerialsAt(r, K) \cup A
  PROVE  /\ \A s \in SerialsAt(r, (1 .. Len(pending[r])) \ K) : IsPending(s)
         /\ \A s : IsPending(s)' <=> (IsPending(s) \/ s \in A)
                                     /\ s \notin SerialsAt(r, (1 .. Len(pending[r])) \ K)
<1> DEFINE P == 1 .. Len(pending[r])
           G == SerialsAt(r, P \ K)
<1>0. pending \in [Requesters -> Seq(PendingEntry)]
  BY DEF TableInv, TableTypes
<1>1. \A q \in Requesters : q # r => pending'[q] = pending[q]
  BY <1>0
<1>2. \A s \in G : s \in SerialsIn(pending[r])
  BY DEF SerialsAt, SerialsIn
<1>3. \A s \in G : IsPending(s)
  BY <1>2 DEF IsPending
<1>4. \A s \in G : s \notin A
  BY <1>3, PendingAccepted
<1>5. \A s \in G : s \notin SerialsAt(r, K)
  BY DEF SerialsAt, TableInv, PendingControl
<1>6. ASSUME NEW q \in Requesters, q # r, NEW s \in G
      PROVE  s \notin SerialsIn(pending[q])
  <2> SUFFICES ASSUME s \in SerialsIn(pending[q])
               PROVE  FALSE
    OBVIOUS
  <2>1. PICK i \in 1 .. Len(pending[q]) : s = pending[q][i].serial
    BY DEF SerialsIn
  <2>2. PICK j \in P : s = pending[r][j].serial
    BY DEF SerialsAt
  <2> QED
    BY <1>6, <2>1, <2>2, PendingUnique
<1>7. SerialsIn(pending[r]) \subseteq SerialsAt(r, K) \cup G
      /\ SerialsAt(r, K) \subseteq SerialsIn(pending[r])
  BY DEF SerialsIn, SerialsAt
<1>8. SerialsIn(pending[r])' = SerialsIn(pending'[r])
      /\ \A q \in Requesters : q # r => SerialsIn(pending[q])' = SerialsIn(pending[q])
  BY <1>1 DEF SerialsIn
<1>9. ASSUME NEW s
      PROVE  IsPending(s)' <=> (IsPending(s) \/ s \in A) /\ s \notin G
  <2> HIDE DEF G
  <2>1. ASSUME IsPending(s)'
        PROVE  (IsPending(s) \/ s \in A) /\ s \notin G
    <3>1. PICK q \in Requesters : s \in SerialsIn(pending[q])'
      BY <2>1 DEF IsPending
    <3>2. CASE q = r
      <4>1. s \in SerialsAt(r, K) \cup A
        BY <1>8, <3>1, <3>2
      <4> QED
        BY <1>4, <1>5, <1>7, <4>1 DEF IsPending
    <3>3. CASE q # r
      BY <1>6, <1>8, <3>1, <3>3 DEF IsPending
    <3> QED
      BY <3>2, <3>3
  <2>2. ASSUME s \in A
        PROVE  IsPending(s)'
    BY <1>8, <2>2 DEF IsPending
  <2>3. ASSUME IsPending(s), s \notin G
        PROVE  IsPending(s)'
    <3>1. PICK q \in Requesters : s \in SerialsIn(pending[q])
      BY <2>3 DEF IsPending
    <3>2. CASE q = r
      <4>1. s \in SerialsAt(r, K)
        BY <1>7, <2>3, <3>1, <3>2
      <4> QED
        BY <1>8, <4>1 DEF IsPending
    <3>3. CASE q # r
      BY <1>8, <3>1, <3>3 DEF IsPending
    <3> QED
      BY <3>2, <3>3
  <2> QED
    BY <2>1, <2>2, <2>3
<1> QED
  BY <1>3, <1>9

\* One more entry.
LEMMA SerialsAppend ==
  ASSUME NEW u \in Seq(PendingEntry), NEW e \in PendingEntry
  PROVE  SerialsIn(Append(u, e)) = SerialsIn(u) \cup {e.serial}
<1> DEFINE w == Append(u, e)
<1>1. /\ Len(u) \in Nat /\ Len(w) = Len(u) + 1 /\ w[Len(u) + 1] = e
      /\ \A n \in 1 .. Len(u) : w[n] = u[n]
  OBVIOUS
<1> HIDE DEF w
<1>2. /\ \A n \in 1 .. Len(w) : n \in 1 .. Len(u) \/ n = Len(u) + 1
      /\ \A n \in 1 .. Len(u) : n \in 1 .. Len(w)
      /\ Len(u) + 1 \in 1 .. Len(w)
  BY <1>1
<1>3. SerialsIn(w) \subseteq SerialsIn(u) \cup {e.serial}
  BY <1>1, <1>2 DEF SerialsIn
<1>4. SerialsIn(u) \subseteq SerialsIn(w) /\ e.serial \in SerialsIn(w)
  BY <1>1, <1>2 DEF SerialsIn
<1> QED
  BY <1>3, <1>4 DEF w

\* The handlers of the entries outside K have run, and may have invoked again.
LEMMA ReinvokedCompletes ==
  ASSUME TableInv, NEW r \in Requesters, NEW K \in SUBSET (1 .. Len(pending[r])),
         NEW context, Reinvoked(r, EntriesAt(pending[r], K), context),
         outcome' = Completed(SerialsAt(r, (1 .. Len(pending[r])) \ K))
  PROVE  \E S, A : CompletionStep(S, A)
<1> DEFINE u == EntriesAt(pending[r], K)
           G == SerialsAt(r, (1 .. Len(pending[r])) \ K)
<1>0. /\ pending \in [Requesters -> Seq(PendingEntry)]
      /\ invoked \in Nat
  BY DEF TableInv, TableTypes
<1>1. u \in Seq(PendingEntry) /\ SerialsIn(u) = SerialsAt(r, K)
  BY KeptAt DEF Kept, SerialsIn
<1> HIDE DEF u
<1>2. CASE pending' = [pending EXCEPT ![r] = u] /\ invoked' = invoked
  <2> DEFINE B == {}
  <2>1. pending' = [pending EXCEPT ![r] = pending'[r]] /\ SerialsIn(pending'[r]) = SerialsAt(r, K) \cup B
    BY <1>0, <1>1, <1>2
  <2>0. \A s \in B : s = invoked + 1
    OBVIOUS
  <2> HIDE DEF B
  <2>2. /\ \A s \in G : IsPending(s)
        /\ \A s : IsPending(s)' <=> (IsPending(s) \/ s \in B) /\ s \notin G
    BY <2>0, <2>1, PendingAfter
  <2>3. G \subseteq Serials
    BY <2>2, PendingAccepted
  <2>4. CompletionStep(G, B)
    BY <1>2, <2>2, <2>3 DEF CompletionStep, B
  <2> QED
    BY <2>4
<1>3. CASE /\ Bounded(r) /\ pending' = [pending EXCEPT ![r] = Append(u, NewPending(r))]
           /\ requests' = requests \cup {NewRequest(r)}
           /\ nextRequestID' = [nextRequestID EXCEPT ![r] = @ + 1]
           /\ invoked' = invoked + 1
  <2>0. NewPending(r) \in PendingEntry /\ NewPending(r).serial = invoked + 1 /\ invoked + 1 \in Serials
    BY <1>3, RequestNew
  <2>1. /\ pending' = [pending EXCEPT ![r] = pending'[r]]
        /\ SerialsIn(pending'[r]) = SerialsAt(r, K) \cup {invoked + 1}
    <3>1. pending'[r] = Append(u, NewPending(r)) /\ pending' = [pending EXCEPT ![r] = pending'[r]]
      BY <1>0, <1>3
    <3> QED
      BY <1>1, <2>0, <3>1, SerialsAppend
  <2>2. /\ \A s \in G : IsPending(s)
        /\ \A s : IsPending(s)' <=> (IsPending(s) \/ s \in {invoked + 1}) /\ s \notin G
    BY <2>1, PendingAfter
  <2>3. G \subseteq Serials
    BY <2>2, PendingAccepted
  <2>4. CompletionStep(G, {invoked + 1})
    BY <1>3, <2>0, <2>2, <2>3 DEF CompletionStep
  <2> QED
    BY <2>4
<1> QED
  BY <1>2, <1>3 DEF Reinvoked, u

\* What every step of a requester does to the tables and to the invocations.
\* A handler that invokes again while Shutdown runs is left out of the last part.
LEMMA RequesterKeeps ==
  ASSUME TableInv, OutcomeInv, responses \subseteq requests, NEW r \in Requesters, RequesterStep(r)
  PROVE  /\ TableInv' /\ OutcomeInv'
         /\ requests \subseteq requests' /\ responses' \subseteq responses
         /\ "shutdown" \notin Reinvokes => \E S, A : CompletionStep(S, A)
<1> DEFINE P == 1 .. Len(pending[r])
           Goal == /\ TableInv' /\ OutcomeInv'
                   /\ requests \subseteq requests' /\ responses' \subseteq responses
                   /\ "shutdown" \notin Reinvokes => \E S, A : CompletionStep(S, A)
<1>0. /\ pending \in [Requesters -> Seq(PendingEntry)] /\ invoked \in Nat
      /\ outcome \in [Serials -> Seq(Serials)]
  BY DEF TableInv, TableTypes, OutcomeInv
<1>a. ASSUME UNCHANGED <<pending, invoked, outcome>>
      PROVE  CompletionStep({}, {})
  <2>1. outcome' = Completed({})
    BY <1>0, <1>a DEF Completed
  <2>2. \A s : IsPending(s)' <=> IsPending(s)
    BY <1>a DEF IsPending, SerialsIn
  <2> QED
    BY <1>a, <2>1, <2>2 DEF CompletionStep
<1>1. CASE Invoke(r)
  <2>1. Kept(r, pending[r]) /\ Bounded(r) /\ Len(pending[r]) < MaximumOutstandingRequests
    BY <1>1, KeptSelf DEF Invoke
  <2>2. TableInv'
    BY <1>1, <2>1, TableGrows DEF Invoke
  <2>3. NewPending(r) \in PendingEntry /\ NewPending(r).serial = invoked + 1 /\ invoked + 1 \in Serials
    BY <1>1, <2>1, RequestNew DEF Invoke
  <2>4. pending'[r] = Append(pending[r], NewPending(r)) /\ pending' = [pending EXCEPT ![r] = pending'[r]]
    BY <1>0, <1>1 DEF Invoke
  <2>5. SerialsIn(pending'[r]) = SerialsIn(pending[r]) \cup {invoked + 1}
    <3>1. pending[r] \in Seq(PendingEntry)
      BY <1>0
    <3> QED
      BY <2>3, <2>4, <3>1, SerialsAppend
  <2>6. SerialsIn(pending[r]) = SerialsAt(r, P) /\ SerialsAt(r, P \ P) = {} /\ P \in SUBSET P
    BY DEF SerialsIn, SerialsAt
  <2>7. \A s : IsPending(s)' <=> IsPending(s) \/ s \in {invoked + 1}
    <3> DEFINE B == {invoked + 1}
    <3>1. \A s \in B : s = invoked + 1
      OBVIOUS
    <3>2. SerialsIn(pending'[r]) = SerialsAt(r, P) \cup B
      BY <2>5, <2>6
    <3> HIDE DEF B
    <3>3. \A s : IsPending(s)' <=> (IsPending(s) \/ s \in B) /\ s \notin SerialsAt(r, P \ P)
      BY <2>4, <2>6, <3>1, <3>2, PendingAfter
    <3> QED
      BY <2>6, <3>3 DEF B
  <2>8. outcome' = Completed({})
    BY <1>0, <1>1 DEF Completed, Invoke
  <2>9. CompletionStep({}, {invoked + 1})
    BY <1>1, <2>3, <2>7, <2>8 DEF CompletionStep, Invoke
  <2>10. OutcomeInv'
    BY <1>1 DEF Invoke, OutcomeInv, OwnResult
  <2> QED
    BY <1>1, <2>2, <2>9, <2>10 DEF Invoke
<1>2. CASE InvokeSendFails(r)
  <2>1. invoked + 1 \in Serials /\ invoked + 1 \in 0 .. MaxInvokes /\ nextRequestID[r] =< MaxRequestID
    BY <1>0, <1>2 DEF InvokeSendFails, Bounded, Serials
  <2>2. TableInv'
    BY <1>2, <2>1, IDUsed DEF InvokeSendFails
  <2>3. OutcomeInv'
    BY <1>2, CompletedOwn DEF InvokeSendFails
  <2>4. \A s : IsPending(s)' <=> IsPending(s)
    BY <1>2 DEF InvokeSendFails, IsPending, SerialsIn
  <2>5. ~IsPending(invoked + 1)
    BY PendingAccepted
  <2>6. CompletionStep({invoked + 1}, {invoked + 1})
    BY <1>2, <2>1, <2>4, <2>5 DEF CompletionStep, InvokeSendFails
  <2> QED
    BY <1>2, <2>2, <2>3, <2>6 DEF InvokeSendFails
<1>3. CASE InvokeNotEncoded(r)
  <2>1. TableInv'
    <3>1. invoked' \in 0 .. MaxInvokes /\ invoked' = invoked
      BY <1>3 DEF InvokeNotEncoded, TableInv, TableTypes
    <3> QED
      BY <1>3, <3>1, IDUsed DEF InvokeNotEncoded
  <2>2. OutcomeInv'
    BY <1>3 DEF InvokeNotEncoded, OutcomeInv, OwnResult
  <2> QED
    BY <1>3, <1>a, <2>1, <2>2 DEF InvokeNotEncoded
<1>4. CASE HandleResponse(r)
  <2>1. PICK m \in responses, i \in 1 .. Len(pending[r]) :
          /\ m.key = <<r, pending[r][i].id>>
          /\ outcome' = [outcome EXCEPT ![pending[r][i].serial] = Append(@, m.serial)]
          /\ Reinvoked(r, EntriesAt(pending[r], P \ {i}), "response")
          /\ responses' = responses \ {m}
    BY <1>4 DEF HandleResponse
  <2>2. outcome' = Completed({pending[r][i].serial})
    BY <2>1, ResponseOwn
  <2>3. SerialsAt(r, P \ (P \ {i})) = {pending[r][i].serial}
    BY DEF SerialsAt
  <2>4. /\ P \ {i} \in SUBSET P /\ P \ {i} # P
    OBVIOUS
  <2>5. /\ Kept(r, EntriesAt(pending[r], P \ {i}))
        /\ Len(EntriesAt(pending[r], P \ {i})) < MaximumOutstandingRequests
    BY <2>4, KeptAt
  <2>6. TableInv' /\ requests \subseteq requests'
    BY <2>1, <2>5, ReinvokedInv
  <2>7. OutcomeInv'
    BY <2>2, CompletedOwn
  <2>8. \E S, A : CompletionStep(S, A)
    BY <2>1, <2>2, <2>3, <2>4, ReinvokedCompletes
  <2> QED
    BY <2>1, <2>6, <2>7, <2>8
<1>5. CASE HandleStrayResponse(r)
  <2>1. UNCHANGED <<nextRequestID, pending, invoked, outcome, requests>> /\ responses' \subseteq responses
    BY <1>5 DEF HandleStrayResponse, requesterVars
  <2>2. TableInv' /\ OutcomeInv'
    BY <2>1 DEF TableInv, TableTypes, RequestControl, PendingControl, Asked, OutcomeInv, OwnResult
  <2> QED
    BY <1>a, <2>1, <2>2
<1>6. CASE UpdatePending(r)
  <2>1. /\ outcome' = Completed(SerialsAt(r, TimedOut(r)))
        /\ Reinvoked(r, EntriesAt(pending[r], InTime(r)), "timeout")
        /\ UNCHANGED responses
        /\ TimedOut(r) # {} /\ TimedOut(r) \subseteq P
    BY <1>6 DEF UpdatePending, TimedOut
  <2>2. InTime(r) \in SUBSET P /\ InTime(r) # P /\ P \ InTime(r) = TimedOut(r)
    BY <2>1 DEF InTime
  <2>5. /\ Kept(r, EntriesAt(pending[r], InTime(r)))
        /\ Len(EntriesAt(pending[r], InTime(r))) < MaximumOutstandingRequests
    BY <2>2, KeptAt
  <2>6. TableInv' /\ requests \subseteq requests'
    BY <2>1, <2>5, ReinvokedInv
  <2>7. OutcomeInv'
    BY <2>1, CompletedOwn
  <2>8. \E S, A : CompletionStep(S, A)
    BY <2>1, <2>2, ReinvokedCompletes
  <2> QED
    BY <2>1, <2>6, <2>7, <2>8
<1>7. CASE Restart(r)
  <2>1. /\ outcome' = Completed(SerialsAt(r, P)) /\ pending' = [pending EXCEPT ![r] = << >>]
        /\ UNCHANGED responses
    BY <1>7 DEF Restart
  <2>2. Kept(r, << >>)
    <3>1. << >> \in Seq(PendingEntry) /\ Len(<< >>) = 0 /\ Len(pending[r]) \in Nat
      BY <1>0
    <3> QED
      BY <3>1 DEF Kept
  <2>3. OutcomeInv'
    BY <2>1, CompletedOwn
  <2>4. CASE UNCHANGED <<nextRequestID, invoked, requests>>
    <3>1. TableInv'
      BY <2>1, <2>2, <2>4, TableStays
    <3> DEFINE B == {}
               K == {}
    <3>2. pending'[r] = << >> /\ pending' = [pending EXCEPT ![r] = pending'[r]]
      BY <1>0, <2>1
    <3>3. SerialsIn(pending'[r]) = SerialsAt(r, K) \cup B
      BY <3>2 DEF SerialsIn, SerialsAt
    <3>4. K \in SUBSET P /\ P \ K = P /\ \A s \in B : s = invoked + 1
      OBVIOUS
    <3> HIDE DEF K, B
    <3>5. /\ \A s \in SerialsAt(r, P) : IsPending(s)
          /\ \A s : IsPending(s)' <=> (IsPending(s) \/ s \in B) /\ s \notin SerialsAt(r, P)
      BY <3>2, <3>3, <3>4, PendingAfter
    <3>6. SerialsAt(r, P) \subseteq Serials
      BY <3>5, PendingAccepted
    <3>7. CompletionStep(SerialsAt(r, P), B)
      BY <2>1, <2>4, <3>5, <3>6 DEF CompletionStep, B
    <3> QED
      BY <2>1, <2>3, <2>4, <3>1, <3>7
  <2>5. CASE /\ "shutdown" \in Reinvokes /\ Bounded(r)
             /\ requests' = requests \cup {NewRequest(r)}
             /\ nextRequestID' = [nextRequestID EXCEPT ![r] = @ + 1]
             /\ invoked' = invoked + 1
    <3>1. /\ requests' \subseteq Request /\ nextRequestID' \in [Requesters -> 1 .. MaxRequestID + 1]
          /\ invoked' \in 0 .. MaxInvokes /\ RequestControl'
      BY <2>5, RequestNew
    <3>2. /\ pending' \in [Requesters -> Seq(PendingEntry)] /\ Len(pending'[r]) = 0 /\ Len(<< >>) = 0
          /\ \A q \in Requesters : q # r => pending'[q] = pending[q]
      BY <1>0, <2>1
    <3>3. TableTypes'
      <4>1. \A q \in Requesters : Len(pending'[q]) =< MaximumOutstandingRequests
        <5>1. 0 =< MaximumOutstandingRequests
          OBVIOUS
        <5> QED
          BY <3>2, <5>1 DEF TableInv, TableTypes
      <4> QED
        BY <3>1, <3>2, <4>1 DEF TableTypes
    <3>4. PendingControl'
      <4> SUFFICES ASSUME NEW q \in Requesters
                   PROVE  /\ \A i \in 1 .. Len(pending'[q]) : Asked(q, pending'[q][i]) \in requests'
                          /\ \A i, j \in 1 .. Len(pending'[q]) :
                               pending'[q][i].serial = pending'[q][j].serial => i = j
        BY DEF PendingControl, Asked
      <4>1. CASE q = r
        BY <3>2, <4>1
      <4>2. CASE q # r
        BY <2>5, <3>2, <4>2 DEF TableInv, PendingControl
      <4> QED
        BY <4>1, <4>2
    <3> QED
      BY <2>1, <2>3, <2>5, <3>1, <3>3, <3>4 DEF TableInv
  <2> QED
    BY <1>7, <2>4, <2>5 DEF Restart
<1>8. CASE TickRequester(r)
  <2>1. /\ TableInv' /\ \A q \in Requesters : /\ Len(pending'[q]) = Len(pending[q])
                                              /\ \A i \in 1 .. Len(pending[q]) :
                                                   pending'[q][i].serial = pending[q][i].serial
    BY <1>8, TickTable
  <2>2. UNCHANGED <<invoked, outcome, requests, responses>>
    BY <1>8 DEF TickRequester, wireVars
  <2>3. OutcomeInv'
    BY <2>2 DEF OutcomeInv, OwnResult
  <2>4. \A q \in Requesters : SerialsIn(pending[q])' = SerialsIn(pending[q])
    BY <2>1 DEF SerialsIn
  <2>5. \A s : IsPending(s)' <=> IsPending(s)
    BY <2>4 DEF IsPending
  <2>6. outcome' = Completed({})
    BY <1>0, <2>2 DEF Completed
  <2>7. CompletionStep({}, {})
    BY <2>2, <2>5, <2>6 DEF CompletionStep
  <2> QED
    BY <2>1, <2>2, <2>3, <2>7
<1> QED
  BY <1>1, <1>2, <1>3, <1>4, <1>5, <1>6, <1>7, <1>8 DEF RequesterStep

-----------------------------------------------------------------------------
(* The inductive invariant of the responder.                                *)

\* The entries of a table are about requests that were sent.
Backed(t) == \A i \in 1 .. Len(t) : OnWire(t[i]) \in requests

DistinctKeys(t) == \A i, j \in 1 .. Len(t) : t[i].key = t[j].key => i = j

\* An answer that is neither too old nor pushed out is in the table, and no more
\* answers follow it than were cached after it.
CacheHolds(t, last) ==
  \A k \in Keys :
    last[k].age < DuplicateResultLifetime /\ last[k].newer < MaximumDuplicateResults =>
      \E i \in 1 .. Len(t) : /\ t[i].key = k /\ t[i].age = last[k].age
                             /\ Len(t) =< i + last[k].newer

\* The cache: one answer for a key, to a request that was sent.
CacheInv ==
  /\ duplicates \in Seq(CachedAnswer) /\ Len(duplicates) =< MaximumDuplicateResults
  /\ answered \in [Keys -> [age : 0 .. DuplicateResultLifetime,
                            newer : 0 .. MaximumDuplicateResults]]
  /\ Backed(duplicates) /\ DistinctKeys(duplicates)
  /\ CacheHolds(duplicates, answered)

\* The requests under way, and the executions.
InboundInv ==
  /\ inboundHandler \in BOOLEAN
  /\ inbound \in Seq(InboundEntry) /\ Len(inbound) =< MaximumInboundRequests
  /\ handedOff \subseteq [key : Keys, serial : Serials, attempt : 1 .. MaxAttempts]
  /\ attempts \in [Keys -> 0 .. MaxAttempts]
  /\ Backed(inbound) /\ DistinctKeys(inbound)
  /\ \A h \in handedOff : OnWire(h) \in requests

\* A request under way has no answer yet.
NoneAnswered == \A k \in KeysOf(inbound) : k \notin KeysOf(duplicates)

ResponderInv ==
  CacheInv /\ InboundInv /\ NoneAnswered /\ responses \subseteq requests

\* The cache after StoreDuplicate of some answers: the first x of what it held
\* and these answers are gone, and only when there are more than it can hold.
LEMMA StoreFacts ==
  ASSUME duplicates \in Seq(CachedAnswer), Len(duplicates) =< MaximumDuplicateResults,
         NEW a \in Seq(CachedAnswer)
  PROVE  LET t == StoreDuplicates(a)
         IN  /\ t \in Seq(CachedAnswer) /\ Len(t) =< MaximumDuplicateResults
             /\ \E x \in Nat :
                  /\ Len(t) = Len(duplicates) + Len(a) - x
                  /\ x = 0 \/ Len(t) = MaximumDuplicateResults
                  /\ \A i \in 1 .. Len(t) :
                       /\ i + x =< Len(duplicates) => t[i] = duplicates[i + x]
                       /\ i + x > Len(duplicates) => t[i] = a[i + x - Len(duplicates)]
<1> DEFINE t == StoreDuplicates(a)
           all == duplicates \o a
           d == Len(duplicates)
           c == Len(a)
           M == MaximumDuplicateResults
<1>1. d \in Nat /\ c \in Nat /\ M \in Nat /\ d =< M
  OBVIOUS
<1>2. /\ all \in Seq(CachedAnswer) /\ Len(all) = d + c
      /\ \A j \in 1 .. d + c : all[j] = IF j =< d THEN duplicates[j] ELSE a[j - d]
  OBVIOUS
<1>3. t = IF Len(all) - M > 0 THEN SubSeq(all, (Len(all) - M) + 1, Len(all)) ELSE all
  BY DEF StoreDuplicates
<1> HIDE DEF t, all, d, c, M
<1>4. CASE Len(all) - M > 0
  <2> DEFINE x == Len(all) - M
  <2>1. x \in Nat /\ x + 1 \in 1 .. Len(all) + 1 /\ Len(all) \in Nat
    BY <1>1, <1>2, <1>4
  <2>2. t = SubSeq(all, x + 1, Len(all))
    BY <1>3, <1>4
  <2> HIDE DEF x
  <2>3. /\ t \in Seq(CachedAnswer) /\ Len(t) = Len(all) - x
        /\ \A i \in 1 .. Len(all) - x : t[i] = all[x + i]
    <3>1. x + 1 \in Int /\ Len(all) \in Int /\ \A i \in x + 1 .. Len(all) : all[i] \in CachedAnswer
      BY <1>2, <2>1
    <3>2. /\ t \in Seq(CachedAnswer)
          /\ Len(t) = IF x + 1 <= Len(all) THEN Len(all) - (x + 1) + 1 ELSE 0
          /\ \A i \in 1 .. Len(all) - (x + 1) + 1 : t[i] = all[x + 1 + i - 1]
      BY <2>2, <3>1, SubSeqProperties
    <3>3. /\ Len(all) - (x + 1) + 1 = Len(all) - x
          /\ (IF x + 1 <= Len(all) THEN Len(all) - (x + 1) + 1 ELSE 0) = Len(all) - x
          /\ \A i \in 1 .. Len(all) - x : x + 1 + i - 1 = x + i
      BY <2>1
    <3> QED
      BY <3>2, <3>3
  <2>4. Len(t) = M /\ Len(t) = d + c - x
    BY <1>1, <1>2, <2>3 DEF x
  <2>5. ASSUME NEW i \in 1 .. Len(t)
        PROVE  /\ i + x =< d => t[i] = duplicates[i + x]
               /\ i + x > d => t[i] = a[i + x - d]
    <3>1. i \in 1 .. Len(all) - x /\ i + x \in 1 .. d + c /\ x + i = i + x
      BY <1>1, <1>2, <2>1, <2>3
    <3>2. t[i] = all[i + x]
      BY <2>3, <3>1
    <3>3. i + x > d => ~(i + x =< d)
      BY <1>1, <3>1
    <3>4. ASSUME NEW j \in 1 .. d + c, j = i + x
          PROVE  /\ j =< d => t[i] = duplicates[j]
                 /\ j > d => t[i] = a[j - d]
      <4>1. all[j] = IF j =< d THEN duplicates[j] ELSE a[j - d]
        BY <1>2
      <4> QED
        BY <3>2, <3>3, <3>4, <4>1
    <3>5. PICK j \in 1 .. d + c : j = i + x
      BY <3>1
    <3>6. /\ j =< d => t[i] = duplicates[j]
          /\ j > d => t[i] = a[j - d]
      BY <3>4, <3>5
    <3>7. i + x =< d => t[i] = duplicates[i + x]
      BY <3>5, <3>6
    <3>8. i + x > d => t[i] = a[i + x - d]
      <4>1. i + x - d = j - d
        BY <1>1, <2>1, <3>1, <3>5
      <4> QED
        BY <3>5, <3>6, <4>1
    <3> QED
      BY <3>7, <3>8
  <2>6. Len(t) =< M
    BY <1>1, <2>4
  <2> QED
    BY <2>1, <2>3, <2>4, <2>5, <2>6 DEF t, d, c, M
<1>5. CASE ~(Len(all) - M > 0)
  <2>1. t = all /\ Len(t) =< M
    BY <1>1, <1>2, <1>3, <1>5
  <2>2. ASSUME NEW i \in 1 .. Len(t)
        PROVE  /\ i + 0 =< d => t[i] = duplicates[i + 0]
               /\ i + 0 > d => t[i] = a[i + 0 - d]
    <3>1. i \in 1 .. d + c
      BY <1>2, <2>1
    <3>2. i + 0 = i /\ (i > d => ~(i =< d)) /\ i + 0 - d = i - d
      BY <1>1, <3>1
    <3> QED
      BY <1>2, <2>1, <3>1, <3>2
  <2>3. Len(t) = d + c - 0
    BY <1>1, <1>2, <2>1
  <2> QED
    BY <1>2, <2>1, <2>2, <2>3 DEF t, d, c, M
<1> QED
  BY <1>4, <1>5

\* A key of a table.
LEMMA KeyAt ==
  ASSUME NEW t, NEW k
  PROVE  k \in KeysOf(t) <=> \E i \in 1 .. Len(t) : t[i].key = k
  BY DEF KeysOf

\* The bookkeeping of `answered' has its type.
LEMMA AnsweredTypes ==
  ASSUME answered \in [Keys -> [age : 0 .. DuplicateResultLifetime,
                                newer : 0 .. MaximumDuplicateResults]],
         NEW a \in Seq(CachedAnswer)
  PROVE  /\ Answered(a) \in [Keys -> [age : 0 .. DuplicateResultLifetime,
                                      newer : 0 .. MaximumDuplicateResults]]
         /\ \A k \in Keys : k \notin KeysOf(a) =>
              /\ Answered(a)[k].age = answered[k].age
              /\ Answered(a)[k].newer = UpToCapacity(answered[k].newer + Len(a))
         /\ \A k \in KeysOf(a) : k \in Keys =>
              \E i \in 1 .. Len(a) : /\ a[i].key = k
                                     /\ Answered(a)[k].age = 0
                                     /\ Answered(a)[k].newer = UpToCapacity(Len(a) - i)
<1> DEFINE R == [age : 0 .. DuplicateResultLifetime, newer : 0 .. MaximumDuplicateResults]
<1>1. \A n \in Nat : UpToCapacity(n) \in 0 .. MaximumDuplicateResults
  BY DEF UpToCapacity
<1>2. Len(a) \in Nat
  OBVIOUS
<1>3. ASSUME NEW k \in Keys, k \notin KeysOf(a)
      PROVE  /\ Answered(a)[k].age = answered[k].age
             /\ Answered(a)[k].newer = UpToCapacity(answered[k].newer + Len(a))
             /\ Answered(a)[k] \in R
  <2>1. Answered(a)[k] = [answered[k] EXCEPT !.newer = UpToCapacity(@ + Len(a))]
    BY <1>3 DEF Answered
  <2>2. answered[k] \in R /\ answered[k].newer \in Nat
    OBVIOUS
  <2>3. UpToCapacity(answered[k].newer + Len(a)) \in 0 .. MaximumDuplicateResults
    <3>1. answered[k].newer + Len(a) \in Nat
      BY <1>2, <2>2
    <3> QED
      BY <1>1, <3>1
  <2> QED
    BY <2>1, <2>2, <2>3
<1>4. ASSUME NEW k \in Keys, k \in KeysOf(a)
      PROVE  /\ \E i \in 1 .. Len(a) : /\ a[i].key = k
                                       /\ Answered(a)[k].age = 0
                                       /\ Answered(a)[k].newer = UpToCapacity(Len(a) - i)
             /\ Answered(a)[k] \in R
  <2> DEFINE i == CHOOSE i \in 1 .. Len(a) : a[i].key = k
  <2>1. Answered(a)[k] = [age |-> 0, newer |-> UpToCapacity(Len(a) - i)]
    BY <1>4 DEF Answered
  <2>2. i \in 1 .. Len(a) /\ a[i].key = k
    BY <1>4 DEF KeysOf
  <2> HIDE DEF i
  <2>3. UpToCapacity(Len(a) - i) \in 0 .. MaximumDuplicateResults
    <3>1. Len(a) - i \in Nat
      BY <1>2, <2>2
    <3> QED
      BY <1>1, <3>1
  <2> QED
    BY <2>1, <2>2, <2>3
<1>5. Answered(a) \in [Keys -> R]
  <2>1. \A k \in Keys : Answered(a)[k] \in R
    BY <1>3, <1>4
  <2>2. Answered(a) = [k \in Keys |-> Answered(a)[k]]
    BY DEF Answered
  <2> QED
    BY <2>1, <2>2
<1> QED
  BY <1>3, <1>4, <1>5

\* New answers to requests that have none yet go to the cache.
LEMMA StoreKeeps ==
  ASSUME CacheInv, NEW a \in Seq(CachedAnswer), Backed(a), DistinctKeys(a),
         \A i \in 1 .. Len(a) : a[i].age = 0,
         \A i \in 1 .. Len(a) : a[i].key \notin KeysOf(duplicates)
  PROVE  LET t == StoreDuplicates(a)
         IN  /\ t \in Seq(CachedAnswer) /\ Len(t) =< MaximumDuplicateResults
             /\ Backed(t) /\ DistinctKeys(t) /\ CacheHolds(t, Answered(a))
             /\ \A i \in 1 .. Len(t) : t[i].key \in KeysOf(duplicates) \cup KeysOf(a)
<1> DEFINE t == StoreDuplicates(a)
           d == Len(duplicates)
           c == Len(a)
           M == MaximumDuplicateResults
<1>0. /\ duplicates \in Seq(CachedAnswer) /\ d \in Nat /\ c \in Nat /\ M \in Nat /\ d =< M
      /\ \A i \in 1 .. d : duplicates[i].key \in KeysOf(duplicates)
      /\ \A i \in 1 .. c : a[i].key \in KeysOf(a)
  BY DEF CacheInv, KeysOf
<1>1. /\ t \in Seq(CachedAnswer) /\ Len(t) =< M
      /\ \E x \in Nat :
           /\ Len(t) = d + c - x
           /\ x = 0 \/ Len(t) = M
           /\ \A i \in 1 .. Len(t) : /\ i + x =< d => t[i] = duplicates[i + x]
                                     /\ i + x > d => t[i] = a[i + x - d]
  BY <1>0, StoreFacts
<1> HIDE DEF t
<1>2. PICK x \in Nat :
        /\ Len(t) = d + c - x
        /\ x = 0 \/ Len(t) = M
        /\ \A i \in 1 .. Len(t) : /\ i + x =< d => t[i] = duplicates[i + x]
                                  /\ i + x > d => t[i] = a[i + x - d]
  BY <1>1
<1>3. \A i \in 1 .. d : OnWire(duplicates[i]) \in requests
  BY DEF CacheInv, Backed
<1>4. \A i \in 1 .. c : OnWire(a[i]) \in requests
  BY DEF Backed
<1>5. \A i, j \in 1 .. d : duplicates[i].key = duplicates[j].key => i = j
  BY DEF CacheInv, DistinctKeys
<1>6. \A i, j \in 1 .. c : a[i].key = a[j].key => i = j
  BY DEF DistinctKeys
<1>7. \A i \in 1 .. d, j \in 1 .. c : duplicates[i].key # a[j].key
  BY <1>0
<1> HIDE DEF d, c, M
<1>8. ASSUME NEW i \in 1 .. Len(t)
      PROVE  \/ i + x \in 1 .. d /\ t[i] = duplicates[i + x]
             \/ i + x - d \in 1 .. c /\ t[i] = a[i + x - d]
  <2>0. Len(t) \in Nat /\ i \in 1 .. d + c - x
    BY <1>0, <1>1, <1>2
  <2>1. i + x \in 1 .. d + c
    BY <1>0, <2>0
  <2>2. CASE i + x =< d
    <3>1. i + x \in 1 .. d
      BY <1>0, <2>1, <2>2
    <3> QED
      BY <1>2, <2>2, <3>1
  <2>3. CASE i + x > d
    <3>1. i + x - d \in 1 .. c
      BY <1>0, <2>1, <2>3
    <3> QED
      BY <1>2, <2>3, <3>1
  <2> QED
    BY <1>0, <2>1, <2>2, <2>3
<1>9. Backed(t)
  BY <1>3, <1>4, <1>8 DEF Backed
<1>10. DistinctKeys(t)
  <2> SUFFICES ASSUME NEW i \in 1 .. Len(t), NEW j \in 1 .. Len(t), t[i].key = t[j].key
               PROVE  i = j
    BY DEF DistinctKeys
  <2>1. i \in Nat /\ j \in Nat
    BY <1>1
  <2>2. \/ i + x = j + x
        \/ i + x - d = j + x - d
    BY <1>5, <1>6, <1>7, <1>8
  <2> QED
    BY <1>0, <2>1, <2>2
<1>11. \A i \in 1 .. Len(t) : t[i].key \in KeysOf(duplicates) \cup KeysOf(a)
  BY <1>0, <1>8 DEF d, c
<1>12. CacheHolds(t, Answered(a))
  <2> SUFFICES ASSUME NEW k \in Keys, Answered(a)[k].newer < M,
                      Answered(a)[k].age < DuplicateResultLifetime
               PROVE  \E i \in 1 .. Len(t) : /\ t[i].key = k /\ t[i].age = Answered(a)[k].age
                                             /\ Len(t) =< i + Answered(a)[k].newer
    BY DEF CacheHolds, M
  <2> DEFINE n == Answered(a)[k].newer
             g == Answered(a)[k].age
  <2>0. answered \in [Keys -> [age : 0 .. DuplicateResultLifetime, newer : 0 .. M]]
    BY DEF CacheInv, M
  <2>1. CASE k \in KeysOf(a)
    <3>1. PICK j \in 1 .. c : a[j].key = k /\ g = 0 /\ n = UpToCapacity(c - j)
      BY <2>0, <2>1, AnsweredTypes DEF c, M
    <3> HIDE DEF n, g
    <3>2. c - j \in Nat
      BY <1>0, <3>1
    <3>3. n = c - j /\ c - j < M
      <4>1. n < M
        BY DEF n
      <4> QED
        BY <1>0, <3>1, <3>2, <4>1 DEF UpToCapacity, M
    <3> DEFINE i == d + j - x
    <3>a. Len(t) = d + c - x /\ (x = 0 \/ d + c - x = M) /\ j \in Nat /\ j >= 1 /\ j =< c
      BY <1>0, <1>2
    <3>4. i \in 1 .. Len(t) /\ i + x > d /\ i + x - d = j
      <4>1. i \in Int /\ i >= 1 /\ i =< d + c - x
        BY <1>0, <3>a, <3>3
      <4>2. i + x > d /\ i + x - d = j
        BY <1>0, <3>a
      <4>3. i \in 1 .. d + c - x
        BY <1>0, <4>1
      <4>4. i \in 1 .. Len(t)
        BY <3>a, <4>3
      <4> QED
        BY <4>2, <4>4
    <3>5. Len(t) =< i + n
      BY <1>0, <1>2, <3>1, <3>3
    <3> HIDE DEF i
    <3>6. t[i] = a[j]
      BY <1>2, <3>4
    <3>7. t[i].key = k /\ t[i].age = g
      BY <3>1, <3>6 DEF c
    <3> QED
      BY <3>4, <3>5, <3>7 DEF n, g
  <2>2. CASE k \notin KeysOf(a)
    <3>1. g = answered[k].age /\ n = UpToCapacity(answered[k].newer + c)
      BY <2>0, <2>2, AnsweredTypes DEF c, M
    <3> DEFINE o == answered[k].newer
    <3>2. o \in Nat /\ o + c \in Nat
      BY <1>0, <2>0
    <3> HIDE DEF o
    <3>a. n < M /\ n = UpToCapacity(o + c)
      BY <3>1 DEF o
    <3> HIDE DEF n
    <3>3. n = o + c /\ o + c < M /\ o < M
      BY <1>0, <3>2, <3>a DEF UpToCapacity, M
    <3>4. PICK j \in 1 .. d : duplicates[j].key = k /\ duplicates[j].age = g /\ d =< j + o
      BY <3>1, <3>3 DEF CacheInv, CacheHolds, M, d, o
    <3> HIDE DEF g
    <3> DEFINE i == j - x
    <3>b. /\ Len(t) = d + c - x /\ (x = 0 \/ d + c - x = M) /\ d =< j + o
          /\ j \in Nat /\ 1 =< j /\ j =< d /\ d \in Nat /\ c \in Nat /\ M \in Nat
      BY <1>0, <1>2, <3>4
    <3>5. i \in 1 .. Len(t) /\ i + x =< d /\ i + x = j
      <4>1. i \in Int /\ 1 =< i /\ i =< d + c - x
        BY <3>b, <3>2, <3>3
      <4>2. i \in 1 .. Len(t)
        BY <3>b, <4>1
      <4> QED
        BY <3>b, <4>2
    <3>6. Len(t) =< i + n
      BY <3>b, <3>2, <3>3
    <3> HIDE DEF i
    <3>7. t[i] = duplicates[j]
      BY <1>2, <3>5
    <3> QED
      BY <3>4, <3>5, <3>6, <3>7 DEF n, g
  <2> QED
    BY <2>1, <2>2
<1> QED
  BY <1>1, <1>9, <1>10, <1>11, <1>12 DEF t, M

\* A table some entries of which are erased.
LEMMA ThinTable ==
  ASSUME NEW E, NEW t \in Seq(E), NEW S \in SUBSET (1 .. Len(t))
  PROVE  LET u == EntriesAt(t, S)
         IN  /\ u \in Seq(E) /\ Len(u) =< Len(t)
             /\ Backed(t) => Backed(u)
             /\ DistinctKeys(t) => DistinctKeys(u)
             /\ \A n \in 1 .. Len(u) : \E i \in S : u[n] = t[i]
             /\ KeysOf(u) \subseteq KeysOf(t)
<1> DEFINE u == EntriesAt(t, S)
           c == Cardinality(S)
<1>1. /\ u \in Seq(E) /\ Len(u) = c /\ c =< Len(t)
      /\ \A n \in 1 .. c : Nth(S, n) \in S /\ u[n] = t[Nth(S, n)]
      /\ \A n, k \in 1 .. c : Nth(S, n) = Nth(S, k) => n = k
  BY EntriesFacts
<1> HIDE DEF u, c
<1>2. \A n \in 1 .. c : Nth(S, n) \in 1 .. Len(t) /\ u[n] = t[Nth(S, n)]
  BY <1>1
<1>3. Backed(t) => Backed(u)
  BY <1>1, <1>2 DEF Backed
<1>4. DistinctKeys(t) => DistinctKeys(u)
  BY <1>1, <1>2 DEF DistinctKeys
<1>5. KeysOf(u) \subseteq KeysOf(t)
  BY <1>1, <1>2 DEF KeysOf
<1> QED
  BY <1>1, <1>3, <1>4, <1>5 DEF u

\* Erasing what is too old keeps the rest of the cache.
LEMMA FreshKeeps ==
  ASSUME NEW t \in Seq(CachedAnswer), CacheHolds(t, answered'),
         answered' \in [Keys -> [age : 0 .. DuplicateResultLifetime,
                                 newer : 0 .. MaximumDuplicateResults]]
  PROVE  CacheHolds(EntriesAt(t, Fresh(t)), answered')
<1> DEFINE S == Fresh(t)
           u == EntriesAt(t, S)
           c == Cardinality(S)
<1>0. S \in SUBSET (1 .. Len(t)) /\ Len(t) \in Nat
  BY DEF Fresh
<1>1. /\ Len(u) = c /\ c \in Nat
      /\ \A n \in 1 .. c : Nth(S, n) \in S /\ u[n] = t[Nth(S, n)]
      /\ \A i \in S : \E n \in 1 .. c : Nth(S, n) = i
  BY <1>0, EntriesFacts
<1>2. \A n \in 1 .. c : c + Nth(S, n) =< Len(t) + n
  BY <1>0, NthTail
<1> SUFFICES ASSUME NEW k \in Keys, answered'[k].age < DuplicateResultLifetime,
                    answered'[k].newer < MaximumDuplicateResults
             PROVE  \E n \in 1 .. Len(u) : /\ u[n].key = k /\ u[n].age = answered'[k].age
                                           /\ Len(u) =< n + answered'[k].newer
  BY DEF CacheHolds
<1>3. PICK i \in 1 .. Len(t) : /\ t[i].key = k /\ t[i].age = answered'[k].age
                               /\ Len(t) =< i + answered'[k].newer
  BY DEF CacheHolds
<1>4. i \in S
  BY <1>3 DEF Fresh
<1>5. PICK n \in 1 .. c : Nth(S, n) = i
  BY <1>1, <1>4
<1>6. u[n] = t[i] /\ c + i =< Len(t) + n
  BY <1>1, <1>2, <1>5
<1>7. c =< n + answered'[k].newer
  <2>1. answered'[k].newer \in Nat
    OBVIOUS
  <2> DEFINE w == answered'[k].newer
  <2> HIDE DEF c, w
  <2>2. w \in Nat /\ Len(t) =< i + w
    BY <1>3, <2>1 DEF w
  <2>3. c =< n + w
    BY <1>0, <1>1, <1>6, <2>2
  <2> QED
    BY <2>3 DEF w
<1> QED
  BY <1>1, <1>3, <1>5, <1>6, <1>7

\* The answer to a request that was sent.
LEMMA OneAnswer ==
  ASSUME requests \subseteq Request, NEW k, NEW s, [key |-> k, serial |-> s] \in requests
  PROVE  LET a == <<Answer(k, s)>>
         IN  /\ a \in Seq(CachedAnswer) /\ Len(a) = 1 /\ a[1] = Answer(k, s) /\ Backed(a)
             /\ DistinctKeys(a) /\ \A i \in 1 .. Len(a) : a[i].age = 0 /\ a[i].key = k
             /\ OnWire(Answer(k, s)) \in requests
<1>1. k \in Keys /\ s \in Serials
  BY DEF Request
<1>2. Answer(k, s) \in CachedAnswer
  BY <1>1 DEF Answer, CachedAnswer
<1>3. /\ OnWire(Answer(k, s)) = [key |-> k, serial |-> s]
      /\ Answer(k, s).key = k /\ Answer(k, s).age = 0
  BY DEF OnWire, Answer
<1> HIDE DEF Answer
<1>4. <<Answer(k, s)>> \in Seq(CachedAnswer) /\ Len(<<Answer(k, s)>>) = 1
      /\ <<Answer(k, s)>>[1] = Answer(k, s) /\ 1 .. 1 = {1}
  BY <1>2
<1> QED
  BY <1>3, <1>4 DEF Backed, DistinctKeys

\* SendResponseAndCache of an answer to a request that has none.
LEMMA SendKeeps ==
  ASSUME TableTypes, CacheInv, responses \subseteq requests, UNCHANGED requests,
         NEW k, NEW s, [key |-> k, serial |-> s] \in requests, k \notin KeysOf(duplicates),
         SendResponseAndCache(k, s)
  PROVE  /\ CacheInv' /\ responses' \subseteq requests'
         /\ \A x \in KeysOf(duplicates') : x = k \/ x \in KeysOf(duplicates)
<1> DEFINE a == <<Answer(k, s)>>
           t == StoreDuplicates(a)
<1>1. /\ a \in Seq(CachedAnswer) /\ Backed(a) /\ DistinctKeys(a)
      /\ \A i \in 1 .. Len(a) : a[i].age = 0 /\ a[i].key = k
      /\ OnWire(Answer(k, s)) \in requests
  BY OneAnswer DEF TableTypes
<1>2. duplicates' = t /\ answered' = Answered(a) /\ responses' = responses \cup {OnWire(Answer(k, s))}
  BY DEF SendResponseAndCache
<1> HIDE DEF a
<1>3. /\ t \in Seq(CachedAnswer) /\ Len(t) =< MaximumDuplicateResults
      /\ Backed(t) /\ DistinctKeys(t) /\ CacheHolds(t, Answered(a))
      /\ \A i \in 1 .. Len(t) : t[i].key \in KeysOf(duplicates) \cup KeysOf(a)
  BY <1>1, StoreKeeps
<1>4. Answered(a) \in [Keys -> [age : 0 .. DuplicateResultLifetime,
                                newer : 0 .. MaximumDuplicateResults]]
  BY <1>1, AnsweredTypes DEF CacheInv
<1> HIDE DEF t
<1>5. CacheInv'
  BY <1>2, <1>3, <1>4 DEF CacheInv, Backed, DistinctKeys, CacheHolds
<1>6. \A x \in KeysOf(a) : x = k
  BY <1>1 DEF KeysOf
<1>7. \A x \in KeysOf(duplicates') : x = k \/ x \in KeysOf(duplicates)
  BY <1>2, <1>3, <1>6 DEF KeysOf
<1> QED
  BY <1>1, <1>2, <1>5, <1>7

\* Update of a responder, once its first part is known to be a valid table of answers.
LEMMA UpdateKeeps ==
  ASSUME TableTypes, ResponderInv, UpdateResponder
  PROVE  ResponderInv'
<1> DEFINE P == 1 .. Len(inbound)
           X == InboundExpired
           e == EntriesAt(inbound, X)
           a == TimeoutAnswers
           Y == P \ X
           u == EntriesAt(inbound, Y)
<1>0. /\ inbound \in Seq(InboundEntry) /\ Backed(inbound) /\ DistinctKeys(inbound)
      /\ Len(inbound) =< MaximumInboundRequests /\ Len(inbound) \in Nat
      /\ X \in SUBSET P /\ Y \in SUBSET P /\ \A i \in Y : i \notin X
  BY DEF ResponderInv, InboundInv, InboundExpired
<1>1. /\ e \in Seq(InboundEntry) /\ Backed(e) /\ DistinctKeys(e) /\ Len(e) = Cardinality(X)
      /\ \A n \in 1 .. Len(e) : \E i \in X : e[n] = inbound[i]
  BY <1>0, ThinTable, EntriesFacts
<1>2. /\ u \in Seq(InboundEntry) /\ Backed(u) /\ DistinctKeys(u) /\ Len(u) =< Len(inbound)
      /\ \A n \in 1 .. Len(u) : \E i \in Y : u[n] = inbound[i]
  <2> HIDE DEF Y
  <2> QED
    BY <1>0, ThinTable
<1>3. a = [n \in 1 .. Len(e) |-> Answer(e[n].key, e[n].serial)]
  BY <1>1 DEF TimeoutAnswers
<1> HIDE DEF e, a, u, X, Y
<1>4. ASSUME NEW n \in 1 .. Len(e)
      PROVE  /\ Answer(e[n].key, e[n].serial) \in CachedAnswer
             /\ OnWire(Answer(e[n].key, e[n].serial)) = OnWire(e[n])
             /\ Answer(e[n].key, e[n].serial).key = e[n].key
             /\ Answer(e[n].key, e[n].serial).age = 0
  <2>1. e[n] \in InboundEntry
    BY <1>1
  <2>2. e[n].key \in Keys /\ e[n].serial \in Serials
    BY <2>1 DEF InboundEntry
  <2>3. DuplicateResultLifetime \in Nat
    OBVIOUS
  <2> QED
    BY <2>2, <2>3 DEF Answer, CachedAnswer, OnWire
<1>5. /\ a \in Seq(CachedAnswer) /\ Len(a) = Len(e)
      /\ \A n \in 1 .. Len(e) : /\ OnWire(a[n]) = OnWire(e[n])
                                /\ a[n].key = e[n].key /\ a[n].age = 0
  <2>1. Len(e) \in Nat
    BY <1>1
  <2>2. /\ a \in [1 .. Len(e) -> CachedAnswer]
        /\ \A n \in 1 .. Len(e) : /\ OnWire(a[n]) = OnWire(e[n])
                                  /\ a[n].key = e[n].key /\ a[n].age = 0
    BY <1>3, <1>4
  <2> QED
    BY <2>1, <2>2
<1>6. Backed(a) /\ DistinctKeys(a)
  BY <1>1, <1>5 DEF Backed, DistinctKeys
<1>7. \A n \in 1 .. Len(a) : a[n].key \notin KeysOf(duplicates)
  <2> SUFFICES ASSUME NEW n \in 1 .. Len(e)
               PROVE  e[n].key \notin KeysOf(duplicates)
    BY <1>5
  <2>1. e[n].key \in KeysOf(inbound)
    BY <1>0, <1>1 DEF KeysOf
  <2> QED
    BY <2>1 DEF ResponderInv, NoneAnswered
<1> DEFINE t == StoreDuplicates(a)
           f == EntriesAt(t, Fresh(t))
<1>8. /\ t \in Seq(CachedAnswer) /\ Len(t) =< MaximumDuplicateResults
      /\ Backed(t) /\ DistinctKeys(t) /\ CacheHolds(t, Answered(a))
      /\ \A i \in 1 .. Len(t) : t[i].key \in KeysOf(duplicates) \cup KeysOf(a)
  BY <1>5, <1>6, <1>7, StoreKeeps DEF ResponderInv
<1>9. Answered(a) \in [Keys -> [age : 0 .. DuplicateResultLifetime,
                                newer : 0 .. MaximumDuplicateResults]]
  BY <1>5, AnsweredTypes DEF ResponderInv, CacheInv
<1>10. /\ duplicates' = f /\ answered' = Answered(a) /\ inbound' = u
       /\ responses' = responses \cup {OnWire(a[i]) : i \in 1 .. Len(a)}
       /\ UNCHANGED <<inboundHandler, handedOff, attempts, requests>>
  BY <1>1, <1>5 DEF UpdateResponder, a, u, X, Y
<1> HIDE DEF t
<1>11. /\ f \in Seq(CachedAnswer) /\ Backed(f) /\ DistinctKeys(f) /\ Len(f) =< Len(t)
       /\ KeysOf(f) \subseteq KeysOf(t)
  <2>1. Fresh(t) \in SUBSET (1 .. Len(t))
    BY DEF Fresh
  <2> QED
    BY <1>8, <2>1, ThinTable
<1>12. CacheHolds(f, answered')
  BY <1>8, <1>9, <1>10, FreshKeeps
<1> HIDE DEF f
<1>13. CacheInv'
  <2>1. Len(f) =< MaximumDuplicateResults
    <3>1. Len(f) \in Nat /\ Len(t) \in Nat
      BY <1>8, <1>11
    <3> QED
      BY <1>8, <1>11, <3>1
  <2> QED
    BY <1>9, <1>10, <1>11, <1>12, <2>1 DEF CacheInv, Backed, DistinctKeys, CacheHolds
<1>14. InboundInv'
  <2>1. Len(u) =< MaximumInboundRequests
    <3>1. Len(u) \in Nat
      BY <1>2
    <3> QED
      BY <1>0, <1>2, <3>1
  <2> QED
    BY <1>2, <1>10, <2>1 DEF ResponderInv, InboundInv, Backed, DistinctKeys
<1>15. NoneAnswered'
  <2> SUFFICES ASSUME NEW n \in 1 .. Len(u)
               PROVE  u[n].key \notin KeysOf(f)
    BY <1>10 DEF NoneAnswered, KeysOf
  <2>1. PICK i \in Y : u[n] = inbound[i]
    BY <1>2
  <2>2. u[n].key \notin KeysOf(duplicates)
    BY <1>0, <2>1 DEF ResponderInv, NoneAnswered, KeysOf
  <2>3. u[n].key \notin KeysOf(a)
    <3> SUFFICES ASSUME NEW j \in 1 .. Len(e), e[j].key = u[n].key
                 PROVE  FALSE
      BY <1>5 DEF KeysOf
    <3>1. PICK l \in X : e[j] = inbound[l]
      BY <1>1
    <3>2. l \in P /\ i \in P /\ inbound[l].key = inbound[i].key
      BY <1>0, <2>1, <3>1
    <3> QED
      BY <1>0, <2>1, <3>2 DEF DistinctKeys
  <2>4. \A x \in KeysOf(t) : x \in KeysOf(duplicates) \cup KeysOf(a)
    BY <1>8 DEF KeysOf
  <2> QED
    BY <1>11, <2>2, <2>3, <2>4
<1>16. responses' \subseteq requests'
  BY <1>6, <1>10 DEF ResponderInv, Backed
<1> QED
  BY <1>13, <1>14, <1>15, <1>16 DEF ResponderInv

\* A cached answer grows older, and its bookkeeping with it.
LEMMA TickCache ==
  ASSUME CacheInv, UNCHANGED requests,
         duplicates' = Older(duplicates, DuplicateResultLifetime),
         answered' = [k \in Keys |-> [answered[k] EXCEPT !.age =
                        IF @ < DuplicateResultLifetime THEN @ + 1 ELSE @]]
  PROVE  CacheInv' /\ KeysOf(duplicates') = KeysOf(duplicates)
<1> DEFINE t == duplicates
           w == duplicates'
           L == DuplicateResultLifetime
           later(n) == IF n < L THEN n + 1 ELSE n
<1>0. /\ t \in Seq(CachedAnswer) /\ Len(t) \in Nat /\ Len(t) =< MaximumDuplicateResults
      /\ \A i \in 1 .. Len(t) : t[i] \in CachedAnswer
      /\ answered \in [Keys -> [age : 0 .. L, newer : 0 .. MaximumDuplicateResults]]
  BY DEF CacheInv
<1>1. ASSUME NEW e \in CachedAnswer
      PROVE  LET c == [e EXCEPT !.age = IF @ < L THEN @ + 1 ELSE @]
             IN  /\ c \in CachedAnswer /\ c.key = e.key /\ c.age = later(e.age)
                 /\ OnWire(c) = OnWire(e)
  <2>1. (IF e.age < L THEN e.age + 1 ELSE e.age) \in 0 .. L
    BY DEF CachedAnswer
  <2> QED
    BY <2>1 DEF CachedAnswer, OnWire
<1>2. w = [i \in 1 .. Len(t) |-> [t[i] EXCEPT !.age = IF @ < L THEN @ + 1 ELSE @]]
  BY DEF Older
<1>3. \A i \in 1 .. Len(t) : /\ w[i] \in CachedAnswer /\ w[i].key = t[i].key
                             /\ w[i].age = later(t[i].age) /\ OnWire(w[i]) = OnWire(t[i])
  <2> SUFFICES ASSUME NEW i \in 1 .. Len(t)
               PROVE  /\ w[i] \in CachedAnswer /\ w[i].key = t[i].key
                      /\ w[i].age = later(t[i].age) /\ OnWire(w[i]) = OnWire(t[i])
    OBVIOUS
  <2>1. w[i] = [t[i] EXCEPT !.age = IF @ < L THEN @ + 1 ELSE @] /\ t[i] \in CachedAnswer
    BY <1>0, <1>2
  <2> QED
    BY <1>1, <2>1
<1>4. w \in Seq(CachedAnswer) /\ Len(w) = Len(t)
  <2>1. w \in [1 .. Len(t) -> CachedAnswer]
    BY <1>2, <1>3
  <2> HIDE DEF w, t
  <2> QED
    BY <1>0, <2>1
<1>5. ASSUME NEW k \in Keys
      PROVE  /\ answered'[k] \in [age : 0 .. L, newer : 0 .. MaximumDuplicateResults]
             /\ answered'[k].age = later(answered[k].age) /\ answered'[k].newer = answered[k].newer
  <2>1. answered'[k] = [answered[k] EXCEPT !.age = IF @ < L THEN @ + 1 ELSE @]
    OBVIOUS
  <2>2. answered[k] \in [age : 0 .. L, newer : 0 .. MaximumDuplicateResults]
    BY <1>0
  <2>3. (IF answered[k].age < L THEN answered[k].age + 1 ELSE answered[k].age) \in 0 .. L
    BY <2>2
  <2> QED
    BY <2>1, <2>2, <2>3
<1>6. answered' \in [Keys -> [age : 0 .. L, newer : 0 .. MaximumDuplicateResults]]
  BY <1>5
<1>7. CacheHolds(w, answered')
  <2> SUFFICES ASSUME NEW k \in Keys, answered'[k].age < L,
                      answered'[k].newer < MaximumDuplicateResults
               PROVE  \E i \in 1 .. Len(w) : /\ w[i].key = k /\ w[i].age = answered'[k].age
                                             /\ Len(w) =< i + answered'[k].newer
    BY DEF CacheHolds
  <2>1. answered[k].age < L /\ answered[k].newer < MaximumDuplicateResults
    <3>1. answered[k].age \in 0 .. L
      BY <1>0
    <3> QED
      BY <1>5, <3>1
  <2>2. PICK i \in 1 .. Len(t) : /\ t[i].key = k /\ t[i].age = answered[k].age
                                 /\ Len(t) =< i + answered[k].newer
    BY <2>1 DEF CacheInv, CacheHolds
  <2>3. w[i].key = k /\ w[i].age = later(answered[k].age)
    BY <1>3, <2>2
  <2>4. w[i].age = answered'[k].age
    BY <1>5, <2>3
  <2>5. Len(w) =< i + answered'[k].newer /\ i \in 1 .. Len(w)
    BY <1>4, <1>5, <2>2
  <2> QED
    BY <2>3, <2>4, <2>5
<1>8. Backed(w) /\ DistinctKeys(w) /\ KeysOf(w) = KeysOf(t)
  <2>0. Backed(t) /\ DistinctKeys(t)
    BY DEF CacheInv
  <2> HIDE DEF t, w
  <2>1. Backed(w)
    BY <1>3, <1>4, <2>0 DEF Backed
  <2>2. DistinctKeys(w)
    BY <1>3, <1>4, <2>0 DEF DistinctKeys
  <2>3. KeysOf(w) \subseteq KeysOf(t) /\ KeysOf(t) \subseteq KeysOf(w)
    BY <1>3, <1>4 DEF KeysOf
  <2> QED
    BY <2>1, <2>2, <2>3
<1> QED
  BY <1>0, <1>4, <1>6, <1>7, <1>8 DEF CacheInv, Backed, DistinctKeys, CacheHolds

\* The requests under way grow older.
LEMMA TickInbound ==
  ASSUME InboundInv, UNCHANGED <<inboundHandler, handedOff, attempts, requests>>,
         inbound' = Older(inbound, InboundRequestTimeout)
  PROVE  InboundInv' /\ KeysOf(inbound') = KeysOf(inbound)
<1> DEFINE t == inbound
           w == inbound'
           L == InboundRequestTimeout
<1>0. /\ t \in Seq(InboundEntry) /\ Len(t) \in Nat /\ Len(t) =< MaximumInboundRequests
      /\ \A i \in 1 .. Len(t) : t[i] \in InboundEntry
  BY DEF InboundInv
<1>1. ASSUME NEW e \in InboundEntry
      PROVE  LET c == [e EXCEPT !.age = IF @ < L THEN @ + 1 ELSE @]
             IN  c \in InboundEntry /\ c.key = e.key /\ OnWire(c) = OnWire(e)
  <2>1. (IF e.age < L THEN e.age + 1 ELSE e.age) \in 0 .. L
    BY DEF InboundEntry
  <2> QED
    BY <2>1 DEF InboundEntry, OnWire
<1>2. w = [i \in 1 .. Len(t) |-> [t[i] EXCEPT !.age = IF @ < L THEN @ + 1 ELSE @]]
  BY DEF Older
<1>3. \A i \in 1 .. Len(t) : /\ w[i] \in InboundEntry /\ w[i].key = t[i].key
                             /\ OnWire(w[i]) = OnWire(t[i])
  <2> SUFFICES ASSUME NEW i \in 1 .. Len(t)
               PROVE  w[i] \in InboundEntry /\ w[i].key = t[i].key /\ OnWire(w[i]) = OnWire(t[i])
    OBVIOUS
  <2>1. w[i] = [t[i] EXCEPT !.age = IF @ < L THEN @ + 1 ELSE @] /\ t[i] \in InboundEntry
    BY <1>0, <1>2
  <2> QED
    BY <1>1, <2>1
<1>4. w \in Seq(InboundEntry) /\ Len(w) = Len(t)
  <2>1. w \in [1 .. Len(t) -> InboundEntry]
    BY <1>2, <1>3
  <2> HIDE DEF w, t
  <2> QED
    BY <1>0, <2>1
<1>5. Backed(w) /\ DistinctKeys(w) /\ KeysOf(w) = KeysOf(t)
  <2>0. Backed(t) /\ DistinctKeys(t)
    BY DEF InboundInv
  <2> HIDE DEF t, w
  <2>1. Backed(w)
    BY <1>3, <1>4, <2>0 DEF Backed
  <2>2. DistinctKeys(w)
    BY <1>3, <1>4, <2>0 DEF DistinctKeys
  <2>3. KeysOf(w) \subseteq KeysOf(t) /\ KeysOf(t) \subseteq KeysOf(w)
    BY <1>3, <1>4 DEF KeysOf
  <2> QED
    BY <2>1, <2>2, <2>3
<1> QED
  BY <1>0, <1>4, <1>5 DEF InboundInv, Backed, DistinctKeys

\* A request is handed to the application.
LEMMA HandOffKeeps ==
  ASSUME TableTypes, ResponderInv, HandOff
  PROVE  ResponderInv'
<1>1. PICK m \in requests :
        /\ ~Known(m.key) /\ attempts[m.key] < MaxAttempts
        /\ inbound' = Append(inbound, [key |-> m.key, serial |-> m.serial, age |-> 0,
                                       attempt |-> attempts[m.key] + 1])
        /\ handedOff' = handedOff \cup {[key |-> m.key, serial |-> m.serial,
                                         attempt |-> attempts[m.key] + 1]}
        /\ attempts' = [attempts EXCEPT ![m.key] = @ + 1]
  BY DEF HandOff
<1>2. /\ UNCHANGED <<inboundHandler, duplicates, answered, requests, responses>>
      /\ Len(inbound) < MaximumInboundRequests
  BY DEF HandOff, wireVars
<1> DEFINE e == [key |-> m.key, serial |-> m.serial, age |-> 0, attempt |-> attempts[m.key] + 1]
           h == [key |-> m.key, serial |-> m.serial, attempt |-> attempts[m.key] + 1]
           w == Append(inbound, e)
<1>3. /\ inbound \in Seq(InboundEntry) /\ Len(inbound) \in Nat /\ Backed(inbound) /\ DistinctKeys(inbound)
      /\ attempts \in [Keys -> 0 .. MaxAttempts]
      /\ m.key \in Keys /\ m.serial \in Serials /\ m = [key |-> m.key, serial |-> m.serial]
  BY DEF ResponderInv, InboundInv, TableTypes, Request
<1>4. attempts[m.key] \in Nat /\ attempts[m.key] + 1 \in 1 .. MaxAttempts
  BY <1>1, <1>3
<1>5. /\ e \in InboundEntry /\ e.key = m.key /\ OnWire(e) = m
      /\ h \in [key : Keys, serial : Serials, attempt : 1 .. MaxAttempts] /\ OnWire(h) = m
  BY <1>3, <1>4 DEF InboundEntry, OnWire
<1>6. inbound' = w /\ handedOff' = handedOff \cup {h}
  BY <1>1
<1> HIDE DEF e, h
<1>7. /\ w \in Seq(InboundEntry) /\ Len(w) = Len(inbound) + 1 /\ w[Len(inbound) + 1] = e
      /\ \A n \in 1 .. Len(inbound) : w[n] = inbound[n]
  BY <1>3, <1>5
<1> HIDE DEF w
<1>8. \A n \in 1 .. Len(w) : n \in 1 .. Len(inbound) \/ n = Len(inbound) + 1
  BY <1>3, <1>7
<1>9. \A n \in 1 .. Len(inbound) : inbound[n].key # m.key
  BY <1>1 DEF Known, KeysOf
<1>10. Backed(w)
  BY <1>3, <1>5, <1>7, <1>8 DEF Backed
<1>11. DistinctKeys(w)
  <2> SUFFICES ASSUME NEW i \in 1 .. Len(w), NEW j \in 1 .. Len(w), w[i].key = w[j].key
               PROVE  i = j
    BY DEF DistinctKeys
  <2>1. CASE i \in 1 .. Len(inbound) /\ j \in 1 .. Len(inbound)
    BY <1>3, <1>7, <2>1 DEF DistinctKeys
  <2>2. CASE i \in 1 .. Len(inbound) /\ j = Len(inbound) + 1
    BY <1>5, <1>7, <1>9, <2>2
  <2>3. CASE i = Len(inbound) + 1 /\ j \in 1 .. Len(inbound)
    BY <1>5, <1>7, <1>9, <2>3
  <2> QED
    BY <1>8, <2>1, <2>2, <2>3
<1>12. Len(w) =< MaximumInboundRequests
  BY <1>2, <1>3, <1>7
<1>13. attempts' \in [Keys -> 0 .. MaxAttempts]
  BY <1>1, <1>3, <1>4
<1>14. handedOff' \subseteq [key : Keys, serial : Serials, attempt : 1 .. MaxAttempts]
       /\ \A x \in handedOff' : OnWire(x) \in requests
  BY <1>5, <1>6 DEF ResponderInv, InboundInv
<1>15. InboundInv'
  BY <1>2, <1>6, <1>7, <1>10, <1>11, <1>12, <1>13, <1>14
     DEF ResponderInv, InboundInv, Backed, DistinctKeys, OnWire
<1>16. NoneAnswered'
  <2> SUFFICES ASSUME NEW n \in 1 .. Len(w)
               PROVE  w[n].key \notin KeysOf(duplicates)
    BY <1>2, <1>6 DEF NoneAnswered, KeysOf
  <2>1. CASE n \in 1 .. Len(inbound)
    BY <1>7, <2>1 DEF ResponderInv, NoneAnswered, KeysOf
  <2>2. CASE n = Len(inbound) + 1
    BY <1>1, <1>5, <1>7, <2>2 DEF Known
  <2> QED
    BY <1>8, <2>1, <2>2
<1>17. CacheInv' /\ responses' \subseteq requests'
  BY <1>2 DEF ResponderInv, CacheInv, Backed, DistinctKeys, CacheHolds
<1> QED
  BY <1>15, <1>16, <1>17 DEF ResponderInv

\* An execution is completed.
LEMMA CompleteKeeps ==
  ASSUME TableTypes, ResponderInv, CompleteInbound
  PROVE  ResponderInv'
<1>1. PICK h \in handedOff, i \in 1 .. Len(inbound) :
        /\ inbound[i].key = h.key
        /\ inbound' = EntriesAt(inbound, (1 .. Len(inbound)) \ {i})
        /\ handedOff' = handedOff \ {h}
        /\ SendResponseAndCache(h.key, h.serial) \/ ResponseTooLong
  BY DEF CompleteInbound
<1>2. UNCHANGED <<inboundHandler, attempts, requests>>
  BY DEF CompleteInbound
<1> DEFINE S == (1 .. Len(inbound)) \ {i}
           u == EntriesAt(inbound, S)
<1>3. /\ inbound \in Seq(InboundEntry) /\ Len(inbound) \in Nat /\ Len(inbound) =< MaximumInboundRequests
      /\ Backed(inbound) /\ DistinctKeys(inbound) /\ S \in SUBSET (1 .. Len(inbound)) /\ i \notin S
      /\ [key |-> h.key, serial |-> h.serial] \in requests
  BY DEF ResponderInv, InboundInv, OnWire
<1>4. inbound' = u
  BY <1>1
<1> HIDE DEF S
<1>5. /\ u \in Seq(InboundEntry) /\ Len(u) =< Len(inbound) /\ Backed(u) /\ DistinctKeys(u)
      /\ \A n \in 1 .. Len(u) : \E j \in S : u[n] = inbound[j]
  BY <1>3, ThinTable
<1> HIDE DEF u
<1>6. InboundInv'
  <2>1. Len(u) =< MaximumInboundRequests
    <3>1. Len(u) \in Nat
      BY <1>5
    <3> QED
      BY <1>3, <1>5, <3>1
  <2>2. handedOff' \subseteq handedOff
    BY <1>1
  <2> QED
    BY <1>2, <1>4, <1>5, <2>1, <2>2 DEF ResponderInv, InboundInv, Backed, DistinctKeys, OnWire
<1>7. \A n \in 1 .. Len(u) : u[n].key # h.key /\ u[n].key \notin KeysOf(duplicates)
  <2> SUFFICES ASSUME NEW n \in 1 .. Len(u)
               PROVE  u[n].key # h.key /\ u[n].key \notin KeysOf(duplicates)
    OBVIOUS
  <2>1. PICK j \in S : u[n] = inbound[j]
    BY <1>5
  <2>2. j \in 1 .. Len(inbound) /\ j # i
    BY <1>3, <2>1
  <2> QED
    BY <1>1, <1>3, <2>1, <2>2 DEF DistinctKeys, ResponderInv, NoneAnswered, KeysOf
<1>8. CASE SendResponseAndCache(h.key, h.serial)
  <2>1. h.key \notin KeysOf(duplicates)
    BY <1>1 DEF ResponderInv, NoneAnswered, KeysOf
  <2>2. /\ CacheInv' /\ responses' \subseteq requests'
        /\ \A x \in KeysOf(duplicates') : x = h.key \/ x \in KeysOf(duplicates)
    BY <1>2, <1>3, <1>8, <2>1, SendKeeps DEF ResponderInv
  <2>3. NoneAnswered'
    BY <1>4, <1>7, <2>2 DEF NoneAnswered, KeysOf
  <2> QED
    BY <1>6, <2>2, <2>3 DEF ResponderInv
<1>9. CASE ResponseTooLong
  <2>1. CacheInv' /\ responses' \subseteq requests'
    BY <1>2, <1>9 DEF ResponseTooLong, ResponderInv, CacheInv, Backed, DistinctKeys, CacheHolds
  <2>2. NoneAnswered'
    BY <1>4, <1>7, <1>9 DEF NoneAnswered, KeysOf, ResponseTooLong
  <2> QED
    BY <1>6, <2>1, <2>2 DEF ResponderInv
<1> QED
  BY <1>1, <1>8, <1>9

\* A step of the responder.
LEMMA ResponderKeeps ==
  ASSUME TableTypes, ResponderInv, ResponderStep
  PROVE  ResponderInv' /\ UNCHANGED <<requests, nextRequestID, pending, invoked, outcome>>
<1>0. UNCHANGED <<requests, nextRequestID, pending, invoked, outcome>>
  BY DEF ResponderStep, requesterVars, wireVars, ResendCached, Refuse, HandOff, ExecuteAtOnce,
         CompleteInbound, CompleteTooLate, UpdateResponder, RestartResponder, TickResponder
<1>a. \A m \in requests : m = [key |-> m.key, serial |-> m.serial]
  BY DEF TableTypes, Request
<1>b. ASSUME UNCHANGED <<inboundHandler, inbound, attempts>>, handedOff' \subseteq handedOff
      PROVE  InboundInv'
  BY <1>0, <1>b DEF ResponderInv, InboundInv, Backed, DistinctKeys, OnWire
<1>c. ASSUME UNCHANGED <<duplicates, answered, responses>>
      PROVE  CacheInv' /\ responses' \subseteq requests'
  BY <1>0, <1>c DEF ResponderInv, CacheInv, Backed, DistinctKeys, CacheHolds
<1>1. CASE ResendCached
  <2>1. PICK i \in 1 .. Len(duplicates) : responses' = responses \cup {OnWire(duplicates[i])}
    BY <1>1 DEF ResendCached
  <2>2. UNCHANGED <<inboundHandler, inbound, duplicates, handedOff, attempts, answered>>
    BY <1>1 DEF ResendCached, responderVars
  <2>3. OnWire(duplicates[i]) \in requests
    BY DEF ResponderInv, CacheInv, Backed
  <2>4. CacheInv' /\ responses' \subseteq requests'
    BY <1>0, <2>1, <2>2, <2>3 DEF ResponderInv, CacheInv, Backed, DistinctKeys, CacheHolds
  <2>5. InboundInv'
    BY <1>b, <2>2
  <2>6. NoneAnswered'
    BY <2>2 DEF ResponderInv, NoneAnswered, KeysOf
  <2> QED
    BY <1>0, <2>4, <2>5, <2>6 DEF ResponderInv
<1>2. CASE Refuse \/ ExecuteAtOnce
  <2>1. PICK m \in requests :
          /\ ~Known(m.key) /\ (SendResponseAndCache(m.key, m.serial) \/ ResponseTooLong)
          /\ \/ attempts' = attempts
             \/ attempts[m.key] < MaxAttempts /\ attempts' = [attempts EXCEPT ![m.key] = @ + 1]
    <3>1. CASE Refuse
      BY <3>1 DEF Refuse
    <3>2. CASE ExecuteAtOnce
      BY <3>2 DEF ExecuteAtOnce
    <3> QED
      BY <1>2, <3>1, <3>2
  <2>2. UNCHANGED <<inboundHandler, inbound, handedOff>>
    BY <1>2 DEF Refuse, ExecuteAtOnce
  <2>3. m.key \notin KeysOf(duplicates) /\ m.key \notin KeysOf(inbound)
    BY <2>1 DEF Known
  <2>4. attempts' \in [Keys -> 0 .. MaxAttempts]
    <3>1. attempts \in [Keys -> 0 .. MaxAttempts] /\ m.key \in Keys
      BY DEF ResponderInv, InboundInv, TableTypes, Request
    <3> QED
      BY <2>1, <3>1
  <2>5. InboundInv'
    BY <1>0, <2>2, <2>4 DEF ResponderInv, InboundInv, Backed, DistinctKeys, OnWire
  <2>6. CASE SendResponseAndCache(m.key, m.serial)
    <3>1. /\ CacheInv' /\ responses' \subseteq requests'
          /\ \A x \in KeysOf(duplicates') : x = m.key \/ x \in KeysOf(duplicates)
      BY <1>0, <1>a, <2>3, <2>6, SendKeeps DEF ResponderInv
    <3>2. NoneAnswered'
      BY <2>2, <2>3, <3>1 DEF ResponderInv, NoneAnswered, KeysOf
    <3> QED
      BY <1>0, <2>5, <3>1, <3>2 DEF ResponderInv
  <2>7. CASE ResponseTooLong
    BY <1>0, <1>c, <2>2, <2>5, <2>7 DEF ResponseTooLong, ResponderInv, NoneAnswered, KeysOf
  <2> QED
    BY <2>1, <2>6, <2>7
<1>3. CASE CompleteTooLate
  <2>1. UNCHANGED <<inboundHandler, inbound, duplicates, attempts, answered, responses>>
        /\ handedOff' \subseteq handedOff
    BY <1>3 DEF CompleteTooLate, wireVars
  <2> QED
    BY <1>0, <1>b, <1>c, <2>1 DEF ResponderInv, NoneAnswered, KeysOf
<1>4. CASE RestartResponder
  <2>1. /\ inbound' = << >> /\ duplicates' = << >> /\ handedOff' = {} /\ inboundHandler' \in BOOLEAN
        /\ answered' = [k \in Keys |-> Forgotten] /\ UNCHANGED <<attempts, responses>>
    BY <1>4 DEF RestartResponder, wireVars
  <2>2. Len(<< >>) = 0 /\ << >> \in Seq(CachedAnswer) /\ << >> \in Seq(InboundEntry)
    OBVIOUS
  <2>3. /\ Forgotten \in [age : 0 .. DuplicateResultLifetime, newer : 0 .. MaximumDuplicateResults]
        /\ Forgotten.age = DuplicateResultLifetime
    BY DEF Forgotten
  <2>4. ~(DuplicateResultLifetime < DuplicateResultLifetime)
    OBVIOUS
  <2>5. CacheInv'
    BY <2>1, <2>2, <2>3, <2>4 DEF CacheInv, Backed, DistinctKeys, CacheHolds
  <2>6. InboundInv'
    BY <2>1, <2>2 DEF ResponderInv, InboundInv, Backed, DistinctKeys
  <2> QED
    BY <1>0, <2>1, <2>2, <2>5, <2>6 DEF ResponderInv, NoneAnswered, KeysOf
<1>5. CASE TickResponder
  <2>1. /\ inbound' = Older(inbound, InboundRequestTimeout)
        /\ duplicates' = Older(duplicates, DuplicateResultLifetime)
        /\ answered' = [k \in Keys |-> [answered[k] EXCEPT !.age =
                          IF @ < DuplicateResultLifetime THEN @ + 1 ELSE @]]
        /\ UNCHANGED <<inboundHandler, handedOff, attempts, requests, responses>>
    BY <1>5 DEF TickResponder, wireVars
  <2>2. CacheInv' /\ KeysOf(duplicates') = KeysOf(duplicates)
    BY <2>1, TickCache DEF ResponderInv
  <2>3. InboundInv' /\ KeysOf(inbound') = KeysOf(inbound)
    BY <2>1, TickInbound DEF ResponderInv
  <2>4. NoneAnswered'
    BY <2>2, <2>3 DEF ResponderInv, NoneAnswered, KeysOf
  <2> QED
    BY <1>0, <2>1, <2>2, <2>3, <2>4 DEF ResponderInv
<1> QED
  BY <1>0, <1>1, <1>2, <1>3, <1>4, <1>5, HandOffKeeps, CompleteKeeps, UpdateKeeps DEF ResponderStep

-----------------------------------------------------------------------------
(* The exchange.                                                            *)

Inv == TableInv /\ OutcomeInv /\ ResponderInv

\* At the start all the tables are empty.
LEMMA InvInit ==
  ASSUME Init
  PROVE  Inv /\ CompletionControl
<1>0. Len(<< >>) = 0 /\ \A E : << >> \in Seq(E)
  OBVIOUS
<1>1. /\ requests = {} /\ responses = {} /\ nextRequestID = [r \in Requesters |-> 1]
      /\ pending = [r \in Requesters |-> << >>] /\ invoked = 0
      /\ outcome = [s \in Serials |-> << >>] /\ inboundHandler \in BOOLEAN
      /\ inbound = << >> /\ duplicates = << >> /\ handedOff = {}
      /\ attempts = [k \in Keys |-> 0] /\ answered = [k \in Keys |-> Forgotten]
  BY DEF Init, RequesterInit, ResponderInit, WireInit
<1>2. TableInv
  <2>1. 1 \in 1 .. MaxRequestID + 1 /\ 0 \in 0 .. MaxInvokes /\ 0 =< MaximumOutstandingRequests
    OBVIOUS
  <2>2. pending \in [Requesters -> Seq(PendingEntry)] /\ \A r \in Requesters : Len(pending[r]) = 0
    BY <1>0, <1>1
  <2>3. TableTypes
    BY <1>1, <2>1, <2>2 DEF TableTypes
  <2> QED
    BY <1>1, <2>2, <2>3 DEF TableInv, RequestControl, PendingControl
<1>3. OutcomeInv
  BY <1>0, <1>1 DEF OutcomeInv, OwnResult
<1>4. ResponderInv
  <2>1. /\ Forgotten \in [age : 0 .. DuplicateResultLifetime, newer : 0 .. MaximumDuplicateResults]
        /\ Forgotten.age = DuplicateResultLifetime
        /\ ~(DuplicateResultLifetime < DuplicateResultLifetime)
    BY DEF Forgotten
  <2>2. CacheInv
    BY <1>0, <1>1, <2>1 DEF CacheInv, Backed, DistinctKeys, CacheHolds
  <2>3. InboundInv
    BY <1>0, <1>1 DEF InboundInv, Backed, DistinctKeys
  <2> QED
    BY <1>1, <2>2, <2>3 DEF ResponderInv, NoneAnswered, KeysOf
<1>5. CompletionControl
  <2>1. \A s \in Serials : s \in Nat /\ s >= 1 /\ outcome[s] = << >>
    BY <1>1 DEF Serials
  <2>2. \A s \in Serials : ~IsPending(s)
    BY <1>0, <1>1 DEF IsPending, SerialsIn
  <2>3. \A s \in Serials : ~(s =< 0)
    BY <2>1
  <2> QED
    BY <1>0, <1>1, <2>1, <2>2, <2>3 DEF CompletionControl
<1> QED
  BY <1>2, <1>3, <1>4, <1>5 DEF Inv

\* Every step keeps the invariant, and accepts and completes invocations.
LEMMA InvNext ==
  ASSUME Inv, [Next]_vars
  PROVE  /\ Inv'
         /\ \/ UNCHANGED <<pending, invoked, outcome>>
            \/ \E r \in Requesters : RequesterStep(r)
<1>a. ASSUME UNCHANGED <<nextRequestID, pending, invoked, outcome, requests>>
      PROVE  TableInv' /\ OutcomeInv'
  BY <1>a DEF Inv, TableInv, TableTypes, RequestControl, PendingControl, Asked, OutcomeInv, OwnResult
<1>b. ASSUME UNCHANGED <<inboundHandler, inbound, duplicates, handedOff, attempts, answered>>,
             requests \subseteq requests', responses' \subseteq responses
      PROVE  ResponderInv'
  <2>1. CacheInv'
    BY <1>b DEF Inv, ResponderInv, CacheInv, Backed, DistinctKeys, CacheHolds, OnWire
  <2>2. InboundInv'
    BY <1>b DEF Inv, ResponderInv, InboundInv, Backed, DistinctKeys, OnWire
  <2>3. NoneAnswered'
    BY <1>b DEF Inv, ResponderInv, NoneAnswered, KeysOf
  <2> QED
    BY <1>b, <2>1, <2>2, <2>3 DEF Inv, ResponderInv
<1>1. ASSUME NEW r \in Requesters, RequesterStep(r)
      PROVE  Inv'
  <2>1. /\ TableInv' /\ OutcomeInv'
        /\ requests \subseteq requests' /\ responses' \subseteq responses
    BY <1>1, RequesterKeeps DEF Inv, ResponderInv
  <2>2. UNCHANGED <<inboundHandler, inbound, duplicates, handedOff, attempts, answered>>
    BY <1>1 DEF RequesterStep, responderVars
  <2> QED
    BY <1>b, <2>1, <2>2 DEF Inv
<1>2. CASE ResponderStep
  <2>1. ResponderInv' /\ UNCHANGED <<requests, nextRequestID, pending, invoked, outcome>>
    BY <1>2, ResponderKeeps DEF Inv, TableInv
  <2> QED
    BY <1>a, <2>1 DEF Inv
<1>3. CASE LoseResponse /\ UNCHANGED <<requesterVars, responderVars>>
  <2>1. /\ UNCHANGED <<nextRequestID, pending, invoked, outcome, requests>>
        /\ UNCHANGED <<inboundHandler, inbound, duplicates, handedOff, attempts, answered>>
        /\ responses' \subseteq responses
    BY <1>3 DEF LoseResponse, requesterVars, responderVars
  <2> QED
    BY <1>a, <1>b, <2>1 DEF Inv
<1>4. CASE UNCHANGED vars
  <2>1. /\ UNCHANGED <<nextRequestID, pending, invoked, outcome, requests, responses>>
        /\ UNCHANGED <<inboundHandler, inbound, duplicates, handedOff, attempts, answered>>
    BY <1>4 DEF vars, requesterVars, responderVars, wireVars
  <2> QED
    BY <1>a, <1>b, <2>1 DEF Inv
<1> QED
  BY <1>1, <1>2, <1>3, <1>4 DEF Next

\* The invariant holds in every state.
LEMMA InvHolds == Spec => []Inv
<1>1. Init => Inv
  BY InvInit
<1>2. Inv /\ [Next]_vars => Inv'
  BY InvNext
<1> QED
  BY <1>1, <1>2, PTL DEF Spec

\* The tables of ESPNowCommandEndpoint hold what they should, and no more than
\* MaximumOutstandingRequests, MaximumInboundRequests and MaximumDuplicateResults
\* entries, whatever handlers do and however many requests time out at once.
THEOREM ExchangeTypes == Spec => []TypeOK
<1>1. Inv => TypeOK
  BY DEF Inv, TypeOK, TableInv, TableTypes, OutcomeInv, ResponderInv, CacheInv, InboundInv,
         Request, Response
<1> QED
  BY <1>1, InvHolds, PTL

\* HandleResponse correlates by request ID alone: an answer that was delayed,
\* repeated or cached never completes another invocation.
THEOREM ResultsAreOwn == Spec => []OwnResult
<1>1. Inv => OwnResult
  BY DEF Inv, OutcomeInv
<1> QED
  BY <1>1, InvHolds, PTL

\* FindInbound and FindDuplicate never have two entries of a key to choose from.
THEOREM KeysHaveOneRecord == Spec => []OneRecordPerKey
<1>1. ASSUME Inv
      PROVE  OneRecordPerKey
  <2> DEFINE A == [i \in 1 .. Len(inbound) |-> inbound[i].key]
             B == [i \in 1 .. Len(duplicates) |-> duplicates[i].key]
             C == A \o B
             a == Len(inbound)
             b == Len(duplicates)
  <2>1. /\ inbound \in Seq(InboundEntry) /\ duplicates \in Seq(CachedAnswer)
        /\ DistinctKeys(inbound) /\ DistinctKeys(duplicates) /\ NoneAnswered
    BY <1>1 DEF Inv, ResponderInv, CacheInv, InboundInv
  <2>2. a \in Nat /\ b \in Nat
    BY <2>1
  <2>3. \A i \in 1 .. a : inbound[i].key \in Keys
    <3>1. \A i \in 1 .. a : inbound[i] \in InboundEntry
      BY <2>1
    <3> QED
      BY <3>1 DEF InboundEntry
  <2>4. \A i \in 1 .. b : duplicates[i].key \in Keys
    <3>1. \A i \in 1 .. b : duplicates[i] \in CachedAnswer
      BY <2>1
    <3> QED
      BY <3>1 DEF CachedAnswer
  <2>5. \A i, j \in 1 .. a : A[i] = A[j] => i = j
    BY <2>1 DEF DistinctKeys
  <2>6. \A i, j \in 1 .. b : B[i] = B[j] => i = j
    BY <2>1 DEF DistinctKeys
  <2>7. \A i \in 1 .. a, j \in 1 .. b : A[i] # B[j]
    BY <2>1 DEF NoneAnswered, KeysOf
  <2> HIDE DEF a, b
  <2>8. A \in Seq(Keys) /\ B \in Seq(Keys) /\ Len(A) = a /\ Len(B) = b
    <3>1. A \in [1 .. a -> Keys] /\ B \in [1 .. b -> Keys]
      BY <2>3, <2>4 DEF a, b
    <3> HIDE DEF A, B
    <3> QED
      BY <2>2, <3>1
  <2> HIDE DEF A, B
  <2>9. Len(C) = a + b /\ \A i \in 1 .. a + b : C[i] = IF i =< a THEN A[i] ELSE B[i - a]
    BY <2>8
  <2> HIDE DEF C
  <2>10. ASSUME NEW i \in 1 .. Len(C), NEW j \in 1 .. Len(C), C[i] = C[j]
         PROVE  i = j
    <3>0. i \in 1 .. a + b /\ j \in 1 .. a + b
      BY <2>9
    <3>1. CASE i =< a /\ j =< a
      <4>1. i \in 1 .. a /\ j \in 1 .. a /\ C[i] = A[i] /\ C[j] = A[j]
        BY <2>2, <2>9, <3>0, <3>1
      <4> QED
        BY <2>5, <2>10, <4>1
    <3>2. CASE ~(i =< a) /\ ~(j =< a)
      <4>1. i - a \in 1 .. b /\ j - a \in 1 .. b
        BY <2>2, <3>0, <3>2
      <4>2. C[i] = B[i - a] /\ C[j] = B[j - a]
        BY <2>9, <3>0, <3>2
      <4>3. i - a = j - a
        BY <2>6, <2>10, <4>1, <4>2
      <4> QED
        BY <2>2, <3>0, <4>3
    <3>3. CASE i =< a /\ ~(j =< a)
      <4>1. i \in 1 .. a /\ j - a \in 1 .. b
        BY <2>2, <3>0, <3>3
      <4>2. C[i] = A[i] /\ C[j] = B[j - a]
        BY <2>9, <3>0, <3>3
      <4> QED
        BY <2>7, <2>10, <4>1, <4>2
    <3>4. CASE ~(i =< a) /\ j =< a
      <4>1. j \in 1 .. a /\ i - a \in 1 .. b
        BY <2>2, <3>0, <3>4
      <4>2. C[j] = A[j] /\ C[i] = B[i - a]
        BY <2>9, <3>0, <3>4
      <4> QED
        BY <2>7, <2>10, <4>1, <4>2
    <3> QED
      BY <3>1, <3>2, <3>3, <3>4
  <2>11. \A i, j \in 1 .. Len(C) : C[i] = C[j] => i = j
    BY <2>10
  <2> QED
    BY <2>11 DEF OneRecordPerKey, C, A, B
<1> QED
  BY <1>1, InvHolds, PTL

\* HandleRequest executes a request again only after its answer was forgotten
\* by age, by MaximumDuplicateResults newer answers, or was never cached.
THEOREM NoRequestRunsEarly == Spec => NoEarlyReexecution
<1> DEFINE Forgot == \A k \in Keys : attempts'[k] > attempts[k] =>
                       /\ k \notin KeysOf(inbound)
                       /\ \/ answered[k].age >= DuplicateResultLifetime
                          \/ answered[k].newer >= MaximumDuplicateResults
<1>1. ASSUME Inv, [Next]_vars
      PROVE  Forgot
  <2> SUFFICES ASSUME NEW k \in Keys, attempts'[k] > attempts[k]
               PROVE  /\ k \notin KeysOf(inbound)
                      /\ \/ answered[k].age >= DuplicateResultLifetime
                         \/ answered[k].newer >= MaximumDuplicateResults
    OBVIOUS
  <2>1. attempts \in [Keys -> 0 .. MaxAttempts]
    BY <1>1 DEF Inv, ResponderInv, InboundInv
  <2>2. attempts' # attempts
    BY <2>1
  <2>3. HandOff \/ ExecuteAtOnce
    BY <1>1, <2>2 DEF Next, RequesterStep, ResponderStep, ResendCached, Refuse, CompleteInbound,
       CompleteTooLate, UpdateResponder, RestartResponder, TickResponder, responderVars, vars
  <2>4. PICK m \in requests : ~Known(m.key) /\ attempts' = [attempts EXCEPT ![m.key] = @ + 1]
    BY <2>3 DEF HandOff, ExecuteAtOnce
  <2>5. k = m.key
    BY <2>1, <2>4
  <2>6. k \notin KeysOf(inbound) /\ k \notin KeysOf(duplicates)
    BY <2>4, <2>5 DEF Known
  <2>7. /\ answered[k].age \in Nat /\ answered[k].newer \in Nat
    BY <1>1 DEF Inv, ResponderInv, CacheInv
  <2>8. ~(answered[k].age < DuplicateResultLifetime /\ answered[k].newer < MaximumDuplicateResults)
    BY <1>1, <2>6 DEF Inv, ResponderInv, CacheInv, CacheHolds, KeysOf
  <2> QED
    BY <2>6, <2>7, <2>8
<1>2. Inv /\ [Next]_vars => [Forgot]_vars
  BY <1>1
<1> QED
  BY <1>2, InvHolds, PTL DEF Spec, NoEarlyReexecution

\* Invocations are completed once and for all, when no completion handler
\* invokes again while Shutdown runs.
LEMMA CompletionHolds ==
  ASSUME "shutdown" \notin Reinvokes
  PROVE  Spec => [](Inv /\ CompletionControl)
<1>1. Init => Inv /\ CompletionControl
  BY InvInit
<1>2. ASSUME Inv, CompletionControl, [Next]_vars
      PROVE  Inv' /\ CompletionControl'
  <2>1. /\ Inv'
        /\ \/ UNCHANGED <<pending, invoked, outcome>>
           \/ \E r \in Requesters : RequesterStep(r)
    BY <1>2, InvNext
  <2>2. CASE UNCHANGED <<pending, invoked, outcome>>
    BY <1>2, <2>1, <2>2 DEF CompletionControl, IsPending, SerialsIn
  <2>3. CASE \E r \in Requesters : RequesterStep(r)
    <3>1. PICK S, A : CompletionStep(S, A)
      BY <1>2, <2>3, RequesterKeeps DEF Inv, ResponderInv
    <3>2. CompletionControl'
      BY <1>2, <3>1, CompletionKept DEF Inv
    <3> QED
      BY <2>1, <3>2
  <2> QED
    BY <2>1, <2>2, <2>3
<1>3. (Inv /\ CompletionControl) /\ [Next]_vars => (Inv /\ CompletionControl)'
  BY <1>2
<1> QED
  BY <1>1, <1>3, PTL DEF Spec

\* The completion handler of every invocation that Invoke took is called once,
\* with an answer or an error, and until then the invocation has one entry.  A
\* handler that calls Invoke while Shutdown runs loses its invocation.
THEOREM InvocationsCompleteOnce ==
  ASSUME "shutdown" \notin Reinvokes
  PROVE  Spec => []CompletedOnce
<1>1. ASSUME Inv, CompletionControl
      PROVE  CompletedOnce
  <2> SUFFICES ASSUME NEW s \in 1 .. invoked
               PROVE  Cardinality(PendingAt(s)) + Len(outcome[s]) = 1
    BY DEF CompletedOnce
  <2>0. /\ invoked \in 0 .. MaxInvokes /\ outcome \in [Serials -> Seq(Serials)]
        /\ pending \in [Requesters -> Seq(PendingEntry)]
        /\ \A r \in Requesters : Len(pending[r]) =< MaximumOutstandingRequests
    BY <1>1 DEF Inv, TableInv, TableTypes, OutcomeInv
  <2>1. s \in Serials /\ s =< invoked
    BY <2>0 DEF Serials
  <2>2. outcome[s] \in Seq(Serials) /\ Len(outcome[s]) =< 1 /\ (IsPending(s) <=> outcome[s] = << >>)
    BY <1>1, <2>0, <2>1 DEF CompletionControl
  <2>3. CASE outcome[s] = << >>
    <3>1. PICK q \in Requesters : \E i \in 1 .. Len(pending[q]) : s = pending[q][i].serial
      BY <2>2, <2>3 DEF IsPending, SerialsIn
    <3>2. PICK i \in 1 .. Len(pending[q]) : s = pending[q][i].serial
      BY <3>1
    <3>3. Len(pending[q]) \in Nat /\ i \in 1 .. MaximumOutstandingRequests /\ i =< Len(pending[q])
      <4>1. Len(pending[q]) \in Nat /\ Len(pending[q]) =< MaximumOutstandingRequests
        BY <2>0
      <4> QED
        BY <4>1
    <3>4. <<q, i>> \in PendingAt(s)
      BY <3>2, <3>3 DEF PendingAt
    <3>5. ASSUME NEW p \in PendingAt(s)
          PROVE  p = <<q, i>>
      <4>1. /\ p \in Requesters \X (1 .. MaximumOutstandingRequests)
            /\ p[2] =< Len(pending[p[1]]) /\ pending[p[1]][p[2]].serial = s
        BY DEF PendingAt
      <4>2. p[1] \in Requesters /\ p[2] \in 1 .. MaximumOutstandingRequests /\ p = <<p[1], p[2]>>
        BY <4>1
      <4>3. Len(pending[p[1]]) \in Nat
        BY <2>0, <4>2
      <4>4. p[2] \in 1 .. Len(pending[p[1]])
        BY <4>1, <4>2, <4>3
      <4>5. p[1] = q /\ p[2] = i
        BY <1>1, <3>2, <4>1, <4>2, <4>4, PendingUnique DEF Inv
      <4> QED
        BY <4>2, <4>5
    <3>6. PendingAt(s) = {<<q, i>>}
      BY <3>4, <3>5
    <3>7. Cardinality(PendingAt(s)) = 1
      BY <3>6, FS_Singleton
    <3>8. Len(outcome[s]) = 0
      BY <2>3
    <3> QED
      BY <3>7, <3>8
  <2>4. CASE outcome[s] # << >>
    <3>1. Len(outcome[s]) = 1
      <4> DEFINE o == outcome[s]
      <4>1. o \in Seq(Serials) /\ o # << >> /\ Len(o) =< 1
        BY <2>2, <2>4
      <4> HIDE DEF o
      <4>2. Len(o) \in Nat \ {0}
        BY <4>1, EmptySeq, Zenon
      <4>3. Len(o) = 1
        <5> DEFINE n == Len(o)
        <5>1. n \in Nat \ {0} /\ n =< 1
          BY <4>1, <4>2
        <5> HIDE DEF n
        <5>2. n = 1
          BY <5>1
        <5> QED
          BY <5>2 DEF n
      <4> QED
        BY <4>3 DEF o
    <3>2. PendingAt(s) = {}
      <4> SUFFICES ASSUME NEW p \in PendingAt(s)
                   PROVE  FALSE
        OBVIOUS
      <4>1. /\ p \in Requesters \X (1 .. MaximumOutstandingRequests)
            /\ p[2] =< Len(pending[p[1]]) /\ pending[p[1]][p[2]].serial = s
        BY DEF PendingAt
      <4>2. p[1] \in Requesters /\ p[2] \in 1 .. MaximumOutstandingRequests
        BY <4>1
      <4>3. Len(pending[p[1]]) \in Nat
        BY <2>0, <4>2
      <4>4. p[2] \in 1 .. Len(pending[p[1]])
        BY <4>1, <4>2, <4>3
      <4>5. IsPending(s)
        BY <4>1, <4>2, <4>4 DEF IsPending, SerialsIn
      <4> QED
        BY <2>2, <2>4, <4>5
    <3>3. Cardinality(PendingAt(s)) = 0
      BY <3>2, FS_EmptySet
    <3> QED
      BY <3>1, <3>3
  <2> QED
    BY <2>3, <2>4
<1> QED
  BY <1>1, CompletionHolds, PTL
=============================================================================
