-------------------------- MODULE ReassemblyProofs --------------------------
(***************************************************************************)
(* The reassemblers for every set of messages, every capacity and every     *)
(* time-out, messages of one key and shape included: only parts that no      *)
(* header tells apart are joined, and a message whose fragments come back to *)
(* back is handed on, on the second attempt whatever records are there.      *)
(***************************************************************************)
EXTENDS Reassembly, FiniteSetTheorems, WellFoundedInduction, TLAPS

-----------------------------------------------------------------------------
(* The inductive invariant.                                                 *)

AllParts == {None} \cup UNION {{m.parts[i] : i \in 0 .. m.count - 1} : m \in Messages[kind]}

\* The records that a fragment of m can begin: parts are those of messages that
\* have the key and the shape of m.
EntriesOf(m) ==
  {e \in [state : {"partial"}, source : {m.source}, id : {m.id}, type : {m.type},
          count : {m.count}, length : {m.length}, age : 0 .. ReassemblyTimeout + 1,
          disputed : BOOLEAN, parts : [0 .. m.count - 1 -> AllParts]] :
     \A i \in 0 .. m.count - 1 :
       e.parts[i] # None => \E n \in Twins(m) : e.parts[i] = n.parts[i]}

\* Every record is one of a message; some parts are there and some are not.
TableControl ==
  /\ table \in [Slots -> {Empty} \cup UNION {EntriesOf(m) : m \in Messages[kind]}]
  /\ \A s \in Slots : table[s] # Empty =>
       ~IsComplete(table[s]) /\ \E i \in DOMAIN table[s].parts : table[s].parts[i] # None

\* A message has one record at the most.
KeyControl ==
  \A r, s \in Slots :
    table[r] # Empty /\ table[s] # Empty /\ SameKey(kind, table[r], table[s]) => r = s

\* Every part in record e is m's.
Agrees(e, m) == \A j \in 0 .. m.count - 1 : e.parts[j] \in {None, m.parts[j]}

\* Record e has the parts before i, of whatever message.
HoldsTo(e, i) == \A j \in 0 .. i - 1 : e.parts[j] # None

Streak == [next : Nat, msg : Messages[kind], due : BOOLEAN, done : BOOLEAN]

\* Slot s has a record of m's own parts, not old, with those before i.
OwnRecord(s, m, i) ==
  /\ table[s] # Empty /\ SameKey(kind, table[s], m) /\ SameShape(kind, table[s], m)
  /\ table[s].age = 0 /\ Agrees(table[s], m) /\ HoldsTo(table[s], i)

\* Slot s has no record of m's key that will outlive m's fragments from i on with
\* parts of another message: it would be complete by then.
NoObstacle(s, m, i) ==
  table[s] # Empty /\ SameKey(kind, table[s], m) =>
    IF SameShape(kind, table[s], m) THEN Agrees(table[s], m) \/ HoldsTo(table[s], i)
                                    ELSE kind = "Command"

\* A message that is due was handed on, or has a record with every fragment of
\* the streak; and stale parts under its key are on their way out.
StreakControl ==
  /\ streak \in {NoStreak} \cup Streak
  /\ streak.next > 0 =>
       /\ streak \in Streak
       /\ streak.due /\ ~streak.done => \E s \in Slots : OwnRecord(s, streak.msg, streak.next)
       /\ streak.msg.count # 1 => \A s \in Slots : NoObstacle(s, streak.msg, streak.next)

Inv == /\ kind \in Kinds /\ cursor \in 0 .. MaximumReassemblies - 1
       /\ TableControl /\ KeyControl /\ StreakControl /\ PartsBelongTogether

-----------------------------------------------------------------------------
(* Lemmas about numbers, records and parts.                                 *)

USE KindsAssumption, CapacityAssumption, TimeoutAssumption

\* A set of numbers that is not empty has a least element.
LEMMA LeastElement ==
  ASSUME NEW T, T \subseteq Nat, T # {}
  PROVE  \E x \in T : \A y \in T : x =< y
<1>1. IsWellFoundedOn(OpToRel(<, Nat), Nat)
  BY NatLessThanWellFounded
<1>2. \E x \in T : \A y \in T : ~(<<y, x>> \in OpToRel(<, Nat))
  BY <1>1, WFMin
<1>3. \E x \in T : \A y \in T : ~(y < x)
  BY <1>2 DEF OpToRel
<1> QED
  BY <1>3

\* The fields of a message.
LEMMA MessageFacts ==
  ASSUME kind \in Kinds, NEW m \in Messages[kind]
  PROVE  /\ m.count \in Nat /\ m.count > 0
         /\ kind = "Event" => m.type = "event"
         /\ m.parts = [i \in 0 .. m.count - 1 |-> m.parts[i]]
         /\ \A i \in 0 .. m.count - 1 : m.parts[i] # None /\ m.parts[i] \in AllParts
<1>1. IsMessage(kind, m)
  BY MessagesAssumption
<1>2. \A i \in 0 .. m.count - 1 : m.parts[i] \in AllParts
  BY DEF AllParts
<1> QED
  BY <1>1, <1>2 DEF IsMessage

\* The fields of a record.
LEMMA EntryFacts ==
  ASSUME NEW m, NEW e \in EntriesOf(m)
  PROVE  /\ e # Empty
         /\ e.source = m.source /\ e.id = m.id /\ e.type = m.type
         /\ e.count = m.count /\ e.length = m.length
         /\ e.age \in 0 .. ReassemblyTimeout + 1
         /\ e.parts \in [0 .. m.count - 1 -> AllParts]
         /\ \A i \in 0 .. m.count - 1 :
              e.parts[i] # None => \E n \in Twins(m) : e.parts[i] = n.parts[i]
         /\ SameKey(kind, e, m) /\ SameShape(kind, e, m)
<1>1. e.state = "partial" /\ Empty.state = "empty"
  BY DEF EntriesOf, Empty
<1>2. /\ e.source = m.source /\ e.id = m.id /\ e.type = m.type
      /\ e.count = m.count /\ e.length = m.length
      /\ e.age \in 0 .. ReassemblyTimeout + 1
      /\ e.parts \in [0 .. m.count - 1 -> AllParts]
      /\ \A i \in 0 .. m.count - 1 :
           e.parts[i] # None => \E n \in Twins(m) : e.parts[i] = n.parts[i]
  BY DEF EntriesOf
<1> QED
  BY <1>1, <1>2 DEF SameKey, SameShape

\* A record whose key and shape agree with a message was begun by one of its
\* twins.
LEMMA TwinOfFounder ==
  ASSUME kind \in Kinds, NEW n \in Messages[kind], NEW m \in Messages[kind],
         NEW e \in EntriesOf(n), SameKey(kind, e, m), SameShape(kind, e, m)
  PROVE  m \in Twins(n)
  BY EntryFacts DEF Twins, SameKey, SameShape

\* Twins have the same header.
LEMMA TwinFacts ==
  ASSUME kind \in Kinds, NEW n \in Messages[kind], NEW m \in Twins(n)
  PROVE  /\ m \in Messages[kind] /\ m.count = n.count
         /\ m.source = n.source /\ m.id = n.id /\ m.type = n.type
<1>1. m \in Messages[kind] /\ SameKey(kind, n, m) /\ SameShape(kind, n, m)
  BY DEF Twins
<1>2. kind = "Event" => m.type = "event" /\ n.type = "event"
  BY <1>1, MessageFacts
<1> QED
  BY <1>1, <1>2 DEF SameKey, SameShape

\* A message is its own twin.
LEMMA OwnTwin ==
  ASSUME NEW m \in Messages[kind]
  PROVE  m \in Twins(m)
  BY DEF Twins, SameKey, SameShape

\* A new record is one of its message and has no part yet.
LEMMA NewEntryFacts ==
  ASSUME kind \in Kinds, NEW m \in Messages[kind]
  PROVE  NewEntry(m) \in EntriesOf(m) /\ Agrees(NewEntry(m), m)
<1> DEFINE p == [i \in 0 .. m.count - 1 |-> None]
<1>1. 0 \in 0 .. ReassemblyTimeout + 1
  OBVIOUS
<1>2. p \in [0 .. m.count - 1 -> AllParts] /\ \A i \in 0 .. m.count - 1 : p[i] = None
  BY DEF AllParts
<1>3. NewEntry(m).parts = p
  BY DEF NewEntry
<1>4. Agrees(NewEntry(m), m)
  BY <1>2, <1>3 DEF Agrees
<1> HIDE DEF p
<1>5. NewEntry(m) = [state |-> "partial", source |-> m.source, id |-> m.id, type |-> m.type,
                     count |-> m.count, length |-> m.length, age |-> 0, disputed |-> FALSE,
                     parts |-> p]
  BY DEF NewEntry, p
<1> DEFINE e == [state |-> "partial", source |-> m.source, id |-> m.id, type |-> m.type,
                 count |-> m.count, length |-> m.length, age |-> 0, disputed |-> FALSE,
                 parts |-> p]
<1>6. /\ e \in [state : {"partial"}, source : {m.source}, id : {m.id}, type : {m.type},
               count : {m.count}, length : {m.length}, age : 0 .. ReassemblyTimeout + 1,
               disputed : BOOLEAN, parts : [0 .. m.count - 1 -> AllParts]]
      /\ e.parts = p
  BY <1>1, <1>2
<1> HIDE DEF e
<1>7. e \in EntriesOf(m)
  BY <1>2, <1>6 DEF EntriesOf
<1> QED
  BY <1>4, <1>5, <1>7 DEF e

\* A fragment adds its part to the record and takes none away.
LEMMA StoredFacts ==
  ASSUME kind \in Kinds, NEW n \in Messages[kind], NEW m \in Twins(n), NEW e \in EntriesOf(n),
         NEW i \in 0 .. m.count - 1
  PROVE  LET f == Stored(e, m, i)
         IN  /\ f \in EntriesOf(n) /\ f.age = 0 /\ f.parts[i] # None
             /\ \A j \in 0 .. m.count - 1 : e.parts[j] # None => f.parts[j] # None
             /\ Agrees(e, m) => Agrees(f, m)
<1> DEFINE p == [e.parts EXCEPT ![i] = IF @ = None THEN m.parts[i] ELSE @]
           b == e.disputed \/ (kind = "Command" /\ e.parts[i] \notin {None, m.parts[i]})
           f == [e EXCEPT !.age = 0, !.disputed = b, !.parts = p]
<1>1. Stored(e, m, i) = f
  BY DEF Stored
<1>2. /\ m \in Messages[kind] /\ m.count = n.count /\ i \in 0 .. n.count - 1
      /\ e.parts \in [0 .. n.count - 1 -> AllParts]
      /\ m.parts[i] # None /\ m.parts[i] \in AllParts
      /\ \A j \in 0 .. n.count - 1 :
           e.parts[j] # None => \E q \in Twins(n) : e.parts[j] = q.parts[j]
  <2>1. m \in Messages[kind] /\ m.count = n.count
    BY TwinFacts
  <2> QED
    BY <2>1, EntryFacts, MessageFacts
<1>3. /\ p \in [0 .. n.count - 1 -> AllParts]
      /\ \A j \in 0 .. n.count - 1 : j # i => p[j] = e.parts[j]
      /\ p[i] = IF e.parts[i] = None THEN m.parts[i] ELSE e.parts[i]
  BY <1>2
<1>4. b \in BOOLEAN
  OBVIOUS
<1> HIDE DEF p, b
<1>5. 0 \in 0 .. ReassemblyTimeout + 1
  OBVIOUS
<1>6. \A j \in 0 .. n.count - 1 : p[j] # None => \E q \in Twins(n) : p[j] = q.parts[j]
  BY <1>2, <1>3
<1>7. /\ p[i] # None
      /\ \A j \in 0 .. m.count - 1 : e.parts[j] # None => p[j] # None
  BY <1>2, <1>3
<1>8. f \in EntriesOf(n) /\ f.age = 0 /\ f.parts = p
  BY <1>3, <1>4, <1>5, <1>6 DEF EntriesOf
<1>9. Agrees(e, m) => \A j \in 0 .. m.count - 1 : p[j] \in {None, m.parts[j]}
  BY <1>2, <1>3 DEF Agrees
<1> HIDE DEF f
<1> QED
  BY <1>1, <1>7, <1>8, <1>9 DEF Agrees

\* A complete record that holds m's parts only holds the whole of m; in any case
\* what it holds belongs together.
LEMMA CompleteFacts ==
  ASSUME kind \in Kinds, NEW n \in Messages[kind], NEW m \in Twins(n), NEW f \in EntriesOf(n),
         IsComplete(f)
  PROVE  LET c == [source |-> m.source, id |-> m.id, type |-> n.type, parts |-> f.parts]
         IN  /\ c # Nothing
             /\ Agrees(f, m) => c = Whole(m)
             /\ c.source = n.source /\ c.id = n.id /\ c.type = n.type
             /\ DOMAIN c.parts = 0 .. n.count - 1
             /\ \A i \in 0 .. n.count - 1 : \E q \in Twins(n) : c.parts[i] = q.parts[i]
             /\ Twins(n) = {n} => c = Whole(n)
<1> DEFINE c == [source |-> m.source, id |-> m.id, type |-> n.type, parts |-> f.parts]
<1>1. /\ m \in Messages[kind] /\ m.count = n.count
      /\ m.source = n.source /\ m.id = n.id /\ m.type = n.type
  BY TwinFacts
<1>2. /\ n.count \in Nat /\ n.count > 0
      /\ m.parts = [i \in 0 .. n.count - 1 |-> m.parts[i]]
      /\ n.parts = [i \in 0 .. n.count - 1 |-> n.parts[i]]
  BY <1>1, MessageFacts
<1>3. /\ f.parts = [i \in 0 .. n.count - 1 |-> f.parts[i]] /\ DOMAIN f.parts = 0 .. n.count - 1
      /\ \A i \in 0 .. n.count - 1 :
           f.parts[i] # None /\ \E q \in Twins(n) : f.parts[i] = q.parts[i]
  BY EntryFacts DEF IsComplete
<1>4. c # Nothing
  <2>1. 0 \in DOMAIN c.parts /\ 0 \notin DOMAIN Nothing.parts
    BY <1>2, <1>3 DEF Nothing
  <2> QED
    BY <2>1
<1>5. Agrees(f, m) => f.parts = m.parts
  <2> SUFFICES ASSUME Agrees(f, m) PROVE f.parts = m.parts
    OBVIOUS
  <2>1. \A i \in 0 .. n.count - 1 : f.parts[i] = m.parts[i]
    BY <1>1, <1>3 DEF Agrees
  <2> QED
    BY <1>2, <1>3, <2>1
<1>6. Twins(n) = {n} => f.parts = n.parts
  <2> SUFFICES ASSUME Twins(n) = {n} PROVE f.parts = n.parts
    OBVIOUS
  <2>1. \A i \in 0 .. n.count - 1 : f.parts[i] = n.parts[i]
    BY <1>3
  <2> QED
    BY <1>2, <1>3, <2>1
<1> QED
  BY <1>1, <1>3, <1>4, <1>5, <1>6 DEF Whole

-----------------------------------------------------------------------------
(* What a received fragment may do to the table, to what is handed on and   *)
(* to the streak, whichever reassembler it is.                              *)

\* The fragment goes on with the streak ...
Follows(m, i) == i > 0 /\ streak.next = i /\ streak.msg = m

\* ... of a message that is due and not handed on yet.
Continues(m, i) == Follows(m, i) /\ streak.due /\ ~streak.done

\* The streak after a fragment.
LEMMA StreakStep ==
  ASSUME Inv, NEW m \in Messages[kind], NEW i \in 0 .. m.count - 1,
         NEW completed, ContinueStreak(m, i, completed), kind' = kind
  PROVE  /\ streak' \in {NoStreak} \cup Streak
         /\ streak'.next > 0 =>
              /\ streak' \in Streak /\ streak'.msg = m /\ streak'.next = i + 1
              /\ i = 0 \/ Follows(m, i)
              /\ streak'.due /\ ~streak'.done =>
                   /\ completed # Whole(m)
                   /\ (i = 0 /\ Due(m)) \/ Continues(m, i)
<1> DEFINE d == completed = Whole(m)
           a == Due(m)
<1>0. /\ streak \in {NoStreak} \cup Streak /\ i \in Nat /\ NoStreak.next = 0 /\ d \in BOOLEAN
      /\ Streak' = Streak
  BY MessageFacts DEF Inv, StreakControl, NoStreak, Streak
<1>a. a \in BOOLEAN
  BY DEF Due
<1>1. CASE i = 0
  <2> DEFINE n == [next |-> 1, msg |-> m, due |-> a, done |-> d]
  <2>1. streak' = n
    BY <1>1 DEF ContinueStreak
  <2> HIDE DEF d, a
  <2>2. n \in Streak /\ n.next = 1 /\ n.msg = m /\ n.due = a /\ n.done = d
    BY <1>0, <1>a DEF Streak
  <2> HIDE DEF n
  <2>3. streak' \in Streak /\ streak'.next = 1 /\ streak'.msg = m
        /\ (streak'.due /\ ~streak'.done => a /\ ~d)
    BY <2>1, <2>2
  <2>4. streak'.due /\ ~streak'.done => completed # Whole(m) /\ Due(m)
    BY <2>3 DEF d, a
  <2> QED
    BY <1>0, <1>1, <2>3, <2>4
<1>2. CASE i # 0 /\ streak.next = i /\ streak.msg = m
  <2>0. streak \in Streak
    BY <1>0, <1>2
  <2>1. PICK w \in BOOLEAN : w = (streak.done \/ completed = Whole(m))
    OBVIOUS
  <2>2. streak' = [streak EXCEPT !.next = i + 1, !.done = w]
    BY <1>2, <2>1 DEF ContinueStreak
  <2>3. i + 1 \in Nat
    BY <1>0
  <2>4. /\ streak' \in Streak /\ streak'.next = i + 1 /\ streak'.msg = streak.msg
        /\ streak'.due = streak.due /\ streak'.done = w
    BY <2>0, <2>2, <2>3 DEF Streak
  <2>5. ~streak'.done => ~streak.done /\ completed # Whole(m)
    BY <2>1, <2>4
  <2>6. Follows(m, i)
    BY <1>0, <1>2 DEF Follows
  <2> HIDE DEF a, d
  <2> QED
    BY <1>0, <1>2, <2>4, <2>5, <2>6 DEF Continues
<1>3. CASE i # 0 /\ ~(streak.next = i /\ streak.msg = m)
  BY <1>0, <1>3 DEF ContinueStreak
<1> QED
  BY <1>1, <1>2, <1>3

\* The fragment is stored in slot s, in the record e that a twin n began; other
\* slots lose their record or keep it, and none of them has a record of m's key.
LEMMA FillInv ==
  ASSUME Inv, NEW m \in Messages[kind], NEW i \in 0 .. m.count - 1,
         NEW n \in Messages[kind], m \in Twins(n),
         NEW s \in Slots, NEW e \in EntriesOf(n), NEW t,
         DOMAIN t = Slots,
         \A r \in Slots : t[r] \in {Empty, table[r]},
         \A r \in Slots \ {s} : t[r] # Empty => ~SameKey(kind, t[r], m),
         i = 0 /\ Due(m) => Agrees(e, m),
         Continues(m, i) => Agrees(e, m) /\ HoldsTo(e, i),
         Follows(m, i) => Agrees(e, m) \/ HoldsTo(e, i),
         Fill(t, s, e, m, i), cursor' \in 0 .. MaximumReassemblies - 1
  PROVE  Inv'
<1> DEFINE f == Stored(e, m, i)
           joined == [source |-> m.source, id |-> m.id, type |-> e.type, parts |-> f.parts]
           done == IF IsComplete(f) THEN joined ELSE Nothing
<1>0. /\ table' = [t EXCEPT ![s] = IF done = Nothing THEN f ELSE Empty]
      /\ out' = IF done = Nothing THEN out ELSE done
      /\ ContinueStreak(m, i, done) /\ kind' = kind
  BY DEF Fill, HandOn
<1>k. kind \in Kinds /\ m.count \in Nat /\ m.count = n.count /\ i \in Nat
  <2>1. kind \in Kinds
    BY DEF Inv
  <2>2. m.count \in Nat
    BY <2>1, MessageFacts
  <2>3. m.count = n.count
    BY <2>1, TwinFacts
  <2> QED
    BY <2>1, <2>2, <2>3
<1>1. /\ f \in EntriesOf(n) /\ f.age = 0 /\ f.parts[i] # None
      /\ \A j \in 0 .. m.count - 1 : e.parts[j] # None => f.parts[j] # None
      /\ Agrees(e, m) => Agrees(f, m)
  BY <1>k, StoredFacts
<1>2. e.type = n.type /\ SameKey(kind, f, m) /\ SameShape(kind, f, m) /\ f # Empty
  <2>1. SameKey(kind, n, m) /\ SameShape(kind, n, m)
    BY DEF Twins
  <2> HIDE DEF f
  <2> QED
    BY <1>1, <2>1, EntryFacts DEF SameKey, SameShape
<1> HIDE DEF f
<1>3. IsComplete(f) =>
        /\ joined # Nothing
        /\ Agrees(f, m) => joined = Whole(m)
        /\ joined.source = n.source /\ joined.id = n.id /\ joined.type = n.type
        /\ DOMAIN joined.parts = 0 .. n.count - 1
        /\ \A j \in 0 .. n.count - 1 : \E q \in Twins(n) : joined.parts[j] = q.parts[j]
        /\ Twins(n) = {n} => joined = Whole(n)
  BY <1>k, <1>1, <1>2, CompleteFacts
<1> HIDE DEF joined
<1>3a. /\ done = Nothing => ~IsComplete(f)
       /\ done # Nothing => IsComplete(f) /\ done = joined
  BY <1>3
<1> HIDE DEF done
<1>4. /\ DOMAIN table' = Slots
      /\ \A r \in Slots \ {s} : table'[r] \in {Empty, table[r]} /\ table'[r] = t[r]
      /\ table'[s] = IF done = Nothing THEN f ELSE Empty
      /\ table' = [r \in Slots |-> table'[r]]
  BY <1>0
<1>5. TableControl'
  <2>1. \A r \in Slots : table'[r] \in {Empty} \cup UNION {EntriesOf(q) : q \in Messages[kind]}
    BY <1>1, <1>4 DEF Inv, TableControl
  <2>2. table' \in [Slots -> {Empty} \cup UNION {EntriesOf(q) : q \in Messages[kind]}]
    BY <1>4, <2>1
  <2>3. i \in DOMAIN f.parts
    BY <1>1, <1>k, EntryFacts
  <2>4. \A r \in Slots : table'[r] # Empty =>
          ~IsComplete(table'[r]) /\ \E j \in DOMAIN table'[r].parts : table'[r].parts[j] # None
    BY <1>1, <1>3a, <1>4, <2>3 DEF Inv, TableControl
  <2>5. (UNION {EntriesOf(q) : q \in Messages[kind]})' = UNION {EntriesOf(q) : q \in Messages[kind]}
    BY <1>0 DEF EntriesOf, AllParts, Twins
  <2> QED
    BY <1>0, <2>2, <2>4, <2>5 DEF TableControl, IsComplete
<1>6. KeyControl'
  <2>1. ASSUME NEW r \in Slots, NEW q \in Slots, table'[r] # Empty, table'[q] # Empty,
               SameKey(kind, table'[r], table'[q]), r # q
        PROVE  FALSE
    <3>1. CASE r # s /\ q # s
      BY <1>4, <2>1, <3>1 DEF Inv, KeyControl
    <3>2. CASE r = s \/ q = s
      <4>1. \A x \in Slots : x # s /\ table'[x] # Empty => ~SameKey(kind, table'[x], m)
        BY <1>4
      <4> QED
        BY <1>2, <1>4, <2>1, <3>2, <4>1 DEF SameKey
    <3> QED
      BY <3>1, <3>2
  <2> QED
    BY <1>0, <2>1 DEF KeyControl, SameKey
<1>7. StreakControl'
  <2>1. /\ streak' \in {NoStreak} \cup Streak
        /\ streak'.next > 0 =>
              /\ streak' \in Streak /\ streak'.msg = m /\ streak'.next = i + 1
              /\ i = 0 \/ Follows(m, i)
              /\ streak'.due /\ ~streak'.done =>
                   done # Whole(m) /\ ((i = 0 /\ Due(m)) \/ Continues(m, i))
    BY <1>0, StreakStep
  <2>2. \A j \in 0 .. i : j = i \/ (j \in 0 .. i - 1 /\ j \in 0 .. m.count - 1 /\ i # 0)
    BY <1>k
  <2>3. i = 0 \/ HoldsTo(e, i) => HoldsTo(f, i + 1)
    <3>1. 0 .. (i + 1) - 1 = 0 .. i
      BY <1>k
    <3> QED
      BY <1>1, <2>2, <3>1 DEF HoldsTo
  <2>4. ASSUME streak'.next > 0, streak'.due, ~streak'.done
        PROVE  OwnRecord(s, streak.msg, streak.next)'
    <3>1. Agrees(f, m) /\ HoldsTo(f, i + 1) /\ done # Whole(m)
      BY <1>1, <2>1, <2>3, <2>4
    <3>2. table'[s] = f
      BY <1>3, <1>3a, <1>4, <3>1
    <3> QED
      BY <1>0, <1>1, <1>2, <2>1, <2>4, <3>1, <3>2 DEF OwnRecord, Agrees, HoldsTo, SameKey, SameShape
  <2>5. ASSUME streak'.next > 0, NEW r \in Slots
        PROVE  NoObstacle(r, streak.msg, streak.next)'
    <3>0. streak'.msg = m /\ streak'.next = i + 1 /\ (i = 0 \/ Follows(m, i))
      BY <2>1, <2>5
    <3>1. CASE r # s
      <4>1. table'[r] # Empty => ~SameKey(kind, table'[r], m)
        BY <1>4, <3>1
      <4> QED
        BY <1>0, <3>0, <4>1 DEF NoObstacle, SameKey
    <3>2. CASE r = s
      <4>1. Agrees(f, m) \/ HoldsTo(f, i + 1)
        BY <1>1, <2>3, <3>0
      <4>2. table'[r] # Empty => table'[r] = f
        BY <1>4, <3>2
      <4> QED
        BY <1>0, <1>2, <3>0, <4>1, <4>2 DEF NoObstacle, Agrees, HoldsTo, SameShape
    <3> QED
      BY <3>1, <3>2
  <2>6. Streak' = Streak /\ Slots' = Slots /\ NoStreak' = NoStreak
    BY <1>0 DEF Streak, Slots, NoStreak
  <2> QED
    BY <2>1, <2>4, <2>5, <2>6 DEF StreakControl
<1>8. PartsBelongTogether'
  <2>1. CASE done = Nothing
    BY <1>0, <2>1 DEF Inv, PartsBelongTogether, Whole, Nothing, Twins
  <2>2. CASE done # Nothing
    <3>1. out' = joined
      BY <1>0, <1>3a, <2>2
    <3>2. /\ out'.source = n.source /\ out'.id = n.id /\ out'.type = n.type
          /\ DOMAIN out'.parts = 0 .. n.count - 1
          /\ \A j \in 0 .. n.count - 1 : \E q \in Twins(n) : out'.parts[j] = q.parts[j]
          /\ Twins(n) = {n} => out' = Whole(n)
      BY <1>3, <1>3a, <2>2, <3>1
    <3>3. Twins(n)' = Twins(n) /\ Whole(n)' = Whole(n)
      BY <1>0 DEF Twins, Whole
    <3> QED
      BY <1>0, <3>2, <3>3 DEF PartsBelongTogether
  <2> QED
    BY <2>1, <2>2
<1> QED
  BY <1>0, <1>5, <1>6, <1>7, <1>8 DEF Inv

\* Records are dropped.
LEMMA KeepInv ==
  ASSUME Inv, UNCHANGED <<kind, out>>, cursor' \in 0 .. MaximumReassemblies - 1,
         table' = [r \in Slots |-> table'[r]],
         \A r \in Slots : table'[r] \in {Empty, table[r]},
         StreakControl'
  PROVE  Inv'
<1>1. TableControl'
  <2>1. table' \in [Slots -> {Empty} \cup UNION {EntriesOf(m) : m \in Messages[kind]}]
    BY DEF Inv, TableControl
  <2>2. (UNION {EntriesOf(q) : q \in Messages[kind]})' = UNION {EntriesOf(q) : q \in Messages[kind]}
    BY DEF EntriesOf, AllParts, Twins
  <2> QED
    BY <2>1, <2>2 DEF Inv, TableControl, IsComplete
<1>2. KeyControl'
  BY DEF Inv, KeyControl, SameKey
<1>3. PartsBelongTogether'
  BY DEF Inv, PartsBelongTogether, Whole, Twins
<1> QED
  BY <1>1, <1>2, <1>3 DEF Inv

\* A fragment that is dropped goes on with no streak of a message that is due,
\* and leaves no record of its key but one of another shape.
LEMMA DropInv ==
  ASSUME Inv, NEW m \in Messages[kind], NEW i \in 0 .. m.count - 1, NEW gone,
         Drop(m, i, gone), ~Continues(m, i), i = 0 => ~Due(m),
         \A r \in Slots : r \notin gone /\ table[r] # Empty /\ SameKey(kind, table[r], m) =>
           kind = "Command" /\ ~SameShape(kind, table[r], m)
  PROVE  Inv'
<1>1. /\ table' = [s \in Slots |-> IF s \in gone THEN Empty ELSE table[s]]
      /\ ContinueStreak(m, i, Nothing) /\ UNCHANGED <<kind, cursor, out>>
  BY DEF Drop
<1>2. /\ streak' \in {NoStreak} \cup Streak
      /\ streak'.next > 0 => streak' \in Streak /\ streak'.msg = m
      /\ ~(streak'.next > 0 /\ streak'.due /\ ~streak'.done)
  BY <1>1, StreakStep
<1>3. cursor' \in 0 .. MaximumReassemblies - 1
  BY <1>1 DEF Inv
<1>4. ASSUME NEW r \in Slots, streak'.next > 0
      PROVE  NoObstacle(r, streak.msg, streak.next)'
  <2>1. streak'.msg = m /\ kind' = kind
    BY <1>1, <1>2, <1>4
  <2>2. table'[r] # Empty => table'[r] = table[r] /\ r \notin gone
    BY <1>1
  <2> QED
    BY <2>1, <2>2 DEF NoObstacle, SameKey, SameShape
<1>5. StreakControl'
  <2>1. Streak' = Streak /\ NoStreak' = NoStreak /\ Slots' = Slots
    BY <1>1 DEF Streak, NoStreak, Slots
  <2> QED
    BY <1>2, <1>4, <2>1 DEF StreakControl
<1> QED
  BY <1>1, <1>3, <1>5, KeepInv

\* Shutdown and Initialize empty the table.
LEMMA RestartInv ==
  ASSUME Inv, Restart
  PROVE  Inv'
<1>1. StreakControl'
  BY DEF Restart, StreakControl, NoStreak
<1>2. 0 \in 0 .. MaximumReassemblies - 1
  OBVIOUS
<1> QED
  BY <1>1, <1>2, KeepInv DEF Restart

\* A streak has lasted no time: its record does not expire.
LEMMA UpdateInv ==
  ASSUME Inv, UpdateCommand
  PROVE  Inv'
<1>1. /\ table' = [s \in Slots |-> IF s \notin FreeSlots /\ table[s].age >= ReassemblyTimeout
                                     THEN Empty ELSE table[s]]
      /\ UNCHANGED <<kind, cursor, out, streak>>
  BY DEF UpdateCommand
<1>2. \A r \in Slots : /\ table'[r] \in {Empty, table[r]}
                       /\ table[r] # Empty /\ table[r].age = 0 => table'[r] = table[r]
  BY <1>1
<1>3. StreakControl'
  <2>1. ASSUME streak.next > 0, streak.due, ~streak.done
        PROVE  \E s \in Slots : OwnRecord(s, streak.msg, streak.next)'
    <3>1. PICK s \in Slots : OwnRecord(s, streak.msg, streak.next)
      BY <2>1 DEF Inv, StreakControl
    <3>2. table'[s] = table[s] /\ kind' = kind /\ streak' = streak
      BY <1>1, <1>2, <3>1 DEF OwnRecord
    <3> QED
      BY <3>1, <3>2 DEF OwnRecord, Agrees, HoldsTo, SameKey, SameShape
  <2>2. ASSUME streak.next > 0, streak.msg.count # 1, NEW s \in Slots
        PROVE  NoObstacle(s, streak.msg, streak.next)'
    <3>1. NoObstacle(s, streak.msg, streak.next)
      BY <2>2 DEF Inv, StreakControl
    <3> QED
      BY <1>1, <1>2, <3>1 DEF NoObstacle, Agrees, HoldsTo, SameKey, SameShape
  <2>3. Streak' = Streak /\ NoStreak' = NoStreak /\ Slots' = Slots /\ streak' = streak
    BY <1>1 DEF Streak, NoStreak, Slots
  <2> QED
    BY <2>1, <2>2, <2>3 DEF Inv, StreakControl
<1>4. cursor' \in 0 .. MaximumReassemblies - 1
  BY <1>1 DEF Inv
<1> QED
  BY <1>1, <1>2, <1>3, <1>4, KeepInv

\* Records grow older, and no streak outlasts it.
LEMMA TickInv ==
  ASSUME Inv, Tick
  PROVE  Inv'
<1> DEFINE Aged(s) == table[s] # Empty /\ table[s].age =< ReassemblyTimeout
<1>0. /\ table' = [s \in Slots |-> IF Aged(s) THEN [table[s] EXCEPT !.age = @ + 1] ELSE table[s]]
      /\ streak' = NoStreak /\ UNCHANGED <<kind, cursor, out>>
  BY DEF Tick
<1>1. ASSUME NEW s \in Slots, Aged(s)
      PROVE  /\ table'[s] # Empty
             /\ \E m \in Messages[kind] : table[s] \in EntriesOf(m) /\ table'[s] \in EntriesOf(m)
             /\ table'[s].parts = table[s].parts
  <2>1. PICK m \in Messages[kind] : table[s] \in EntriesOf(m)
    BY <1>1 DEF Inv, TableControl
  <2>2. table'[s] = [table[s] EXCEPT !.age = table[s].age + 1]
    BY <1>0, <1>1
  <2>3. table[s].age + 1 \in 0 .. ReassemblyTimeout + 1
    BY <1>1, <2>1, EntryFacts
  <2>4. table'[s] \in EntriesOf(m) /\ table'[s].parts = table[s].parts
    BY <2>1, <2>2, <2>3 DEF EntriesOf
  <2>5. table'[s] # Empty
    BY <2>4, EntryFacts
  <2> QED
    BY <2>1, <2>4, <2>5
<1>2. \A s \in Slots : ~Aged(s) => table'[s] = table[s]
  BY <1>0
<1> HIDE DEF Aged
<1>3. TableControl'
  <2>1. \A s \in Slots : table'[s] \in {Empty} \cup UNION {EntriesOf(m) : m \in Messages[kind]}
    BY <1>1, <1>2 DEF Inv, TableControl
  <2>2. table' \in [Slots -> {Empty} \cup UNION {EntriesOf(m) : m \in Messages[kind]}]
    BY <1>0, <2>1
  <2>3. \A s \in Slots : table'[s] # Empty => table[s] # Empty /\ table'[s].parts = table[s].parts
    BY <1>1, <1>2 DEF Aged
  <2>4. (UNION {EntriesOf(q) : q \in Messages[kind]})' = UNION {EntriesOf(q) : q \in Messages[kind]}
    BY <1>0 DEF EntriesOf, AllParts, Twins
  <2> QED
    BY <1>0, <2>2, <2>3, <2>4 DEF Inv, TableControl, IsComplete
<1>4. KeyControl'
  <2>1. \A s \in Slots : table'[s] # Empty =>
          /\ table[s] # Empty /\ table'[s].source = table[s].source
          /\ table'[s].id = table[s].id /\ table'[s].type = table[s].type
    BY <1>1, <1>2, EntryFacts DEF Aged
  <2> QED
    BY <1>0, <2>1 DEF Inv, KeyControl, SameKey
<1>5. StreakControl'
  BY <1>0 DEF StreakControl, NoStreak
<1>6. PartsBelongTogether'
  BY <1>0 DEF Inv, PartsBelongTogether, Whole, Twins
<1> QED
  BY <1>0, <1>3, <1>4, <1>5, <1>6 DEF Inv

-----------------------------------------------------------------------------
(* Where the reassemblers put a fragment.                                   *)

\* A message has one record at the most; one of the same shape was begun by a
\* twin.
LEMMA FindFacts ==
  ASSUME Inv, NEW m \in Messages[kind], NEW s \in Find(m)
  PROVE  /\ s \in Slots /\ table[s] # Empty /\ SameKey(kind, table[s], m)
         /\ \A r \in Slots \ {s} : table[r] # Empty => ~SameKey(kind, table[r], m)
         /\ SameShape(kind, table[s], m) =>
              \E n \in Messages[kind] : table[s] \in EntriesOf(n) /\ m \in Twins(n)
<1>1. s \in Slots /\ table[s] # Empty /\ SameKey(kind, table[s], m)
  BY DEF Find, FreeSlots
<1>2. \A r \in Slots \ {s} : table[r] # Empty => ~SameKey(kind, table[r], m)
  BY <1>1 DEF Inv, KeyControl, SameKey
<1>3. PICK n \in Messages[kind] : table[s] \in EntriesOf(n)
  BY <1>1 DEF Inv, TableControl
<1>4. SameShape(kind, table[s], m) => m \in Twins(n)
  BY <1>1, <1>3, TwinOfFounder DEF Inv
<1> QED
  BY <1>1, <1>2, <1>3, <1>4

\* The streak of a message that is due has the record it goes on with.
LEMMA ContinuesFind ==
  ASSUME Inv, NEW m \in Messages[kind], NEW i \in 0 .. m.count - 1, Continues(m, i)
  PROVE  \E s \in Find(m) :
           /\ table[s].age = 0 /\ SameShape(kind, table[s], m)
           /\ Agrees(table[s], m) /\ HoldsTo(table[s], i)
<1>1. PICK s \in Slots : OwnRecord(s, m, i)
  BY DEF Inv, StreakControl, Continues, Follows
<1>2. s \in Find(m)
  BY <1>1 DEF Find, FreeSlots, OwnRecord
<1> QED
  BY <1>1, <1>2 DEF OwnRecord

\* A record of m's shape has all parts up to m's last one only when complete.
LEMMA NotAllParts ==
  ASSUME Inv, NEW m \in Messages[kind], NEW s \in Find(m), SameShape(kind, table[s], m)
  PROVE  ~HoldsTo(table[s], m.count)
<1>1. PICK n \in Messages[kind] : table[s] \in EntriesOf(n) /\ m \in Twins(n)
  BY FindFacts
<1>2. DOMAIN table[s].parts = 0 .. m.count - 1
  BY <1>1, EntryFacts, TwinFacts DEF Inv
<1>3. s \in Slots /\ table[s] # Empty
  BY FindFacts
<1> QED
  BY <1>2, <1>3 DEF Inv, TableControl, IsComplete, HoldsTo

\* What the record of m's key and shape holds when a fragment of m comes.
LEMMA RecordFacts ==
  ASSUME Inv, NEW m \in Messages[kind], NEW i \in 0 .. m.count - 1,
         NEW s \in Find(m), SameShape(kind, table[s], m), kind = "Event" => ~Expired(s)
  PROVE  /\ i = 0 /\ Due(m) => Agrees(table[s], m)
         /\ Continues(m, i) => Agrees(table[s], m) /\ HoldsTo(table[s], i)
         /\ Follows(m, i) => Agrees(table[s], m) \/ HoldsTo(table[s], i)
<1>0. /\ m.count \in Nat /\ m.count > 0 /\ i \in Nat
      /\ s \in Slots /\ table[s] # Empty /\ SameKey(kind, table[s], m)
  <2>1. m.count \in Nat /\ m.count > 0
    BY MessageFacts DEF Inv
  <2>2. s \in Slots /\ table[s] # Empty /\ SameKey(kind, table[s], m)
    BY FindFacts
  <2> QED
    BY <2>1, <2>2
<1>1. ASSUME Due(m) PROVE Agrees(table[s], m)
  <2>1. CASE m.count = 1
    <3>1. PICK n \in Messages[kind] : table[s] \in EntriesOf(n) /\ m \in Twins(n)
      BY FindFacts
    <3>2. DOMAIN table[s].parts = 0 .. 0 /\ \E j \in DOMAIN table[s].parts : table[s].parts[j] # None
      BY <1>0, <2>1, <3>1, EntryFacts, TwinFacts DEF Inv, TableControl
    <3>3. HoldsTo(table[s], m.count)
      BY <2>1, <3>2 DEF HoldsTo
    <3> QED
      BY <3>3, NotAllParts
  <2>2. CASE m.count # 1 /\ Again(m)
    <3>1. NoObstacle(s, m, m.count)
      BY <1>0, <2>2 DEF Again, Inv, StreakControl
    <3> QED
      BY <1>0, <3>1, NotAllParts DEF NoObstacle
  <2>3. CASE Yields(s, m)
    BY <2>3 DEF Yields, Agrees
  <2> QED
    BY <1>1, <2>1, <2>2, <2>3 DEF Due
<1>2. ASSUME Continues(m, i) PROVE Agrees(table[s], m) /\ HoldsTo(table[s], i)
  <2>1. \A r \in Find(m) : r = s
    BY FindFacts
  <2> QED
    BY <1>2, <2>1, ContinuesFind
<1>3. ASSUME Follows(m, i) PROVE Agrees(table[s], m) \/ HoldsTo(table[s], i)
  <2>1. NoObstacle(s, m, i)
    BY <1>0, <1>3 DEF Follows, Inv, StreakControl
  <2> QED
    BY <1>0, <2>1 DEF NoObstacle
<1> QED
  BY <1>1, <1>2, <1>3

\* A message of one fragment.
LEMMA SingleInv ==
  ASSUME Inv, NEW m \in Messages[kind], HandOnSingle(m)
  PROVE  Inv'
<1>0. /\ m.count = 1 /\ out' = IF Whole(m) = Nothing THEN out ELSE Whole(m)
      /\ ContinueStreak(m, 0, Whole(m)) /\ UNCHANGED <<kind, table, cursor>>
  BY DEF HandOnSingle, HandOn
<1>1. /\ streak' \in {NoStreak} \cup Streak
      /\ streak'.next > 0 => streak' \in Streak /\ streak'.msg = m
      /\ ~(streak'.next > 0 /\ streak'.due /\ ~streak'.done)
  <2>1. 0 \in 0 .. m.count - 1
    BY <1>0
  <2> QED
    BY <1>0, <2>1, StreakStep
<1>2. StreakControl'
  <2>1. NoStreak' = NoStreak /\ Streak' = Streak
    BY <1>0 DEF NoStreak, Streak
  <2> QED
    BY <1>0, <1>1, <2>1 DEF StreakControl
<1>3. PartsBelongTogether'
  <2>0. Twins(m)' = Twins(m) /\ Whole(m)' = Whole(m)
    BY <1>0 DEF Twins, Whole
  <2>1. CASE Whole(m) = Nothing
    BY <1>0, <2>1 DEF Inv, PartsBelongTogether, Whole, Twins
  <2>2. CASE Whole(m) # Nothing
    <3>1. /\ out' = Whole(m) /\ m \in Twins(m) /\ kind' = kind
          /\ DOMAIN m.parts = 0 .. m.count - 1
      BY <1>0, <2>2, OwnTwin, MessageFacts DEF Inv
    <3> QED
      BY <2>0, <3>1 DEF PartsBelongTogether, Whole
  <2> QED
    BY <2>1, <2>2
<1>4. TableControl' /\ KeyControl'
  BY <1>0 DEF Inv, TableControl, KeyControl, EntriesOf, AllParts, Twins, IsComplete, SameKey
<1> QED
  BY <1>0, <1>2, <1>3, <1>4 DEF Inv

\* A free slot, when there is one.
LEMMA FirstFreeFacts ==
  ASSUME FreeSlots # {}
  PROVE  FirstFree \in Slots /\ table[FirstFree] = Empty
<1>1. FreeSlots \subseteq Nat
  BY DEF FreeSlots, Slots
<1>2. \E s \in FreeSlots : \A r \in FreeSlots : s =< r
  BY <1>1, LeastElement
<1> QED
  BY <1>2 DEF FirstFree, FreeSlots

\* ESPNowCommandEndpoint::Receive.
LEMMA CommandInv ==
  ASSUME Inv, NEW m \in Messages[kind], NEW i \in 0 .. m.count - 1, kind = "Command",
         ReceiveCommand(m, i)
  PROVE  Inv'
<1>0. table = [r \in Slots |-> table[r]] /\ DOMAIN table = Slots
  BY DEF Inv, TableControl
<1>1. CASE ReceiveCommandFirst(m, i)
  <2>1. /\ FirstFree \in Slots /\ m \in Twins(m)
        /\ NewEntry(m) \in EntriesOf(m) /\ Agrees(NewEntry(m), m)
    BY <1>1, FirstFreeFacts, NewEntryFacts, OwnTwin DEF ReceiveCommandFirst, Inv
  <2>2. ~Continues(m, i)
    BY <1>1, ContinuesFind DEF ReceiveCommandFirst
  <2>3. \A r \in Slots : table[r] # Empty => ~SameKey(kind, table[r], m)
    BY <1>1 DEF ReceiveCommandFirst, Find, FreeSlots
  <2>4. Fill(table, FirstFree, NewEntry(m), m, i) /\ cursor' \in 0 .. MaximumReassemblies - 1
    BY <1>1 DEF ReceiveCommandFirst, Inv
  <2> QED
    BY <1>0, <2>1, <2>2, <2>3, <2>4, FillInv
<1>2. CASE ReceiveCommandRefused(m, i)
  <2>1. ~Due(m)
    BY <1>2 DEF ReceiveCommandRefused, Due, Blocked
  <2>2. \A r \in Slots : table[r] # Empty => ~SameKey(kind, table[r], m)
    BY <1>2 DEF ReceiveCommandRefused, Find, FreeSlots
  <2>3. Drop(m, i, {}) /\ ~Continues(m, i)
    BY <1>2, ContinuesFind DEF ReceiveCommandRefused
  <2> QED
    BY <2>1, <2>2, <2>3, DropInv
<1>3. CASE ReceiveCommandNext(m, i)
  <2>1. PICK s \in Find(m) : IF SameShape(kind, table[s], m)
                               THEN Fill(table, s, table[s], m, i) /\ UNCHANGED cursor
                               ELSE Drop(m, i, {})
    BY <1>3 DEF ReceiveCommandNext
  <2>2. \A r \in Find(m) : r = s
    BY <2>1, FindFacts
  <2>3. CASE SameShape(kind, table[s], m)
    <3>1. /\ i = 0 /\ Due(m) => Agrees(table[s], m)
          /\ Continues(m, i) => Agrees(table[s], m) /\ HoldsTo(table[s], i)
          /\ Follows(m, i) => Agrees(table[s], m) \/ HoldsTo(table[s], i)
      BY <2>3, RecordFacts
    <3>2. /\ s \in Slots
          /\ \A r \in Slots \ {s} : table[r] # Empty => ~SameKey(kind, table[r], m)
          /\ \E n \in Messages[kind] : table[s] \in EntriesOf(n) /\ m \in Twins(n)
      BY <2>3, FindFacts
    <3>3. Fill(table, s, table[s], m, i) /\ cursor' \in 0 .. MaximumReassemblies - 1
      BY <2>1, <2>3 DEF Inv
    <3> QED
      BY <1>0, <3>1, <3>2, <3>3, FillInv
  <2>4. CASE ~SameShape(kind, table[s], m)
    <3>1. ~Due(m)
      BY <1>3, <2>4 DEF ReceiveCommandNext, Due, Blocked
    <3>2. \A r \in Slots : table[r] # Empty /\ SameKey(kind, table[r], m) => r = s
      BY FindFacts
    <3>3. Drop(m, i, {}) /\ ~Continues(m, i)
      BY <2>1, <2>2, <2>4, ContinuesFind
    <3> QED
      BY <2>4, <3>1, <3>2, <3>3, DropInv
  <2> QED
    BY <2>3, <2>4
<1> QED
  BY <1>1, <1>2, <1>3, SingleInv DEF ReceiveCommand

\* ESPNowEventTransport::HandleFrame makes room.
LEMMA EventFirstInv ==
  ASSUME Inv, NEW m \in Messages[kind], NEW i \in 0 .. m.count - 1, ReceiveEventFirst(m, i)
  PROVE  Inv'
<1> DEFINE live == {s \in Slots \ FreeSlots : ~Expired(s)}
<1>1. PICK gone \in EvictOldest(live) :
        LET k == [s \in Slots |-> IF s \in live \ gone THEN table[s] ELSE Empty]
            a == CHOOSE s \in Slots : k[s] = Empty /\ \A q \in 1 .. s - 1 : k[q] # Empty
        IN  Fill(k, a, NewEntry(m), m, i)
  BY DEF ReceiveEventFirst
<1> DEFINE kept == [s \in Slots |-> IF s \in live \ gone THEN table[s] ELSE Empty]
           at == CHOOSE s \in Slots : kept[s] = Empty /\ \A q \in 1 .. s - 1 : kept[q] # Empty
<1>2. Fill(kept, at, NewEntry(m), m, i) /\ Find(m) \cap live = {} /\ UNCHANGED cursor
  BY <1>1 DEF ReceiveEventFirst
<1>3. \E s \in Slots : s \notin live \ gone
  <2>0. live \subseteq Slots
    OBVIOUS
  <2> HIDE DEF live
  <2>1. CASE Cardinality(live) < MaximumReassemblies
    <3>1. Cardinality(Slots) = MaximumReassemblies
      BY FS_Interval DEF Slots
    <3>2. live # Slots
      BY <2>1, <3>1
    <3> QED
      BY <2>0, <3>2
  <2>2. CASE ~(Cardinality(live) < MaximumReassemblies)
    <3>1. \E s \in live : gone = {s}
      BY <2>2 DEF EvictOldest
    <3> QED
      BY <2>0, <3>1
  <2> QED
    BY <2>1, <2>2
<1>4. at \in Slots
  <2> DEFINE F == {s \in Slots : kept[s] = Empty}
  <2>1. F # {} /\ F \subseteq Nat
    BY <1>3 DEF Slots
  <2>2. PICK s \in F : \A r \in F : s =< r
    BY <2>1, LeastElement
  <2>3. \A q \in 1 .. s - 1 : q \in Slots /\ q \notin F
    BY <2>1, <2>2 DEF Slots
  <2>4. s \in Slots /\ kept[s] = Empty /\ \A q \in 1 .. s - 1 : kept[q] # Empty
    BY <2>2, <2>3
  <2> HIDE DEF kept
  <2> QED
    BY <2>4
<1>5. ~Continues(m, i)
  <2> SUFFICES ASSUME Continues(m, i) PROVE FALSE
    OBVIOUS
  <2>1. PICK s \in Find(m) : table[s].age = 0
    BY ContinuesFind
  <2>2. s \in live
    BY <2>1 DEF Find, Expired
  <2> QED
    BY <1>2, <2>2
<1>6. \A r \in Slots : /\ kept[r] \in {Empty, table[r]}
                       /\ kept[r] # Empty => ~SameKey(kind, kept[r], m)
  BY <1>2 DEF Find
<1>7. /\ DOMAIN kept = Slots /\ cursor' \in 0 .. MaximumReassemblies - 1 /\ m \in Twins(m)
      /\ NewEntry(m) \in EntriesOf(m) /\ Agrees(NewEntry(m), m)
  BY <1>2, NewEntryFacts, OwnTwin DEF Inv
<1> HIDE DEF kept, at
<1> QED
  BY <1>2, <1>4, <1>5, <1>6, <1>7, FillInv

\* ESPNowEventTransport::HandleFrame has a record of the message.
LEMMA EventNextInv ==
  ASSUME Inv, NEW m \in Messages[kind], NEW i \in 0 .. m.count - 1, kind = "Event",
         ReceiveEventNext(m, i)
  PROVE  Inv'
<1> DEFINE expired == {s \in Slots : Expired(s)}
           kept == [s \in Slots |-> IF s \in expired THEN Empty ELSE table[s]]
<1>1. PICK s \in Find(m) \ expired :
        IF SameShape(kind, table[s], m)
          THEN Fill(kept, s, table[s], m, i) /\ UNCHANGED cursor
          ELSE Drop(m, i, expired \cup {s})
  BY DEF ReceiveEventNext
<1>2. \A r \in Find(m) : r = s
  BY <1>1, FindFacts
<1>3. CASE SameShape(kind, table[s], m)
  <2>1. /\ i = 0 /\ Due(m) => Agrees(table[s], m)
        /\ Continues(m, i) => Agrees(table[s], m) /\ HoldsTo(table[s], i)
        /\ Follows(m, i) => Agrees(table[s], m) \/ HoldsTo(table[s], i)
    <3>1. ~Expired(s)
      BY FindFacts
    <3> QED
      BY <1>3, <3>1, RecordFacts
  <2>2. /\ s \in Slots
        /\ \A r \in Slots \ {s} : table[r] # Empty => ~SameKey(kind, table[r], m)
        /\ \E n \in Messages[kind] : table[s] \in EntriesOf(n) /\ m \in Twins(n)
    BY <1>3, FindFacts
  <2>3. Fill(kept, s, table[s], m, i) /\ cursor' \in 0 .. MaximumReassemblies - 1
    BY <1>1, <1>3 DEF Inv
  <2>4. DOMAIN kept = Slots /\ \A r \in Slots : kept[r] \in {Empty, table[r]}
    OBVIOUS
  <2> HIDE DEF kept
  <2> QED
    BY <2>1, <2>2, <2>3, <2>4, FillInv
<1>4. CASE ~SameShape(kind, table[s], m)
  <2>1. ~Continues(m, i)
    BY <1>2, <1>4, ContinuesFind
  <2>2. s \in Slots /\ table[s] # Empty /\ SameKey(kind, table[s], m) /\ ~Expired(s)
    BY FindFacts
  <2>3. m.count # 1 /\ m.count \in Nat /\ m.count > 0
    BY MessageFacts DEF ReceiveEventNext, Inv
  <2>4. ~Again(m)
    BY <1>4, <2>2, <2>3 DEF Again, Inv, StreakControl, NoObstacle
  <2>5. ~Due(m)
    BY <1>4, <2>2, <2>3, <2>4 DEF Due, Yields
  <2>6. \A r \in Slots : table[r] # Empty /\ SameKey(kind, table[r], m) => r = s
    BY FindFacts
  <2>7. Drop(m, i, expired \cup {s})
    BY <1>1, <1>4
  <2> DEFINE gone == expired \cup {s}
  <2>8. s \in gone
    OBVIOUS
  <2> HIDE DEF gone
  <2> QED
    BY <2>1, <2>5, <2>6, <2>7, <2>8, DropInv DEF gone
<1> QED
  BY <1>3, <1>4

\* ESPNowSecureTransport::HandleFrame.
LEMMA SecurityInv ==
  ASSUME Inv, NEW m \in Messages[kind], NEW i \in 0 .. m.count - 1, kind = "Security",
         ReceiveSecurity(m, i)
  PROVE  Inv'
<1> DEFINE s == SlotFor(m)
           own == table[s] # Empty /\ SameKey(kind, table[s], m) /\ SameShape(kind, table[s], m)
           e == IF ~own THEN NewEntry(m) ELSE table[s]
<1>1. Fill(table, s, e, m, i)
  <2>1. e = IF table[s] = Empty \/ ~SameKey(kind, table[s], m) \/ ~SameShape(kind, table[s], m)
              THEN NewEntry(m) ELSE table[s]
    OBVIOUS
  <2> HIDE DEF e
  <2> QED
    BY <2>1 DEF ReceiveSecurity, AcceptFragment
<1>2. cursor' \in 0 .. MaximumReassemblies - 1
  <2>1. \A c \in Nat : (c + 1) % MaximumReassemblies \in 0 .. MaximumReassemblies - 1
    OBVIOUS
  <2> QED
    BY <2>1 DEF ReceiveSecurity, Inv
<1>3. /\ DOMAIN table = Slots /\ \A r \in Slots : table[r] \in {Empty, table[r]}
      /\ NewEntry(m) \in EntriesOf(m) /\ Agrees(NewEntry(m), m) /\ m \in Twins(m)
  BY NewEntryFacts, OwnTwin DEF Inv, TableControl
<1>4. CASE Find(m) # {}
  <2>1. s \in Find(m)
    <3>1. Find(m) \subseteq Nat
      BY DEF Find, Slots
    <3>2. \E r \in Find(m) : \A q \in Find(m) : r =< q
      BY <1>4, <3>1, LeastElement
    <3> QED
      BY <1>4, <3>2 DEF SlotFor
  <2> HIDE DEF s
  <2>2. /\ s \in Slots /\ table[s] # Empty /\ SameKey(kind, table[s], m)
        /\ \A r \in Slots \ {s} : table[r] # Empty => ~SameKey(kind, table[r], m)
        /\ SameShape(kind, table[s], m) =>
             \E n \in Messages[kind] : table[s] \in EntriesOf(n) /\ m \in Twins(n)
    BY <2>1, FindFacts
  <2>3. /\ \E n \in Messages[kind] : e \in EntriesOf(n) /\ m \in Twins(n)
        /\ i = 0 /\ Due(m) => Agrees(e, m)
        /\ Continues(m, i) => Agrees(e, m) /\ HoldsTo(e, i)
        /\ Follows(m, i) => Agrees(e, m) \/ HoldsTo(e, i)
    <3>1. CASE own
      <4>1. e = table[s] /\ SameShape(kind, table[s], m)
        BY <3>1
      <4> HIDE DEF e, own
      <4> QED
        BY <2>1, <2>2, <4>1, RecordFacts
    <3>2. CASE ~own
      <4>1. e = NewEntry(m)
        BY <3>2
      <4>2. \A r \in Find(m) : r = s
        BY <2>1, FindFacts
      <4>3. ~Continues(m, i)
        BY <2>2, <3>2, <4>2, ContinuesFind
      <4> HIDE DEF e, own
      <4> QED
        BY <1>3, <4>1, <4>3
    <3> QED
      BY <3>1, <3>2
  <2> HIDE DEF e
  <2> QED
    BY <1>1, <1>2, <1>3, <2>2, <2>3, FillInv
<1>5. CASE Find(m) = {}
  <2>1. s \in Slots
    <3>1. cursor + 1 \in Slots
      BY DEF Inv, Slots
    <3> QED
      BY <1>5, <3>1, FirstFreeFacts DEF SlotFor
  <2> HIDE DEF s
  <2>2. \A r \in Slots : table[r] # Empty => ~SameKey(kind, table[r], m)
    BY <1>5 DEF Find, FreeSlots
  <2>3. e = NewEntry(m)
    BY <2>1, <2>2
  <2>4. ~Continues(m, i)
    BY <1>5, ContinuesFind
  <2> HIDE DEF e
  <2> QED
    BY <1>1, <1>2, <1>3, <2>1, <2>2, <2>3, <2>4, FillInv
<1> QED
  BY <1>4, <1>5

\* Nothing has been received yet.
LEMMA InitInv == Init => Inv
<1> SUFFICES ASSUME Init PROVE Inv
  OBVIOUS
<1>1. NoStreak.next = 0 /\ 0 \in 0 .. MaximumReassemblies - 1
  BY DEF NoStreak
<1> QED
  BY <1>1 DEF Init, Inv, TableControl, KeyControl, StreakControl, PartsBelongTogether

\* Every step keeps the invariant.
LEMMA NextInv ==
  ASSUME Inv, [Next]_vars
  PROVE  Inv'
<1>1. CASE UNCHANGED vars
  <2>1. UNCHANGED <<kind, table, cursor, out, streak>>
    BY <1>1 DEF vars
  <2>2. TableControl' /\ KeyControl'
    BY <2>1 DEF Inv, TableControl, KeyControl, EntriesOf, AllParts, Twins, IsComplete, SameKey
  <2>3. StreakControl'
    BY <2>1 DEF Inv, StreakControl, Streak, NoStreak, OwnRecord, NoObstacle, Agrees, HoldsTo,
                SameKey, SameShape
  <2>4. PartsBelongTogether'
    BY <2>1 DEF Inv, PartsBelongTogether, Whole, Twins
  <2> QED
    BY <2>1, <2>2, <2>3, <2>4 DEF Inv
<1>2. CASE Receive
  <2>0. PICK m \in Messages[kind] : \E i \in 0 .. m.count - 1 :
          CASE kind = "Command"  -> ReceiveCommand(m, i)
            [] kind = "Event"    -> ReceiveEvent(m, i)
            [] kind = "Security" -> ReceiveSecurity(m, i)
    BY <1>2 DEF Receive
  <2>1. PICK i \in 0 .. m.count - 1 :
          CASE kind = "Command"  -> ReceiveCommand(m, i)
            [] kind = "Event"    -> ReceiveEvent(m, i)
            [] kind = "Security" -> ReceiveSecurity(m, i)
    BY <2>0
  <2>2. kind \in {"Command", "Event", "Security"}
    BY DEF Inv
  <2>3. \/ kind = "Command" /\ ReceiveCommand(m, i)
        \/ kind = "Event" /\ ReceiveEvent(m, i)
        \/ kind = "Security" /\ ReceiveSecurity(m, i)
    BY <2>1, <2>2
  <2> QED
    BY <2>3, CommandInv, SingleInv, EventFirstInv, EventNextInv, SecurityInv DEF ReceiveEvent
<1> QED
  BY <1>1, <1>2, UpdateInv, TickInv, RestartInv DEF Next

\* The invariant holds in every behaviour.
LEMMA AlwaysInv == Spec => []Inv
  BY InitInv, NextInv, PTL DEF Spec

-----------------------------------------------------------------------------
(* The theorems.                                                            *)

\* A record has one part for each fragment of its message, and is the only one
\* of its message.
THEOREM ReassemblyTypes == Spec => []TypeOK
<1>1. Inv => TypeOK
  <2> SUFFICES ASSUME Inv PROVE TypeOK
    OBVIOUS
  <2>1. ASSUME NEW s \in Slots \ FreeSlots
        PROVE  /\ DOMAIN table[s].parts = 0 .. table[s].count - 1
               /\ table[s].age \in 0 .. ReassemblyTimeout + 1
               /\ ~IsComplete(table[s])
               /\ \E i \in DOMAIN table[s].parts : table[s].parts[i] # None
               /\ \A r \in Slots \ FreeSlots : SameKey(kind, table[r], table[s]) => r = s
    <3>1. table[s] # Empty
      BY DEF FreeSlots
    <3>2. PICK m \in Messages[kind] : table[s] \in EntriesOf(m)
      BY <3>1 DEF Inv, TableControl
    <3>3. DOMAIN table[s].parts = 0 .. table[s].count - 1
          /\ table[s].age \in 0 .. ReassemblyTimeout + 1
      BY <3>2, EntryFacts
    <3> QED
      BY <3>1, <3>3 DEF Inv, TableControl, KeyControl, FreeSlots
  <2> QED
    BY <2>1 DEF Inv, TypeOK
<1> QED
  BY <1>1, AlwaysInv, PTL

\* Command, Event and Security alike: what is handed on is made of parts that one
\* peer sent under one key and shape; it is a whole message as it was sent when
\* that peer used them once.
THEOREM OnlyPartsThatBelong == Spec => []PartsBelongTogether
<1>1. Inv => PartsBelongTogether
  BY DEF Inv
<1> QED
  BY <1>1, AlwaysInv, PTL

\* A message whose fragments come back to back is handed on unless a record of
\* its own key disagrees with it, and on the second attempt even then (a Command
\* needs room, and no record of another shape under its key).
THEOREM BackToBackIsDelivered == Spec => []BackToBackDelivered
<1>1. Inv => BackToBackDelivered
  <2> SUFFICES ASSUME Inv, streak.next > 0, streak.next = streak.msg.count, streak.due,
                      ~streak.done
               PROVE  FALSE
    BY DEF BackToBackDelivered
  <2>1. streak.msg \in Messages[kind]
    BY DEF Inv, StreakControl, Streak
  <2>2. PICK s \in Slots : OwnRecord(s, streak.msg, streak.msg.count)
    BY DEF Inv, StreakControl
  <2>3. s \in Find(streak.msg)
    BY <2>2 DEF OwnRecord, Find, FreeSlots
  <2> QED
    BY <2>1, <2>2, <2>3, NotAllParts DEF OwnRecord
<1> QED
  BY <1>1, AlwaysInv, PTL
=============================================================================
