----------------------------- MODULE Reassembly -----------------------------
(***************************************************************************)
(* The three reassemblers of the library, one for each protocol whose       *)
(* messages may be longer than an ESP-NOW frame:                            *)
(*                                                                          *)
(*   Command    ESPNowCommandEndpoint::Receive and Update: a full table     *)
(*              refuses new messages, Update expires idle ones              *)
(*   Event      ESPNowEventTransport::HandleFrame: expires idle messages    *)
(*              when a frame comes, and evicts the oldest of a full table   *)
(*   Security   ESPNowSecureTransport::HandleFrame: never expires; a full   *)
(*              table loses its slots in turn                               *)
(*                                                                          *)
(* Which one runs is chosen initially.  Each is driven by one thread (the   *)
(* worker or the protocol's executor), a frame at a time.  The radio may    *)
(* lose, repeat and reorder: any fragment of any message may come at any    *)
(* time.  Fragments are the ones BuildFragment and its counterparts make;   *)
(* a peer numbers its messages from 1 again when it restarts, so different  *)
(* messages may have the same ID and even the same shape.  A slot stands    *)
(* for an element of the two vectors or of the array: where in its vector a *)
(* record stands decides nothing but ties between equally old Event         *)
(* records, which are broken either way here.                               *)
(***************************************************************************)
EXTENDS Naturals, FiniteSets

CONSTANTS
  Messages,              \* Messages[kind]: the messages peers send
  MaximumReassemblies,   \* capacity of the table
  ReassemblyTimeout      \* in ticks

Kinds == DOMAIN Messages

None == "none"   \* no part yet

\* The header of a message's fragments, and the bytes of each.  Event has no
\* types of messages.
IsMessage(k, m) ==
  /\ DOMAIN m = {"source", "id", "type", "count", "length", "parts"}
  /\ m.count \in Nat \ {0}
  /\ k = "Event" => m.type = "event"
  /\ m.parts = [i \in 0 .. m.count - 1 |-> m.parts[i]]
  /\ \A i \in 0 .. m.count - 1 : m.parts[i] # None

ASSUME KindsAssumption == Kinds \subseteq {"Command", "Event", "Security"}
ASSUME MessagesAssumption == \A k \in Kinds : \A m \in Messages[k] : IsMessage(k, m)
ASSUME CapacityAssumption == MaximumReassemblies \in Nat \ {0}
ASSUME TimeoutAssumption == ReassemblyTimeout \in Nat \ {0}

\* What tells two messages of a sender apart: a command's request and response
\* IDs are numbered by different peers; the others number all they send.
SameKey(k, e, m) ==
  /\ e.source = m.source
  /\ e.id = m.id
  /\ k = "Command" => e.type = m.type

\* The total length and the fragment count agree; the Security header has no
\* length but its application protocol must agree.
SameShape(k, e, m) ==
  /\ e.count = m.count
  /\ IF k = "Security" THEN e.type = m.type ELSE e.length = m.length

VARIABLES
  kind,     \* which reassembler this is
  table,    \* _reassemblies, _reassembly
  cursor,   \* _replacementCursor, modulo the number of slots
  out,      \* history: the latest complete message handed on
  streak    \* history: the fragments of one message that came back to back

vars == <<kind, table, cursor, out, streak>>

-----------------------------------------------------------------------------
Slots == 1..MaximumReassemblies

Empty == [state |-> "empty"]

Nothing == [parts |-> <<>>]  \* no message

FreeSlots == {s \in Slots : table[s] = Empty}

FirstFree == CHOOSE s \in FreeSlots : \A r \in FreeSlots : s =< r

\* Mutant: the peer is not part of the key.
FindIgnoringSource(m) ==
  {s \in Slots \ FreeSlots : table[s].id = m.id /\ (kind = "Command" => table[s].type = m.type)}

\* FindReassembly, find_if, the first loop of SlotFor.
Find(m) == {s \in Slots \ FreeSlots : SameKey(kind, table[s], m)}

Whole(m) == [source |-> m.source, id |-> m.id, type |-> m.type, parts |-> m.parts]

NewEntry(m) == [state |-> "partial", source |-> m.source, id |-> m.id, type |-> m.type,
                count |-> m.count, length |-> m.length, age |-> 0, disputed |-> FALSE,
                parts |-> [i \in 0 .. m.count - 1 |-> None]]

IsComplete(e) == \A i \in DOMAIN e.parts : e.parts[i] # None

\* Mutant: a fragment does not keep its message alive.
StoredWithoutRefresh(e, m, i) ==
  [e EXCEPT !.parts[i] = IF @ = None THEN m.parts[i] ELSE @]

\* A part that is already there is kept.  Only Command compares it with the
\* fragment, and refuses one that disagrees after it has noted the time;
\* disputed is history: a fragment of this record was refused so.
Stored(e, m, i) ==
  [e EXCEPT !.age = 0,
            !.disputed = @ \/ (kind = "Command" /\ e.parts[i] \notin {None, m.parts[i]}),
            !.parts[i] = IF @ = None THEN m.parts[i] ELSE @]

Expired(s) == table[s] # Empty /\ table[s].age > ReassemblyTimeout

-----------------------------------------------------------------------------
(* History: streak is the message whose fragments 0 .. next - 1 came one    *)
(* right after the other, whether it is due to be handed on, and whether it *)
(* was handed on meanwhile.                                                 *)

NoStreak == [next |-> 0]

\* A command of several fragments that finds no room, or a record of another
\* shape under its key.
Blocked(m) ==
  /\ kind = "Command"
  /\ IF Find(m) = {} THEN FreeSlots = {}
                     ELSE \E s \in Find(m) : ~SameShape(kind, table[s], m)

\* The record of m's key in slot s takes the parts of m and has no others: it
\* holds none but m's, or is about to be dropped or reset.
Yields(s, m) ==
  \/ kind = "Event" /\ Expired(s)
  \/ IF SameShape(kind, table[s], m)
       THEN \A i \in 0 .. m.count - 1 : table[s].parts[i] \in {None, m.parts[i]}
       ELSE kind = "Security"

\* All fragments of m have just come back to back.
Again(m) == streak.next = m.count /\ streak.msg = m

\* With its first fragment coming now, m is to be handed on if the others
\* follow back to back.
Due(m) ==
  \/ m.count = 1
  \/ ~Blocked(m) /\ (Again(m) \/ \A s \in Find(m) : Yields(s, m))

ContinueStreak(m, i, completed) ==
  streak' =
    IF i = 0
      THEN [next |-> 1, msg |-> m, due |-> Due(m), done |-> completed = Whole(m)]
    ELSE IF streak.next = i /\ streak.msg = m
      THEN [streak EXCEPT !.next = i + 1, !.done = @ \/ completed = Whole(m)]
    ELSE NoStreak

HandOn(completed) == out' = IF completed = Nothing THEN out ELSE completed

\* The fragment is dropped, and so is the record of the slots in gone.
Drop(m, i, gone) ==
  /\ table' = [s \in Slots |-> IF s \in gone THEN Empty ELSE table[s]]
  /\ ContinueStreak(m, i, Nothing)
  /\ UNCHANGED <<kind, cursor, out>>

\* A message of one fragment is handed on from the receive buffer.
HandOnSingle(m) ==
  /\ m.count = 1
  /\ HandOn(Whole(m))
  /\ ContinueStreak(m, 0, Whole(m))
  /\ UNCHANGED <<kind, table, cursor>>

\* Mutant: the record of a complete message stays.
FillKeepsComplete(t, s, e, m, i) ==
  LET filled == Stored(e, m, i)
      completed == IF IsComplete(filled)
                     THEN [source |-> m.source, id |-> m.id, type |-> e.type,
                           parts |-> filled.parts]
                     ELSE Nothing
  IN  /\ table' = [t EXCEPT ![s] = filled]
      /\ HandOn(completed)
      /\ ContinueStreak(m, i, completed)
      /\ UNCHANGED kind

\* Fragment i of m goes into slot s of table t, which holds e for it.
Fill(t, s, e, m, i) ==
  LET filled == Stored(e, m, i)
      completed == IF IsComplete(filled)
                     THEN [source |-> m.source, id |-> m.id, type |-> e.type,
                           parts |-> filled.parts]
                     ELSE Nothing
  IN  /\ table' = [t EXCEPT ![s] = IF completed = Nothing THEN filled ELSE Empty]
      /\ HandOn(completed)
      /\ ContinueStreak(m, i, completed)
      /\ UNCHANGED kind

-----------------------------------------------------------------------------
(* Command: ESPNowCommandEndpoint.                                          *)

ReceiveCommandFirst(m, i) ==
  /\ m.count # 1
  /\ Find(m) = {}
  /\ FreeSlots # {}
  /\ Fill(table, FirstFree, NewEntry(m), m, i)
  /\ UNCHANGED cursor

ReceiveCommandRefused(m, i) ==
  /\ m.count # 1
  /\ Find(m) = {}
  /\ FreeSlots = {}
  /\ Drop(m, i, {})

\* Fragments that disagree with the record about the message's shape leave it
\* as it is; so does a repeated fragment, be it equal or not, but for the time
\* it came.
ReceiveCommandNext(m, i) ==
  /\ m.count # 1
  /\ \E s \in Find(m) : IF SameShape(kind, table[s], m)
                          THEN Fill(table, s, table[s], m, i) /\ UNCHANGED cursor
                          ELSE Drop(m, i, {})

ReceiveCommand(m, i) ==
  HandOnSingle(m) \/ ReceiveCommandFirst(m, i)
  \/ ReceiveCommandRefused(m, i) \/ ReceiveCommandNext(m, i)

UpdateCommand ==
  /\ kind = "Command"
  /\ table' = [s \in Slots |-> IF s \notin FreeSlots /\ table[s].age >= ReassemblyTimeout
                                 THEN Empty ELSE table[s]]
  /\ UNCHANGED <<kind, cursor, out, streak>>

-----------------------------------------------------------------------------
(* Event: ESPNowEventTransport.                                             *)

\* What a new message costs: nothing while there is room, else the oldest.
EvictOldest(live) ==
  IF Cardinality(live) < MaximumReassemblies
    THEN {{}}
    ELSE {{s} : s \in {s \in live : \A r \in live : table[r].age =< table[s].age}}

ReceiveEventFirst(m, i) ==
  LET live == {s \in Slots \ FreeSlots : ~Expired(s)}
  IN  /\ m.count # 1
      /\ Find(m) \cap live = {}
      /\ \E gone \in EvictOldest(live) :
           LET kept == [s \in Slots |-> IF s \in live \ gone THEN table[s] ELSE Empty]
               at == CHOOSE s \in Slots : kept[s] = Empty /\ \A q \in 1 .. s - 1 : kept[q] # Empty
           IN  Fill(kept, at, NewEntry(m), m, i)
      /\ UNCHANGED cursor

\* Fragments that disagree about the message's shape take the record with them.
ReceiveEventNext(m, i) ==
  LET expired == {s \in Slots : Expired(s)}
      Kept == [s \in Slots |-> IF s \in expired THEN Empty ELSE table[s]]
  IN  /\ m.count # 1
      /\ \E s \in Find(m) \ expired :
           IF SameShape(kind, table[s], m)
             THEN Fill(Kept, s, table[s], m, i) /\ UNCHANGED cursor
             ELSE Drop(m, i, expired \cup {s})

ReceiveEvent(m, i) ==
  HandOnSingle(m) \/ ReceiveEventFirst(m, i) \/ ReceiveEventNext(m, i)

-----------------------------------------------------------------------------
(* Security: ESPNowSecureTransport and ESPNowSecurityProtocol.              *)

\* AcceptFragment in slot s: a record of another message, or one of another
\* shape, is reset first.
AcceptFragment(s, m, i) ==
  LET e == table[s]
  IN  Fill(table, s,
           IF e = Empty \/ ~SameKey(kind, e, m) \/ ~SameShape(kind, e, m) THEN NewEntry(m) ELSE e,
           m, i)

\* SlotFor: the message's slot, else a free one, else the next in turn.
SlotFor(m) ==
  IF Find(m) # {} THEN CHOOSE s \in Find(m) : \A r \in Find(m) : s =< r
  ELSE IF FreeSlots # {} THEN FirstFree
  ELSE cursor + 1

ReceiveSecurity(m, i) ==
  /\ AcceptFragment(SlotFor(m), m, i)
  /\ cursor' = IF Find(m) = {} /\ FreeSlots = {}
                 THEN (cursor + 1) % MaximumReassemblies ELSE cursor

-----------------------------------------------------------------------------
Init == /\ kind \in Kinds
        /\ table = [s \in Slots |-> Empty]
        /\ cursor = 0
        /\ out = Nothing
        /\ streak = NoStreak

Receive ==
  \E m \in Messages[kind] : \E i \in 0 .. m.count - 1 :
    CASE kind = "Command"  -> ReceiveCommand(m, i)
      [] kind = "Event"    -> ReceiveEvent(m, i)
      [] kind = "Security" -> ReceiveSecurity(m, i)

\* Nothing looks at the age of a Security record, nor by how much a record is
\* too old.
Tick ==
  /\ kind # "Security"
  /\ table' = [s \in Slots |->
       IF table[s] # Empty /\ table[s].age =< ReassemblyTimeout
         THEN [table[s] EXCEPT !.age = @ + 1] ELSE table[s]]
  /\ streak' = NoStreak
  /\ UNCHANGED <<kind, cursor, out>>

\* Shutdown and Initialize.
Restart ==
  /\ table' = [s \in Slots |-> Empty]
  /\ cursor' = 0
  /\ streak' = NoStreak
  /\ UNCHANGED <<kind, out>>

Next == Receive \/ UpdateCommand \/ Tick \/ Restart

Spec == Init /\ [][Next]_vars

-----------------------------------------------------------------------------
\* Type correctness: a record has one part for each fragment of its message,
\* at least one of them there and one missing, and no two slots hold the same
\* message.
TypeOK ==
  /\ kind \in Kinds
  /\ cursor \in 0 .. MaximumReassemblies - 1
  /\ \A s \in Slots \ FreeSlots :
       /\ DOMAIN table[s].parts = 0 .. table[s].count - 1
       /\ table[s].age \in 0 .. ReassemblyTimeout + 1
       /\ ~IsComplete(table[s])
       /\ \E i \in DOMAIN table[s].parts : table[s].parts[i] # None
       /\ \A r \in Slots \ FreeSlots : SameKey(kind, table[r], table[s]) => r = s

\* The messages that no header tells from m.
Twins(m) == {n \in Messages[kind] : SameKey(kind, m, n) /\ SameShape(kind, m, n)}

\* What is handed on is made of parts in their places that were all sent by one
\* peer under one key and shape, whatever was lost, repeated, reordered, expired,
\* evicted or interleaved.  So it is a whole message as it was sent when its
\* sender used that key and shape once; a sender that restarted may have used
\* them for two messages (SecureTransport.hpp:49 numbers from 1 again), and then
\* parts of the two may be joined.
PartsBelongTogether ==
  out # Nothing =>
    \E m \in Messages[kind] :
      /\ out.source = m.source /\ out.id = m.id /\ out.type = m.type
      /\ DOMAIN out.parts = 0 .. m.count - 1
      /\ \A i \in 0 .. m.count - 1 : \E n \in Twins(m) : out.parts[i] = n.parts[i]
      /\ Twins(m) = {m} => out = Whole(m)

\* A message whose fragments come back to back is handed on whole
\*   - at once, unless a record that an earlier message of the same key left
\*     disagrees with it (Event: in shape or in bytes; Security and Command: in
\*     bytes; a Command is also kept out by a full table, and by such a record
\*     of another shape for as long as that does not expire);
\*   - when its fragments come back to back for the second time in a row,
\*     whatever records there are, unless a Command is kept out so.
\* Records of other messages, records of its own fragments and, for Security,
\* records of another shape never stand in its way, and what does is gone after
\* one attempt: the reassembler does not wedge.
BackToBackDelivered ==
  streak.next > 0 =>
    (streak.next = streak.msg.count /\ streak.due => streak.done)

\* A Command record does not outlive a repeated fragment whose bytes disagree
\* with those it holds (COMMAND_INTEGRATION.md:265-272: reassembly is
\* "invalidated when duplicate fragment contents disagree").
ConflictInvalidates ==
  kind = "Command" => \A s \in Slots \ FreeSlots : ~table[s].disputed
=============================================================================
