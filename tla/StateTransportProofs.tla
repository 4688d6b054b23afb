------------------------ MODULE StateTransportProofs -------------------------
(***************************************************************************)
(* The State transport, for every number of devices, versions and messages  *)
(* in flight: the tables keep to their capacities, and the newest version   *)
(* of a State stays pending until the subscriber holds it.                  *)
(***************************************************************************)
EXTENDS StateTransport, FiniteSetTheorems, SequenceTheorems, TLAPS

-----------------------------------------------------------------------------
(* Versions, in their order.                                                *)

AnyVersion == Versions \cup {NoValue}

\* v is w, or older.
UpTo(v, w) == ~Newer(v, w)

\* Epoch and revision are numbers, and a version is made of them.
LEMMA VersionFields ==
  ASSUME NEW v \in AnyVersion
  PROVE  v[1] \in Nat /\ v[2] \in Nat /\ v = <<v[1], v[2]>>
  BY BoundsAssumption DEF AnyVersion, Versions, NoValue

\* It is a total order with NoValue at its end.
LEMMA VersionOrder ==
  ASSUME NEW u \in AnyVersion, NEW v \in AnyVersion, NEW w \in AnyVersion
  PROVE  /\ UpTo(u, u)
         /\ UpTo(NoValue, u)
         /\ UpTo(u, v) /\ UpTo(v, w) => UpTo(u, w)
         /\ UpTo(u, v) /\ UpTo(v, u) => u = v
<1>1. /\ u[1] \in Nat /\ u[2] \in Nat /\ u = <<u[1], u[2]>>
      /\ v[1] \in Nat /\ v[2] \in Nat /\ v = <<v[1], v[2]>>
      /\ w[1] \in Nat /\ w[2] \in Nat /\ w = <<w[1], w[2]>>
  BY VersionFields
<1>2. UpTo(u, u)
  BY <1>1 DEF UpTo, Newer, Epoch, Revision
<1>3. UpTo(NoValue, u)
  BY <1>1 DEF UpTo, Newer, Epoch, Revision, NoValue
<1>4. UpTo(u, v) /\ UpTo(v, w) => UpTo(u, w)
  BY <1>1 DEF UpTo, Newer, Epoch, Revision
<1>5. UpTo(u, v) /\ UpTo(v, u) => u[1] = v[1] /\ u[2] = v[2]
  BY <1>1 DEF UpTo, Newer, Epoch, Revision
<1>6. UpTo(u, v) /\ UpTo(v, u) => u = v
  BY <1>1, <1>5, Zenon
<1> QED
  BY <1>2, <1>3, <1>4, <1>6

\* A version that was published is a value.
LEMMA VersionIsValue ==
  ASSUME NEW v \in Versions
  PROVE  v # NoValue /\ v \in AnyVersion
  BY BoundsAssumption DEF Versions, NoValue, AnyVersion

-----------------------------------------------------------------------------
(* Links.                                                                   *)

Messages(link) == {link[i] : i \in 1 .. Len(link)}

\* The messages of two sequences, put together.
LEMMA ConcatFacts ==
  ASSUME NEW M, NEW link \in Seq(M), NEW ms \in Seq(M)
  PROVE  /\ link \o ms \in Seq(M)
         /\ Messages(link \o ms) \subseteq Messages(link) \cup Messages(ms)
<1> DEFINE c == link \o ms
<1>0. Len(link) \in Nat /\ Len(ms) \in Nat
  OBVIOUS
<1>1. /\ c \in Seq(M) /\ Len(c) = Len(link) + Len(ms)
      /\ \A i \in 1 .. Len(link) + Len(ms) :
           c[i] = IF i =< Len(link) THEN link[i] ELSE ms[i - Len(link)]
  OBVIOUS
<1> HIDE DEF c
<1>2. ASSUME NEW i \in 1 .. Len(c)
      PROVE  c[i] \in Messages(link) \cup Messages(ms)
  <2>0. i \in 1 .. Len(link) + Len(ms)
    BY <1>1
  <2>1. CASE i =< Len(link)
    <3>1. i \in 1 .. Len(link) /\ c[i] = link[i]
      BY <1>0, <1>1, <2>0, <2>1
    <3> QED
      BY <3>1 DEF Messages
  <2>2. CASE ~(i =< Len(link))
    <3>1. i - Len(link) \in 1 .. Len(ms) /\ c[i] = ms[i - Len(link)]
      BY <1>0, <1>1, <2>0, <2>2
    <3> QED
      BY <3>1 DEF Messages
  <2> QED
    BY <2>1, <2>2
<1>3. Messages(c) \subseteq Messages(link) \cup Messages(ms)
  BY <1>2 DEF Messages
<1> QED
  BY <1>1, <1>3 DEF c

\* The messages on a link after some were sent.
LEMMA SentFacts ==
  ASSUME NEW M, NEW link \in Seq(M), NEW ms \in Seq(M)
  PROVE  /\ Sent(link, ms) \in Seq(M)
         /\ Messages(Sent(link, ms)) \subseteq Messages(link) \cup Messages(ms)
<1>1. Sent(link, ms) = link \o ms \/ Sent(link, ms) = link
  BY DEF Sent
<1> QED
  BY <1>1, ConcatFacts

\* The first message on a link, and the others.
LEMMA TailFacts ==
  ASSUME NEW M, NEW link \in Seq(M), link # << >>
  PROVE  /\ Head(link) \in M /\ Head(link) \in Messages(link)
         /\ Tail(link) \in Seq(M) /\ Messages(Tail(link)) \subseteq Messages(link)
<1>1. /\ Head(link) = link[1] /\ Tail(link) \in Seq(M) /\ Len(link) \in Nat \ {0}
      /\ Len(Tail(link)) = Len(link) - 1
      /\ \A i \in 1 .. Len(Tail(link)) : Tail(link)[i] = link[i + 1]
  BY HeadTailProperties, EmptySeq
<1>2. 1 \in 1 .. Len(link)
  BY <1>1
<1>3. link[1] \in M
  BY <1>2
<1>4. \A i \in 1 .. Len(Tail(link)) : i + 1 \in 1 .. Len(link)
  <2> DEFINE n == Len(link)
             k == Len(Tail(link))
  <2>1. n \in Nat /\ k = n - 1
    BY <1>1
  <2> HIDE DEF n, k
  <2>2. \A i \in 1 .. k : i + 1 \in 1 .. n
    BY <2>1
  <2> QED
    BY <2>2 DEF n, k
<1>5. Messages(Tail(link)) \subseteq Messages(link)
  BY <1>1, <1>4 DEF Messages
<1> QED
  BY <1>1, <1>2, <1>3, <1>5 DEF Messages

\* The links to the devices after messages were sent.
LEMMA SentToDevice ==
  ASSUME TypeOK, NEW d \in Devices, NEW ms \in Seq(ToDevice), SendToDevice(d, ms)
  PROVE  /\ toDevice' \in [Devices -> Seq(ToDevice)]
         /\ \A q \in Devices : Messages(toDevice'[q]) \subseteq Messages(toDevice[q]) \cup Messages(ms)
         /\ \A q \in Devices : q # d => toDevice'[q] = toDevice[q]
<1>0. /\ toDevice \in [Devices -> Seq(ToDevice)]
      /\ toDevice' = [toDevice EXCEPT ![d] = Sent(@, ms)]
  BY DEF TypeOK, SendToDevice
<1>1. /\ Sent(toDevice[d], ms) \in Seq(ToDevice)
      /\ Messages(Sent(toDevice[d], ms)) \subseteq Messages(toDevice[d]) \cup Messages(ms)
  BY <1>0, SentFacts
<1>2. toDevice'[d] = Sent(toDevice[d], ms) /\ \A q \in Devices : q # d => toDevice'[q] = toDevice[q]
  BY <1>0
<1>3. toDevice' \in [Devices -> Seq(ToDevice)]
  BY <1>0, <1>1
<1> QED
  BY <1>1, <1>2, <1>3

\* The links to the publishing node after messages were sent.
LEMMA SentToPublisher ==
  ASSUME TypeOK, NEW d \in Devices, NEW ms \in Seq(ToPublisher), SendToPublisher(d, ms)
  PROVE  /\ toPublisher' \in [Devices -> Seq(ToPublisher)]
         /\ \A q \in Devices : Messages(toPublisher'[q]) \subseteq Messages(toPublisher[q]) \cup Messages(ms)
         /\ \A q \in Devices : q # d => toPublisher'[q] = toPublisher[q]
<1>0. /\ toPublisher \in [Devices -> Seq(ToPublisher)]
      /\ toPublisher' = [toPublisher EXCEPT ![d] = Sent(@, ms)]
  BY DEF TypeOK, SendToPublisher
<1>1. /\ Sent(toPublisher[d], ms) \in Seq(ToPublisher)
      /\ Messages(Sent(toPublisher[d], ms)) \subseteq Messages(toPublisher[d]) \cup Messages(ms)
  BY <1>0, SentFacts
<1>2. toPublisher'[d] = Sent(toPublisher[d], ms) /\ \A q \in Devices : q # d => toPublisher'[q] = toPublisher[q]
  BY <1>0
<1>3. toPublisher' \in [Devices -> Seq(ToPublisher)]
  BY <1>0, <1>1
<1> QED
  BY <1>1, <1>2, <1>3

\* The links to the devices after a message was taken.
LEMMA TakenToDevice ==
  ASSUME TypeOK, NEW d \in Devices, toDevice[d] # << >>,
         toDevice' = [toDevice EXCEPT ![d] = Tail(@)]
  PROVE  /\ toDevice' \in [Devices -> Seq(ToDevice)]
         /\ \A q \in Devices : Messages(toDevice'[q]) \subseteq Messages(toDevice[q])
         /\ Head(toDevice[d]) \in ToDevice /\ Head(toDevice[d]) \in Messages(toDevice[d])
<1>0. toDevice \in [Devices -> Seq(ToDevice)]
  BY DEF TypeOK
<1>1. /\ Head(toDevice[d]) \in ToDevice /\ Head(toDevice[d]) \in Messages(toDevice[d])
      /\ Tail(toDevice[d]) \in Seq(ToDevice) /\ Messages(Tail(toDevice[d])) \subseteq Messages(toDevice[d])
  BY <1>0, TailFacts
<1>2. toDevice'[d] = Tail(toDevice[d]) /\ \A q \in Devices : q # d => toDevice'[q] = toDevice[q]
  BY <1>0
<1>3. toDevice' \in [Devices -> Seq(ToDevice)]
  BY <1>0, <1>1
<1> QED
  BY <1>1, <1>2, <1>3

\* The links to the publishing node after a message was taken.
LEMMA TakenToPublisher ==
  ASSUME TypeOK, NEW d \in Devices, toPublisher[d] # << >>,
         toPublisher' = [toPublisher EXCEPT ![d] = Tail(@)]
  PROVE  /\ toPublisher' \in [Devices -> Seq(ToPublisher)]
         /\ \A q \in Devices : Messages(toPublisher'[q]) \subseteq Messages(toPublisher[q])
         /\ Head(toPublisher[d]) \in ToPublisher /\ Head(toPublisher[d]) \in Messages(toPublisher[d])
<1>0. toPublisher \in [Devices -> Seq(ToPublisher)]
  BY DEF TypeOK
<1>1. /\ Head(toPublisher[d]) \in ToPublisher /\ Head(toPublisher[d]) \in Messages(toPublisher[d])
      /\ Tail(toPublisher[d]) \in Seq(ToPublisher) /\ Messages(Tail(toPublisher[d])) \subseteq Messages(toPublisher[d])
  BY <1>0, TailFacts
<1>2. toPublisher'[d] = Tail(toPublisher[d]) /\ \A q \in Devices : q # d => toPublisher'[q] = toPublisher[q]
  BY <1>0
<1>3. toPublisher' \in [Devices -> Seq(ToPublisher)]
  BY <1>0, <1>1
<1> QED
  BY <1>1, <1>2, <1>3

\* Empty sequences and sequences of one message.
LEMMA OneMessage ==
  ASSUME NEW M, NEW m \in M
  PROVE  /\ << >> \in Seq(M) /\ Messages(<< >>) = {}
         /\ <<m>> \in Seq(M) /\ Messages(<<m>>) = {m}
<1>1. Len(<< >>) = 0 /\ Len(<<m>>) = 1 /\ <<m>>[1] = m /\ << >> \in Seq(M) /\ <<m>> \in Seq(M)
  OBVIOUS
<1>2. 1 .. 0 = {} /\ 1 .. 1 = {1}
  OBVIOUS
<1> QED
  BY <1>1, <1>2 DEF Messages

\* The messages that are sent.
LEMMA MessageTypes ==
  /\ \A v \in AnyVersion : /\ Update(v) \in ToDevice /\ Update(v).version = v
                           /\ Acknowledgement(v) \in ToPublisher /\ Acknowledgement(v).version = v
  /\ \A t \in {"Disconnect", "SubscribeAcknowledgement", "UnsubscribeAcknowledgement"} :
       Control(t) \in ToDevice /\ Control(t).version = NoValue
  /\ \A t \in {"Subscribe", "Unsubscribe", "Resynchronize", "Disconnect"} :
       Control(t) \in ToPublisher /\ Control(t).version = NoValue
  /\ \A m \in ToDevice \cup ToPublisher : m.version \in AnyVersion
  BY DEF AnyVersion, ToDevice, ToPublisher, MessagesOf, Update, Acknowledgement, Control

-----------------------------------------------------------------------------
(* Records.                                                                 *)

Held(p) == {d \in Devices : p[d] # NoValue}

\* Fewer records are held.
LEMMA HeldShrinks ==
  ASSUME NEW p, NEW q, Cardinality(Held(p)) =< MaximumPeers, Held(q) \subseteq Held(p)
  PROVE  Cardinality(Held(q)) =< MaximumPeers
<1>1. IsFiniteSet(Held(p))
  BY DevicesAssumption, FS_Subset DEF Held
<1>2. IsFiniteSet(Held(q)) /\ Cardinality(Held(q)) =< Cardinality(Held(p))
  BY <1>1, FS_Subset
<1>3. Cardinality(Held(p)) \in Nat /\ Cardinality(Held(q)) \in Nat
  BY <1>1, <1>2, FS_CardinalityType
<1> QED
  BY <1>2, <1>3, MaximumPeersAssumption

\* One more record is held, if there is a free one.
LEMMA HeldGrows ==
  ASSUME NEW p, NEW q, NEW d \in Devices, Cardinality(Held(p)) =< MaximumPeers,
         Held(q) \subseteq Held(p) \cup {d},
         d \in Held(p) \/ Cardinality(Held(p)) < MaximumPeers
  PROVE  Cardinality(Held(q)) =< MaximumPeers
<1>1. CASE d \in Held(p)
  BY <1>1, HeldShrinks
<1>2. CASE d \notin Held(p)
  <2>1. IsFiniteSet(Held(p))
    BY DevicesAssumption, FS_Subset DEF Held
  <2>2. /\ IsFiniteSet(Held(p) \cup {d}) /\ Cardinality(Held(p)) \in Nat
        /\ Cardinality(Held(p) \cup {d}) = Cardinality(Held(p)) + 1
    BY <1>2, <2>1, FS_AddElement, FS_CardinalityType
  <2>3. IsFiniteSet(Held(q)) /\ Cardinality(Held(q)) =< Cardinality(Held(p) \cup {d})
    BY <2>2, FS_Subset
  <2>4. Cardinality(Held(q)) \in Nat /\ Cardinality(Held(p)) < MaximumPeers
    BY <1>2, <2>3, FS_CardinalityType
  <2> QED
    BY <2>2, <2>3, <2>4, MaximumPeersAssumption
<1> QED
  BY <1>1, <1>2

\* QueueUpdate keeps to the records there are.
LEMMA QueueFacts ==
  ASSUME TypeOK, NEW d \in Devices, NEW v \in AnyVersion, NEW ms \in Seq(ToDevice),
         QueueUpdate(d, v, ms)
  PROVE  /\ pending' \in [Devices -> AnyVersion] /\ Cardinality(Held(pending')) =< MaximumPeers
         /\ \A q \in Devices : q # d => pending'[q] = pending[q]
         /\ forgotten' \subseteq forgotten /\ \A q \in forgotten : q # d => q \in forgotten'
         /\ toDevice' \in [Devices -> Seq(ToDevice)]
         /\ \A q \in Devices : Messages(toDevice'[q]) \subseteq
              Messages(toDevice[q]) \cup Messages(ms) \cup {Update(v)}
<1>0. /\ pending \in [Devices -> AnyVersion] /\ Cardinality(Held(pending)) =< MaximumPeers
      /\ toDevice \in [Devices -> Seq(ToDevice)]
  BY DEF TypeOK, AnyVersion, Held
<1>1. CASE HasRecord(d)
  <2>1. /\ pending' = [pending EXCEPT ![d] = v]
        /\ forgotten' = IF v = current THEN forgotten \ {d} ELSE forgotten
        /\ SendToDevice(d, <<Update(v)>> \o ms)
    BY <1>1 DEF QueueUpdate
  <2>2. /\ pending' \in [Devices -> AnyVersion]
        /\ \A q \in Devices : q # d => pending'[q] = pending[q]
    BY <1>0, <2>1
  <2>3. Held(pending') \subseteq Held(pending) \cup {d}
    BY <2>2 DEF Held
  <2>4. d \in Held(pending) \/ Cardinality(Held(pending)) < MaximumPeers
    BY <1>1 DEF HasRecord, Held
  <2>5. Cardinality(Held(pending')) =< MaximumPeers
    BY <1>0, <2>3, <2>4, HeldGrows
  <2> DEFINE u == <<Update(v)>>
             c == u \o ms
  <2>6. u \in Seq(ToDevice) /\ Messages(u) = {Update(v)}
    BY OneMessage, MessageTypes
  <2>7. SendToDevice(d, c)
    BY <2>1
  <2> HIDE DEF u
  <2>8. c \in Seq(ToDevice) /\ Messages(c) \subseteq {Update(v)} \cup Messages(ms)
    BY <2>6, ConcatFacts
  <2> HIDE DEF c
  <2>9. /\ toDevice' \in [Devices -> Seq(ToDevice)]
        /\ \A q \in Devices : Messages(toDevice'[q]) \subseteq Messages(toDevice[q]) \cup Messages(c)
    BY <2>7, <2>8, SentToDevice
  <2>10. \A q \in Devices : Messages(toDevice'[q]) \subseteq
              Messages(toDevice[q]) \cup Messages(ms) \cup {Update(v)}
    BY <2>8, <2>9
  <2>11. forgotten' \subseteq forgotten /\ \A q \in forgotten : q # d => q \in forgotten'
    BY <2>1
  <2> QED
    BY <2>2, <2>5, <2>9, <2>10, <2>11
<1>2. CASE ~HasRecord(d)
  <2>1. UNCHANGED <<pending, forgotten>> /\ SendToDevice(d, ms)
    BY <1>2 DEF QueueUpdate
  <2>2. /\ toDevice' \in [Devices -> Seq(ToDevice)]
        /\ \A q \in Devices : Messages(toDevice'[q]) \subseteq Messages(toDevice[q]) \cup Messages(ms)
    BY <2>1, SentToDevice
  <2> QED
    <3>1. \A q \in Devices : Messages(toDevice'[q]) \subseteq
              Messages(toDevice[q]) \cup Messages(ms) \cup {Update(v)}
      BY <2>2
    <3>2. /\ pending' \in [Devices -> AnyVersion] /\ Cardinality(Held(pending')) =< MaximumPeers
          /\ \A q \in Devices : q # d => pending'[q] = pending[q]
          /\ forgotten' \subseteq forgotten /\ \A q \in forgotten : q # d => q \in forgotten'
      BY <1>0, <2>1
    <3> QED
      BY <2>2, <3>1, <3>2
<1> QED
  BY <1>1, <1>2
-----------------------------------------------------------------------------
(* Type correctness.                                                        *)

PublisherTypes ==
  /\ current \in Versions
  /\ publishing \in [version : AnyVersion, left : SUBSET Devices]
  /\ worker = NoJob \/ worker \in [device : Devices, version : Versions, messages : Seq(ToDevice)]
  /\ leaving \subseteq Devices /\ forgotten \subseteq Devices
SubscriberTypes == subscribers \subseteq Devices /\ Cardinality(subscribers) =< MaximumPeers
RecordTypes == pending \in [Devices -> AnyVersion] /\ Cardinality(Held(pending)) =< MaximumPeers
DeviceTypes ==
  /\ wanted \in [Devices -> BOOLEAN]
  /\ intent \in [Devices -> {"Subscribe", "Unsubscribe", NoIntent}]
  /\ remote \in [Devices -> AnyVersion]
LinkTypes ==
  toDevice \in [Devices -> Seq(ToDevice)] /\ toPublisher \in [Devices -> Seq(ToPublisher)]

\* The type invariant, in parts, now and after a step.
LEMMA TypeParts ==
  /\ TypeOK => PublisherTypes /\ SubscriberTypes /\ RecordTypes /\ DeviceTypes /\ LinkTypes
  /\ PublisherTypes /\ SubscriberTypes /\ RecordTypes /\ DeviceTypes /\ LinkTypes => TypeOK
  /\ (PublisherTypes /\ SubscriberTypes /\ RecordTypes /\ DeviceTypes /\ LinkTypes)' => TypeOK'
<1>1. TypeOK => PublisherTypes /\ SubscriberTypes /\ RecordTypes /\ DeviceTypes /\ LinkTypes
  BY DEF TypeOK, AnyVersion, Held, PublisherTypes, SubscriberTypes, RecordTypes, DeviceTypes, LinkTypes
<1>2. PublisherTypes /\ SubscriberTypes /\ RecordTypes /\ DeviceTypes /\ LinkTypes => TypeOK
  BY DEF TypeOK, AnyVersion, Held, PublisherTypes, SubscriberTypes, RecordTypes, DeviceTypes, LinkTypes
<1>3. (PublisherTypes /\ SubscriberTypes /\ RecordTypes /\ DeviceTypes /\ LinkTypes)' => TypeOK'
  BY DEF TypeOK, AnyVersion, Held, PublisherTypes, SubscriberTypes, RecordTypes, DeviceTypes, LinkTypes
<1> QED
  BY <1>1, <1>2, <1>3

\* The parts that a step leaves alone.
LEMMA TypesKept ==
  ASSUME TypeOK
  PROVE  /\ UNCHANGED <<current, publishing, worker, leaving, forgotten>> => PublisherTypes'
         /\ UNCHANGED subscribers => SubscriberTypes'
         /\ UNCHANGED pending => RecordTypes'
         /\ UNCHANGED deviceVars => DeviceTypes'
         /\ UNCHANGED radioVars => LinkTypes'
<1>1. PublisherTypes /\ SubscriberTypes /\ RecordTypes /\ DeviceTypes /\ LinkTypes
  BY TypeParts
<1>2. UNCHANGED <<current, publishing, worker, leaving, forgotten>> => PublisherTypes'
  BY <1>1 DEF PublisherTypes
<1>3. UNCHANGED subscribers => SubscriberTypes'
  BY <1>1 DEF SubscriberTypes
<1>4. UNCHANGED pending => RecordTypes'
  BY <1>1 DEF RecordTypes, Held
<1>5. UNCHANGED deviceVars => DeviceTypes'
  BY <1>1 DEF DeviceTypes, deviceVars
<1>6. UNCHANGED radioVars => LinkTypes'
  BY <1>1 DEF LinkTypes, radioVars
<1> QED
  BY <1>2, <1>3, <1>4, <1>5, <1>6

\* Fewer subscribers.
LEMMA FewerSubscribers ==
  ASSUME TypeOK, subscribers' \subseteq subscribers
  PROVE  SubscriberTypes'
<1>1. SubscriberTypes
  BY TypeParts
<1>2. IsFiniteSet(subscribers)
  BY <1>1, DevicesAssumption, FS_Subset DEF SubscriberTypes
<1>3. IsFiniteSet(subscribers') /\ Cardinality(subscribers') =< Cardinality(subscribers)
  BY <1>2, FS_Subset
<1>4. Cardinality(subscribers) \in Nat /\ Cardinality(subscribers') \in Nat
  BY <1>2, <1>3, FS_CardinalityType
<1>5. Cardinality(subscribers') =< MaximumPeers
  BY <1>1, <1>3, <1>4, MaximumPeersAssumption DEF SubscriberTypes
<1>6. subscribers' \subseteq Devices
  BY <1>1 DEF SubscriberTypes
<1> QED
  BY <1>5, <1>6 DEF SubscriberTypes

\* Records that are kept or cleared.
LEMMA FewerRecords ==
  ASSUME TypeOK, pending' \in [Devices -> AnyVersion],
         \A d \in Devices : pending'[d] = pending[d] \/ pending'[d] = NoValue
  PROVE  RecordTypes'
<1>1. RecordTypes
  BY TypeParts
<1>2. Held(pending') \subseteq Held(pending)
  BY DEF Held
<1>3. Cardinality(Held(pending')) =< MaximumPeers
  BY <1>1, <1>2, HeldShrinks DEF RecordTypes
<1> QED
  BY <1>3 DEF RecordTypes, Held
\* QueueUpdate keeps the types.
LEMMA QueueTypes ==
  ASSUME TypeOK, NEW d \in Devices, NEW v \in AnyVersion, NEW ms \in Seq(ToDevice),
         QueueUpdate(d, v, ms), UNCHANGED toPublisher
  PROVE  RecordTypes' /\ LinkTypes' /\ forgotten' \subseteq forgotten
<1>1. /\ pending' \in [Devices -> AnyVersion] /\ Cardinality(Held(pending')) =< MaximumPeers
      /\ toDevice' \in [Devices -> Seq(ToDevice)] /\ forgotten' \subseteq forgotten
  BY QueueFacts
<1>2. LinkTypes
  BY TypeParts
<1>3. RecordTypes'
  BY <1>1 DEF RecordTypes, Held
<1> QED
  BY <1>1, <1>2, <1>3 DEF LinkTypes

\* The threads of the publishing node's application.
LEMMA ApplicationTypes ==
  ASSUME TypeOK,
         \/ Publish \/ Restart \/ Reboot
         \/ \E d \in Devices : \/ PublishTo(d) \/ RemoveSubscriber(d)
                               \/ \E report \in PeerReports : PeerLost(d, report)
  PROVE  TypeOK'
<1>0. PublisherTypes /\ SubscriberTypes /\ RecordTypes /\ DeviceTypes /\ LinkTypes
  BY TypeParts
<1>1. TakeValue => current' \in Versions
  BY <1>0, BoundsAssumption DEF TakeValue, PublisherTypes, Versions, Epoch, Revision
<1>2. CASE Publish
  <2>1. publishing' \in [version : AnyVersion, left : SUBSET Devices]
    <3>1. current' \in AnyVersion
      BY <1>1, <1>2 DEF Publish, AnyVersion
    <3>2. Idle \in [version : AnyVersion, left : SUBSET Devices]
      BY DEF Idle, AnyVersion
    <3> QED
      BY <1>0, <1>2, <3>1, <3>2 DEF Publish, SubscriberTypes
  <2>2. PublisherTypes'
    BY <1>0, <1>1, <1>2, <2>1 DEF Publish, PublisherTypes
  <2>3. SubscriberTypes' /\ RecordTypes' /\ DeviceTypes' /\ LinkTypes'
    BY <1>2, TypesKept DEF Publish
  <2> QED
    BY <2>2, <2>3, TypeParts
<1>3. CASE Restart
  <2>1. PublisherTypes'
    BY <1>0, <1>1, <1>3 DEF Restart, PublisherTypes, SubscriberTypes
  <2>2. pending' = [d \in Devices |-> NoValue]
    BY <1>3 DEF Restart
  <2>3. RecordTypes'
    BY <2>2, FewerRecords DEF AnyVersion
  <2>4. SubscriberTypes' /\ DeviceTypes' /\ LinkTypes'
    BY <1>3, TypesKept DEF Restart
  <2> QED
    BY <2>1, <2>3, <2>4, TypeParts
<1>4. CASE Reboot
  <2>1. current' \in Versions
    BY <1>0, <1>4, BoundsAssumption DEF Reboot, PublisherTypes, Versions, Epoch
  <2>2. PublisherTypes'
    BY <1>4, <2>1 DEF Reboot, PublisherTypes, Idle, AnyVersion
  <2>3. pending' = [d \in Devices |-> NoValue]
    BY <1>4 DEF Reboot
  <2>4. RecordTypes'
    BY <2>3, FewerRecords DEF AnyVersion
  <2>5. SubscriberTypes'
    BY <1>4, FewerSubscribers DEF Reboot
  <2>6. DeviceTypes'
    BY <1>4, TypesKept DEF Reboot
  <2>7. LinkTypes'
    <3>1. << >> \in Seq(ToPublisher)
      OBVIOUS
    <3> QED
      BY <1>0, <1>4, <3>1 DEF Reboot, LinkTypes
  <2> QED
    BY <2>2, <2>4, <2>5, <2>6, <2>7, TypeParts
<1>5. ASSUME NEW d \in Devices, PublishTo(d)
      PROVE  TypeOK'
  <2>1. publishing.version \in AnyVersion /\ << >> \in Seq(ToDevice)
    BY <1>0 DEF PublisherTypes
  <2>2. RecordTypes' /\ LinkTypes' /\ forgotten' \subseteq forgotten
    BY <1>5, <2>1, QueueTypes DEF PublishTo
  <2>3. publishing' \in [version : AnyVersion, left : SUBSET Devices]
    BY <1>0, <1>5 DEF PublishTo, PublisherTypes, Idle, AnyVersion
  <2>4. PublisherTypes'
    BY <1>0, <1>5, <2>2, <2>3 DEF PublishTo, PublisherTypes
  <2>5. SubscriberTypes' /\ DeviceTypes'
    BY <1>5, TypesKept DEF PublishTo
  <2> QED
    BY <2>2, <2>4, <2>5, TypeParts
<1>6. ASSUME NEW d \in Devices, RemoveSubscriber(d)
      PROVE  TypeOK'
  <2>1. PublisherTypes'
    BY <1>0, <1>6 DEF RemoveSubscriber, PublisherTypes
  <2>2. SubscriberTypes'
    BY <1>6, FewerSubscribers DEF RemoveSubscriber
  <2>3. RecordTypes' /\ DeviceTypes' /\ LinkTypes'
    BY <1>6, TypesKept DEF RemoveSubscriber
  <2> QED
    BY <2>1, <2>2, <2>3, TypeParts
<1>7. ASSUME NEW d \in Devices, NEW report \in PeerReports, PeerLost(d, report)
      PROVE  TypeOK'
  <2>1. PublisherTypes'
    BY <1>0, <1>7 DEF PeerLost, PublisherTypes
  <2>2. RecordTypes'
    <3>1. pending' = [pending EXCEPT ![d] = NoValue]
      BY <1>7 DEF PeerLost
    <3>2. /\ pending' \in [Devices -> AnyVersion]
          /\ \A q \in Devices : pending'[q] = pending[q] \/ pending'[q] = NoValue
      BY <1>0, <3>1 DEF RecordTypes, AnyVersion
    <3> QED
      BY <3>2, FewerRecords
  <2>3. LinkTypes'
    <3>1. <<Control("Disconnect")>> \in Seq(ToDevice)
      BY MessageTypes
    <3>2. toDevice' \in [Devices -> Seq(ToDevice)]
      BY <1>0, <1>7, <3>1, SentToDevice DEF PeerLost, LinkTypes
    <3> QED
      BY <1>0, <1>7, <3>2 DEF PeerLost, LinkTypes
  <2>4. SubscriberTypes' /\ DeviceTypes'
    BY <1>7, TypesKept DEF PeerLost
  <2> QED
    BY <2>1, <2>2, <2>3, <2>4, TypeParts
<1> QED
  BY <1>2, <1>3, <1>4, <1>5, <1>6, <1>7
\* A handler that takes the snapshot: the reply is kept with it, or sent.
LEMMA SnapshotTypes ==
  ASSUME TypeOK, NEW d \in Devices, NEW ms \in Seq(ToDevice), TakeSnapshot(d, ms),
         UNCHANGED <<current, publishing, leaving, forgotten>>
  PROVE  PublisherTypes' /\ toDevice' \in [Devices -> Seq(ToDevice)]
<1>0. PublisherTypes /\ LinkTypes
  BY TypeParts
<1>1. CASE Revision(current) = 0
  <2>1. SendToDevice(d, ms) /\ UNCHANGED worker
    BY <1>1 DEF TakeSnapshot
  <2>2. toDevice' \in [Devices -> Seq(ToDevice)]
    BY <2>1, SentToDevice
  <2> QED
    BY <2>1, <2>2, TypesKept
<1>2. CASE Revision(current) # 0
  <2>1. /\ worker' = [device |-> d, version |-> current, messages |-> ms]
        /\ UNCHANGED toDevice
    BY <1>2 DEF TakeSnapshot
  <2>2. worker' \in [device : Devices, version : Versions, messages : Seq(ToDevice)]
    BY <1>0, <2>1 DEF PublisherTypes
  <2> QED
    BY <1>0, <2>1, <2>2 DEF PublisherTypes, LinkTypes
<1> QED
  BY <1>1, <1>2

\* The worker of the publishing node.
LEMMA WorkerTypes ==
  ASSUME TypeOK,
         \/ QueueSnapshot \/ \E due \in SUBSET Devices : Maintain(due)
         \/ \E d \in Devices : PublisherFrame(d)
  PROVE  TypeOK'
<1>0. PublisherTypes /\ SubscriberTypes /\ RecordTypes /\ DeviceTypes /\ LinkTypes
  BY TypeParts
<1>1. ASSUME NEW d \in Devices, NEW type, Receives(d, type)
      PROVE  toPublisher' \in [Devices -> Seq(ToPublisher)]
  BY <1>1, TakenToPublisher DEF Receives
<1>2. ASSUME NEW d \in Devices, pending' = [pending EXCEPT ![d] = NoValue]
      PROVE  RecordTypes'
  <2>1. /\ pending' \in [Devices -> AnyVersion]
        /\ \A q \in Devices : pending'[q] = pending[q] \/ pending'[q] = NoValue
    BY <1>0, <1>2 DEF RecordTypes, AnyVersion
  <2> QED
    BY <2>1, FewerRecords
<1>3. CASE QueueSnapshot
  <2>1. worker.device \in Devices /\ worker.version \in AnyVersion /\ worker.messages \in Seq(ToDevice)
    BY <1>0, <1>3 DEF QueueSnapshot, PublisherTypes, AnyVersion
  <2>2. RecordTypes' /\ LinkTypes' /\ forgotten' \subseteq forgotten
    BY <1>3, <2>1, QueueTypes DEF QueueSnapshot
  <2>3. PublisherTypes'
    BY <1>0, <1>3, <2>2 DEF QueueSnapshot, PublisherTypes
  <2>4. SubscriberTypes' /\ DeviceTypes'
    BY <1>3, TypesKept DEF QueueSnapshot
  <2> QED
    BY <2>2, <2>3, <2>4, TypeParts
<1>4. ASSUME NEW due \in SUBSET Devices, Maintain(due)
      PROVE  TypeOK'
  <2>1. PICK failed \in SUBSET {d \in due : KeepsRecord(d)} :
             /\ pending' = [d \in Devices |->
                  IF ~KeepsRecord(d) \/ d \in failed THEN NoValue
                  ELSE IF d \in due THEN current ELSE pending[d]]
             /\ toDevice' = [d \in Devices |->
                  IF d \in due \ failed /\ KeepsRecord(d)
                    THEN Sent(toDevice[d], <<Update(current)>>) ELSE toDevice[d]]
             /\ forgotten' = {d \in forgotten : ~(d \in due /\ KeepsRecord(d))} \cup failed
    BY <1>4 DEF Maintain
  <2>2. current \in AnyVersion
    BY <1>0 DEF PublisherTypes, AnyVersion
  <2>3. RecordTypes'
    <3>1. pending' \in [Devices -> AnyVersion]
      BY <1>0, <2>1, <2>2 DEF RecordTypes, AnyVersion
    <3>2. \A d \in Devices : pending'[d] # NoValue => KeepsRecord(d)
      BY <2>1
    <3>3. Held(pending') \subseteq Held(pending)
      BY <3>2 DEF Held, KeepsRecord
    <3>4. Cardinality(Held(pending')) =< MaximumPeers
      BY <1>0, <3>3, HeldShrinks DEF RecordTypes
    <3> QED
      BY <3>1, <3>4 DEF RecordTypes, Held
  <2>4. LinkTypes'
    <3> DEFINE u == <<Update(current)>>
    <3>1. u \in Seq(ToDevice)
      BY <2>2, MessageTypes
    <3> HIDE DEF u
    <3>2. \A d \in Devices : Sent(toDevice[d], u) \in Seq(ToDevice)
      BY <1>0, <3>1, SentFacts DEF LinkTypes
    <3>3. toDevice' \in [Devices -> Seq(ToDevice)]
      BY <1>0, <2>1, <3>2 DEF u, LinkTypes
    <3> QED
      BY <1>0, <1>4, <3>3 DEF Maintain, LinkTypes
  <2>5. PublisherTypes'
    BY <1>0, <1>4, <2>1 DEF Maintain, PublisherTypes
  <2>6. SubscriberTypes' /\ DeviceTypes'
    BY <1>4, TypesKept DEF Maintain
  <2> QED
    BY <2>3, <2>4, <2>5, <2>6, TypeParts
<1>5. ASSUME NEW d \in Devices, HandleSubscribe(d)
      PROVE  TypeOK'
  <2> DEFINE reply == <<Control(AcknowledgementOf("Subscribe"))>>
  <2>1. reply \in Seq(ToDevice)
    BY MessageTypes DEF AcknowledgementOf
  <2>2. TakeSnapshot(d, reply) /\ UNCHANGED <<current, publishing, pending, leaving, forgotten, deviceVars>>
    BY <1>5 DEF HandleSubscribe
  <2> HIDE DEF reply
  <2>3. PublisherTypes' /\ toDevice' \in [Devices -> Seq(ToDevice)]
    BY <2>1, <2>2, SnapshotTypes
  <2>4. LinkTypes'
    BY <1>1, <1>5, <2>3 DEF HandleSubscribe, LinkTypes
  <2>5. SubscriberTypes'
    BY <1>0, <1>5 DEF HandleSubscribe, SubscriberTypes
  <2>6. RecordTypes' /\ DeviceTypes'
    BY <2>2, TypesKept
  <2> QED
    BY <2>3, <2>4, <2>5, <2>6, TypeParts
<1>6. ASSUME NEW d \in Devices, HandleResynchronize(d)
      PROVE  TypeOK'
  <2>1. UNCHANGED <<current, publishing, subscribers, pending, leaving, forgotten, deviceVars>>
    BY <1>6 DEF HandleResynchronize
  <2>2. << >> \in Seq(ToDevice)
    OBVIOUS
  <2>3. PublisherTypes' /\ toDevice' \in [Devices -> Seq(ToDevice)]
    <3>1. CASE d \in subscribers
      <4>1. TakeSnapshot(d, << >>)
        BY <1>6, <3>1 DEF HandleResynchronize
      <4> QED
        BY <2>1, <2>2, <4>1, SnapshotTypes
    <3>2. CASE d \notin subscribers
      BY <1>0, <1>6, <2>1, <3>2, TypesKept DEF HandleResynchronize, LinkTypes
    <3> QED
      BY <3>1, <3>2
  <2>4. LinkTypes'
    BY <1>1, <1>6, <2>3 DEF HandleResynchronize, LinkTypes
  <2>5. SubscriberTypes' /\ RecordTypes' /\ DeviceTypes'
    BY <2>1, TypesKept
  <2> QED
    BY <2>3, <2>4, <2>5, TypeParts
<1>7. ASSUME NEW d \in Devices, HandleUnsubscribe(d)
      PROVE  TypeOK'
  <2>1. PublisherTypes'
    BY <1>0, <1>7 DEF HandleUnsubscribe, PublisherTypes
  <2>2. SubscriberTypes' /\ RecordTypes' /\ DeviceTypes'
    BY <1>2, <1>7, FewerSubscribers, TypesKept DEF HandleUnsubscribe
  <2> DEFINE reply == <<Control(AcknowledgementOf("Unsubscribe"))>>
  <2>3. reply \in Seq(ToDevice)
    BY MessageTypes DEF AcknowledgementOf
  <2>4. SendToDevice(d, reply)
    BY <1>7 DEF HandleUnsubscribe
  <2> HIDE DEF reply
  <2>5. toDevice' \in [Devices -> Seq(ToDevice)]
    BY <2>3, <2>4, SentToDevice
  <2>6. LinkTypes'
    BY <1>1, <1>7, <2>5 DEF HandleUnsubscribe, LinkTypes
  <2> QED
    BY <2>1, <2>2, <2>6, TypeParts
<1>8. ASSUME NEW d \in Devices, HandleDisconnect(d)
      PROVE  TypeOK'
  <2>1. PublisherTypes'
    BY <1>0, <1>8 DEF HandleDisconnect, PublisherTypes
  <2>2. SubscriberTypes' /\ RecordTypes' /\ DeviceTypes'
    BY <1>2, <1>8, FewerSubscribers, TypesKept DEF HandleDisconnect
  <2>3. LinkTypes'
    BY <1>0, <1>1, <1>8 DEF HandleDisconnect, LinkTypes
  <2> QED
    BY <2>1, <2>2, <2>3, TypeParts
<1>9. ASSUME NEW d \in Devices, HandleAcknowledgement(d)
      PROVE  TypeOK'
  <2>1. PublisherTypes' /\ SubscriberTypes' /\ DeviceTypes'
    BY <1>9, TypesKept DEF HandleAcknowledgement
  <2>2. RecordTypes'
    <3>1. /\ pending' \in [Devices -> AnyVersion]
          /\ \A q \in Devices : pending'[q] = pending[q] \/ pending'[q] = NoValue
      BY <1>0, <1>9 DEF HandleAcknowledgement, RecordTypes, AnyVersion
    <3> QED
      BY <3>1, FewerRecords
  <2>3. LinkTypes'
    BY <1>0, <1>1, <1>9 DEF HandleAcknowledgement, LinkTypes
  <2> QED
    BY <2>1, <2>2, <2>3, TypeParts
<1> QED
  BY <1>3, <1>4, <1>5, <1>6, <1>7, <1>8, <1>9 DEF PublisherFrame
\* A device sends one message.
LEMMA DeviceSends ==
  ASSUME TypeOK, NEW d \in Devices, NEW m \in ToPublisher, SendToPublisher(d, <<m>>),
         UNCHANGED toDevice \/ toDevice' \in [Devices -> Seq(ToDevice)]
  PROVE  LinkTypes'
<1>1. <<m>> \in Seq(ToPublisher)
  OBVIOUS
<1>2. toPublisher' \in [Devices -> Seq(ToPublisher)]
  BY <1>1, SentToPublisher
<1>3. toDevice \in [Devices -> Seq(ToDevice)]
  BY TypeParts DEF LinkTypes
<1> QED
  BY <1>2, <1>3 DEF LinkTypes

\* A subscribing device.
LEMMA SubscriberSideTypes ==
  ASSUME TypeOK, NEW d \in Devices,
         \/ \E report \in PeerReports : PublisherLost(d, report)
         \/ OnStateSubscribed(d) \/ OnStateUnsubscribed(d) \/ PeerAvailable(d)
         \/ RestartDevice(d) \/ RequestResynchronization(d) \/ MaintainSubscriptions(d)
         \/ DeviceFrame(d) \/ Lose(d)
  PROVE  TypeOK'
<1>0. PublisherTypes /\ SubscriberTypes /\ RecordTypes /\ DeviceTypes /\ LinkTypes
  BY TypeParts
<1>1. UNCHANGED publisherVars
  BY DEF PublisherLost, OnStateSubscribed, OnStateUnsubscribed, PeerAvailable, RestartDevice,
         RequestResynchronization, MaintainSubscriptions, DeviceFrame, HandleUpdate,
         HandleSubscriptionAcknowledgement, HandlePublisherDisconnect, Lose
<1>2. PublisherTypes' /\ SubscriberTypes' /\ RecordTypes'
  BY <1>1, TypesKept DEF publisherVars
<1>3. \A t \in {"Subscribe", "Unsubscribe", "Resynchronize", "Disconnect"} : Control(t) \in ToPublisher
  BY MessageTypes
<1>4. ASSUME NEW t \in {"Subscribe", "Unsubscribe"}, SetSubscriptionIntent(d, t), UNCHANGED toDevice
      PROVE  LinkTypes' /\ intent' \in [Devices -> {"Subscribe", "Unsubscribe", NoIntent}]
  <2>1. CASE intent' = [intent EXCEPT ![d] = t] /\ SendToPublisher(d, <<Control(t)>>)
    <3>1. LinkTypes'
      BY <1>3, <1>4, <2>1, DeviceSends
    <3> QED
      BY <1>0, <2>1, <3>1 DEF DeviceTypes
  <2>2. CASE UNCHANGED <<intent, toPublisher>>
    BY <1>0, <1>4, <2>2 DEF DeviceTypes, LinkTypes
  <2> QED
    BY <1>4, <2>1, <2>2 DEF SetSubscriptionIntent
<1>5. ASSUME NEW types, Arrives(d, types)
      PROVE  /\ toDevice' \in [Devices -> Seq(ToDevice)]
             /\ Head(toDevice[d]) \in ToDevice
  BY <1>5, TakenToDevice DEF Arrives
<1>6. CASE OnStateSubscribed(d)
  <2>1. SetSubscriptionIntent(d, "Subscribe") /\ UNCHANGED <<remote, toDevice>>
    BY <1>6 DEF OnStateSubscribed
  <2>2. LinkTypes' /\ intent' \in [Devices -> {"Subscribe", "Unsubscribe", NoIntent}]
    BY <1>4, <2>1
  <2>3. wanted' \in [Devices -> BOOLEAN]
    BY <1>0, <1>6 DEF OnStateSubscribed, DeviceTypes
  <2>4. DeviceTypes'
    BY <1>0, <2>1, <2>2, <2>3 DEF DeviceTypes
  <2> QED
    BY <1>2, <2>2, <2>4, TypeParts
<1>7. CASE OnStateUnsubscribed(d)
  <2>1. SetSubscriptionIntent(d, "Unsubscribe") /\ UNCHANGED <<remote, toDevice>>
    BY <1>7 DEF OnStateUnsubscribed
  <2>2. LinkTypes' /\ intent' \in [Devices -> {"Subscribe", "Unsubscribe", NoIntent}]
    BY <1>4, <2>1
  <2>3. wanted' \in [Devices -> BOOLEAN]
    BY <1>0, <1>7 DEF OnStateUnsubscribed, DeviceTypes
  <2>4. DeviceTypes'
    BY <1>0, <2>1, <2>2, <2>3 DEF DeviceTypes
  <2> QED
    BY <1>2, <2>2, <2>4, TypeParts
<1>8. CASE PeerAvailable(d)
  <2>1. LinkTypes'
    BY <1>3, <1>8, DeviceSends DEF PeerAvailable
  <2>2. DeviceTypes'
    BY <1>0, <1>8 DEF PeerAvailable, DeviceTypes
  <2> QED
    BY <1>2, <2>1, <2>2, TypeParts
<1>9. CASE RestartDevice(d)
  <2>1. LinkTypes'
    BY <1>9, TypesKept DEF RestartDevice
  <2>2. DeviceTypes'
    BY <1>0, <1>9 DEF RestartDevice, DeviceTypes
  <2> QED
    BY <1>2, <2>1, <2>2, TypeParts
<1>10. ASSUME NEW report \in PeerReports, PublisherLost(d, report)
       PROVE  TypeOK'
  <2>1. LinkTypes'
    <3>1. CASE report = "disconnect"
      <4>1. SendToPublisher(d, <<Control("Disconnect")>>) /\ UNCHANGED toDevice
        BY <1>10, <3>1 DEF PublisherLost
      <4> QED
        BY <1>3, <4>1, DeviceSends
    <3>2. CASE report # "disconnect"
      BY <1>0, <1>10, <3>2 DEF PublisherLost, LinkTypes
    <3> QED
      BY <3>1, <3>2
  <2>2. DeviceTypes'
    BY <1>0, <1>10 DEF PublisherLost, DeviceTypes
  <2> QED
    BY <1>2, <2>1, <2>2, TypeParts
<1>11. CASE RequestResynchronization(d)
  <2>1. LinkTypes'
    BY <1>3, <1>11, DeviceSends DEF RequestResynchronization
  <2>2. DeviceTypes'
    BY <1>11, TypesKept DEF RequestResynchronization
  <2> QED
    BY <1>2, <2>1, <2>2, TypeParts
<1>12. CASE MaintainSubscriptions(d)
  <2>1. Control(intent[d]) \in ToPublisher
    BY <1>0, <1>3, <1>12 DEF MaintainSubscriptions, DeviceTypes
  <2>2. LinkTypes'
    BY <1>12, <2>1, DeviceSends DEF MaintainSubscriptions
  <2>3. DeviceTypes'
    BY <1>12, TypesKept DEF MaintainSubscriptions
  <2> QED
    BY <1>2, <2>2, <2>3, TypeParts
<1>13. CASE HandleUpdate(d)
  <2> DEFINE v == Head(toDevice[d]).version
  <2>1. toDevice' \in [Devices -> Seq(ToDevice)] /\ v \in AnyVersion
    BY <1>5, <1>13, MessageTypes DEF HandleUpdate
  <2>2. UNCHANGED <<wanted, intent>>
    BY <1>13 DEF HandleUpdate
  <2>3. CASE wanted[d] /\ (v = remote[d] \/ Newer(v, remote[d]))
    <3>1. remote' = [remote EXCEPT ![d] = v] /\ SendToPublisher(d, <<Acknowledgement(v)>>)
      BY <1>13, <2>3 DEF HandleUpdate
    <3> HIDE DEF v
    <3>2. LinkTypes'
      BY <2>1, <3>1, MessageTypes, DeviceSends
    <3>3. DeviceTypes'
      BY <1>0, <2>1, <2>2, <3>1 DEF DeviceTypes
    <3> QED
      BY <1>2, <3>2, <3>3, TypeParts
  <2>4. CASE ~(wanted[d] /\ (v = remote[d] \/ Newer(v, remote[d])))
    <3>1. UNCHANGED <<remote, toPublisher>>
      BY <1>13, <2>4 DEF HandleUpdate
    <3>2. LinkTypes' /\ DeviceTypes'
      BY <1>0, <2>1, <2>2, <3>1 DEF LinkTypes, DeviceTypes
    <3> QED
      BY <1>2, <3>2, TypeParts
  <2> QED
    BY <2>3, <2>4
<1>14. CASE HandleSubscriptionAcknowledgement(d) \/ HandlePublisherDisconnect(d)
  <2>1. LinkTypes'
    BY <1>0, <1>5, <1>14
       DEF HandleSubscriptionAcknowledgement, HandlePublisherDisconnect, LinkTypes
  <2>2. DeviceTypes'
    BY <1>0, <1>14
       DEF HandleSubscriptionAcknowledgement, HandlePublisherDisconnect, DeviceTypes
  <2> QED
    BY <1>2, <2>1, <2>2, TypeParts
<1>15. CASE Lose(d)
  <2>1. LinkTypes'
    BY <1>0, <1>15, TakenToDevice, TakenToPublisher DEF Lose, LinkTypes
  <2>2. DeviceTypes'
    BY <1>15, TypesKept DEF Lose
  <2> QED
    BY <1>2, <2>1, <2>2, TypeParts
<1> QED
  BY <1>6, <1>7, <1>8, <1>9, <1>10, <1>11, <1>12, <1>13, <1>14, <1>15 DEF DeviceFrame

\* The type invariant holds at the start.
LEMMA TypeInit ==
  ASSUME Init
  PROVE  TypeOK
<1>1. PublisherTypes
  BY BoundsAssumption DEF Init, PublisherTypes, Versions, Idle, AnyVersion
<1>2. SubscriberTypes
  BY FS_EmptySet, MaximumPeersAssumption DEF Init, SubscriberTypes
<1>3. RecordTypes
  <2>1. Held(pending) = {}
    BY DEF Init, Held
  <2>2. Cardinality({}) = 0
    BY FS_EmptySet
  <2>3. Cardinality(Held(pending)) =< MaximumPeers
    BY <2>1, <2>2, MaximumPeersAssumption
  <2>4. pending \in [Devices -> AnyVersion]
    BY DEF Init, AnyVersion
  <2> QED
    BY <2>3, <2>4 DEF RecordTypes
<1>4. DeviceTypes
  BY DEF Init, DeviceTypes, AnyVersion
<1>5. LinkTypes
  <2>1. << >> \in Seq(ToPublisher) /\ << >> \in Seq(ToDevice)
    OBVIOUS
  <2> QED
    BY <2>1 DEF Init, LinkTypes
<1> QED
  BY <1>1, <1>2, <1>3, <1>4, <1>5, TypeParts

\* ... and every step keeps it.
LEMMA TypeNext ==
  ASSUME TypeOK, [Next]_vars
  PROVE  TypeOK'
<1>1. CASE UNCHANGED vars
  BY <1>1, TypesKept, TypeParts DEF vars, publisherVars
<1>2. CASE Next
  <2>1. CASE \/ Publish \/ Restart \/ Reboot
             \/ \E d \in Devices : \/ PublishTo(d) \/ RemoveSubscriber(d)
                                   \/ \E report \in PeerReports : PeerLost(d, report)
    BY <2>1, ApplicationTypes
  <2>2. CASE \/ QueueSnapshot \/ \E due \in SUBSET Devices : Maintain(due)
             \/ \E d \in Devices : PublisherFrame(d)
    BY <2>2, WorkerTypes
  <2>3. ASSUME NEW d \in Devices,
               \/ \E report \in PeerReports : PublisherLost(d, report)
               \/ OnStateSubscribed(d) \/ OnStateUnsubscribed(d) \/ PeerAvailable(d)
               \/ RestartDevice(d) \/ RequestResynchronization(d) \/ MaintainSubscriptions(d)
               \/ DeviceFrame(d) \/ Lose(d)
        PROVE  TypeOK'
    BY <2>3, SubscriberSideTypes
  <2> QED
    BY <1>2, <2>1, <2>2, <2>3 DEF Next
<1> QED
  BY <1>1, <1>2

\* Subscribers and records keep to TMaximumPeers whatever messages arrive and
\* however the threads of the node interleave, and each direction of a link
\* carries its own messages.
THEOREM TransportTypes == Spec => []TypeOK
<1>1. Init => TypeOK
  BY TypeInit
<1>2. TypeOK /\ [Next]_vars => TypeOK'
  BY TypeNext
<1> QED
  BY <1>1, <1>2, PTL DEF Spec
-----------------------------------------------------------------------------
(* Nothing newer than the State itself is under way, and no acknowledgement *)
(* is newer than what its sender holds.                                     *)

ThreadsCurrent ==
  /\ publishing.left # {} => publishing.version = current
  /\ worker # NoJob => /\ worker.version = current
                       /\ \A m \in Messages(worker.messages) : m.version = NoValue
RemoteControl == \A d \in Devices : UpTo(remote[d], current)
UpdateControl == \A d \in Devices : \A m \in Messages(toDevice[d]) : UpTo(m.version, current)
AcknowledgementControl ==
  \A d \in Devices : \A m \in Messages(toPublisher[d]) : UpTo(m.version, remote[d])

VersionControl == ThreadsCurrent /\ RemoteControl /\ UpdateControl /\ AcknowledgementControl

\* What is on a link are messages, with versions.
LEMMA OnLinks ==
  ASSUME TypeOK, NEW d \in Devices
  PROVE  /\ \A m \in Messages(toDevice[d]) : m \in ToDevice /\ m.version \in AnyVersion
         /\ \A m \in Messages(toPublisher[d]) : m \in ToPublisher /\ m.version \in AnyVersion
<1>1. toDevice[d] \in Seq(ToDevice) /\ toPublisher[d] \in Seq(ToPublisher)
  BY TypeParts DEF LinkTypes
<1>2. Messages(toDevice[d]) \subseteq ToDevice /\ Messages(toPublisher[d]) \subseteq ToPublisher
  BY <1>1 DEF Messages
<1> QED
  BY <1>2, MessageTypes

\* The State's version only grows.
LEMMA CurrentGrows ==
  ASSUME TypeOK, TakeValue \/ UNCHANGED current \/ Reboot
  PROVE  UpTo(current, current')
<1>1. current \in AnyVersion
  BY TypeParts DEF PublisherTypes, AnyVersion
<1>2. current[1] \in Nat /\ current[2] \in Nat
  BY <1>1, VersionFields
<1>3. CASE TakeValue
  BY <1>2, <1>3 DEF TakeValue, UpTo, Newer, Epoch, Revision
<1>4. CASE UNCHANGED current
  BY <1>1, <1>4, VersionOrder
<1>5. CASE Reboot
  BY <1>2, <1>5 DEF Reboot, UpTo, Newer, Epoch, Revision
<1> QED
  BY <1>3, <1>4, <1>5

\* The State's version grows, and what is sent to the devices is not newer.
LEMMA UpdatesKept ==
  ASSUME TypeOK, TypeOK', RemoteControl, UpdateControl, UpTo(current, current'),
         NEW N, \A m \in N : m.version \in {NoValue, current},
         \A q \in Devices : Messages(toDevice'[q]) \subseteq Messages(toDevice[q]) \cup N
  PROVE  /\ UpdateControl'
         /\ UNCHANGED remote => RemoteControl'
<1>1. current \in AnyVersion /\ current' \in AnyVersion /\ NoValue \in AnyVersion
  BY DEF TypeOK, AnyVersion
<1>2. ASSUME NEW q \in Devices, NEW m \in Messages(toDevice'[q])
      PROVE  UpTo(m.version, current')
  <2>1. CASE m \in Messages(toDevice[q])
    <3>1. m.version \in AnyVersion /\ UpTo(m.version, current)
      BY <2>1, OnLinks DEF UpdateControl
    <3> QED
      BY <1>1, <3>1, VersionOrder
  <2>2. CASE m \in N
    <3>1. CASE m.version = NoValue
      BY <1>1, <3>1, VersionOrder
    <3>2. CASE m.version = current
      BY <3>2
    <3> QED
      BY <2>2, <3>1, <3>2
  <2> QED
    BY <1>2, <2>1, <2>2
<1>3. ASSUME UNCHANGED remote, NEW q \in Devices
      PROVE  UpTo(remote'[q], current')
  <2>1. remote[q] \in AnyVersion /\ UpTo(remote[q], current)
    BY TypeParts DEF DeviceTypes, RemoteControl
  <2> QED
    BY <1>1, <1>3, <2>1, VersionOrder
<1> QED
  BY <1>2, <1>3 DEF UpdateControl, RemoteControl

\* What is sent to the publishing node has no version, or the one its sender holds.
LEMMA AcknowledgementsKept ==
  ASSUME TypeOK, TypeOK', AcknowledgementControl,
         \A q \in Devices : UpTo(remote[q], remote'[q]),
         \A q \in Devices : \A m \in Messages(toPublisher'[q]) :
           m \in Messages(toPublisher[q]) \/ m.version = NoValue \/ m.version = remote'[q]
  PROVE  AcknowledgementControl'
<1>1. ASSUME NEW q \in Devices, NEW m \in Messages(toPublisher'[q])
      PROVE  UpTo(m.version, remote'[q])
  <2>1. remote[q] \in AnyVersion /\ remote'[q] \in AnyVersion /\ NoValue \in AnyVersion
    BY DEF TypeOK, AnyVersion
  <2>2. CASE m \in Messages(toPublisher[q])
    <3>1. m.version \in AnyVersion /\ UpTo(m.version, remote[q])
      BY <2>2, OnLinks DEF AcknowledgementControl
    <3> QED
      BY <2>1, <3>1, VersionOrder
  <2>3. CASE m.version = NoValue
    BY <2>1, <2>3, VersionOrder
  <2>4. CASE m.version = remote'[q]
    BY <2>1, <2>4, VersionOrder
  <2> QED
    BY <1>1, <2>2, <2>3, <2>4
<1> QED
  BY <1>1 DEF AcknowledgementControl

\* With remote left alone.
LEMMA AcknowledgementsStay ==
  ASSUME TypeOK, TypeOK', AcknowledgementControl, UNCHANGED remote,
         \A q \in Devices : \A m \in Messages(toPublisher'[q]) :
           m \in Messages(toPublisher[q]) \/ m.version = NoValue
  PROVE  AcknowledgementControl'
<1>1. \A q \in Devices : remote[q] \in AnyVersion
  BY DEF TypeOK, AnyVersion
<1>2. \A q \in Devices : UpTo(remote[q], remote'[q])
  BY <1>1, VersionOrder
<1> QED
  BY <1>2, AcknowledgementsKept
\* QueueUpdate of the State's version sends nothing newer.
LEMMA QueueVersions ==
  ASSUME TypeOK, TypeOK', RemoteControl, UpdateControl, AcknowledgementControl,
         NEW d \in Devices, NEW ms \in Seq(ToDevice), \A m \in Messages(ms) : m.version = NoValue,
         QueueUpdate(d, current, ms), UNCHANGED <<current, remote, toPublisher>>
  PROVE  RemoteControl' /\ UpdateControl' /\ AcknowledgementControl'
<1>1. current \in AnyVersion
  BY DEF TypeOK, AnyVersion
<1> DEFINE N == Messages(ms) \cup {Update(current)}
<1>2. \A q \in Devices : Messages(toDevice'[q]) \subseteq Messages(toDevice[q]) \cup N
  <2>1. \A q \in Devices : Messages(toDevice'[q]) \subseteq
          Messages(toDevice[q]) \cup Messages(ms) \cup {Update(current)}
    BY <1>1, QueueFacts
  <2> QED
    BY <2>1
<1>3. \A m \in N : m.version \in {NoValue, current}
  BY <1>1, MessageTypes
<1> HIDE DEF N
<1>4. UpTo(current, current')
  BY CurrentGrows
<1>5. RemoteControl' /\ UpdateControl'
  BY <1>2, <1>3, <1>4, UpdatesKept
<1>6. AcknowledgementControl'
  BY AcknowledgementsStay
<1> QED
  BY <1>5, <1>6

\* The threads of the publishing node's application.
LEMMA ApplicationVersions ==
  ASSUME ~PublishDuringSnapshot, TypeOK, TypeOK', VersionControl,
         \/ Publish \/ Restart \/ Reboot
         \/ \E d \in Devices : \/ PublishTo(d) \/ RemoveSubscriber(d)
                               \/ \E report \in PeerReports : PeerLost(d, report)
  PROVE  VersionControl'
<1>0. ThreadsCurrent /\ RemoteControl /\ UpdateControl /\ AcknowledgementControl
  BY DEF VersionControl
<1>1. ASSUME UNCHANGED radioVars, UNCHANGED remote, UpTo(current, current')
      PROVE  RemoteControl' /\ UpdateControl' /\ AcknowledgementControl'
  <2> DEFINE N == {}
  <2>1. /\ \A q \in Devices : Messages(toDevice'[q]) \subseteq Messages(toDevice[q]) \cup N
        /\ \A m \in N : m.version \in {NoValue, current}
    BY <1>1 DEF radioVars
  <2> HIDE DEF N
  <2>2. \A q \in Devices : \A m \in Messages(toPublisher'[q]) :
           m \in Messages(toPublisher[q]) \/ m.version = NoValue
    BY <1>1 DEF radioVars
  <2>3. RemoteControl' /\ UpdateControl'
    BY <1>0, <1>1, <2>1, UpdatesKept
  <2> QED
    BY <1>0, <1>1, <2>2, <2>3, AcknowledgementsStay
<1>2. CASE Publish
  <2>1. TakeValue /\ worker = NoJob /\ worker' = NoJob
    BY <1>2 DEF Publish, TakeValue
  <2>2. RemoteControl' /\ UpdateControl' /\ AcknowledgementControl'
    BY <1>1, <1>2, <2>1, CurrentGrows DEF Publish, deviceVars
  <2>3. ThreadsCurrent'
    BY <1>2, <2>1 DEF Publish, ThreadsCurrent, Idle
  <2> QED
    BY <2>2, <2>3 DEF VersionControl
<1>3. CASE Restart
  <2>1. RemoteControl' /\ UpdateControl' /\ AcknowledgementControl'
    BY <1>1, <1>3, CurrentGrows DEF Restart, deviceVars
  <2>2. CASE TakeValue
    <3>1. publishing' = Idle /\ worker' = NoJob
      BY <1>3, <2>2 DEF Restart, TakeValue
    <3>2. ThreadsCurrent'
      BY <3>1 DEF ThreadsCurrent, Idle
    <3> QED
      BY <2>1, <3>2 DEF VersionControl
  <2>3. CASE UNCHANGED current
    <3>1. ThreadsCurrent'
      BY <1>0, <1>3, <2>3 DEF Restart, ThreadsCurrent
    <3> QED
      BY <2>1, <3>1 DEF VersionControl
  <2> QED
    BY <1>3, <2>2, <2>3 DEF Restart
<1>4. CASE Reboot
  <2>1. UpTo(current, current')
    BY <1>4, CurrentGrows
  <2>2. UNCHANGED <<remote, toDevice>> /\ toPublisher' = [d \in Devices |-> << >>]
    BY <1>4 DEF Reboot, deviceVars
  <2> DEFINE N == {}
  <2>3. /\ \A q \in Devices : Messages(toDevice'[q]) \subseteq Messages(toDevice[q]) \cup N
        /\ \A m \in N : m.version \in {NoValue, current}
    BY <2>2
  <2> HIDE DEF N
  <2>4. RemoteControl' /\ UpdateControl'
    BY <1>0, <2>1, <2>2, <2>3, UpdatesKept
  <2>5. \A q \in Devices : Messages(toPublisher'[q]) = {}
    BY <2>2 DEF Messages
  <2>6. AcknowledgementControl'
    BY <2>5 DEF AcknowledgementControl
  <2>7. ThreadsCurrent'
    BY <1>4 DEF Reboot, ThreadsCurrent, Idle
  <2> QED
    BY <2>4, <2>6, <2>7 DEF VersionControl
<1>5. ASSUME NEW d \in Devices, PublishTo(d)
      PROVE  VersionControl'
  <2>1. publishing.version = current
    BY <1>0, <1>5 DEF PublishTo, ThreadsCurrent
  <2>2. << >> \in Seq(ToDevice) /\ \A m \in Messages(<< >>) : m.version = NoValue
    BY DEF Messages
  <2>3. QueueUpdate(d, current, << >>) /\ UNCHANGED <<current, remote, toPublisher>>
    BY <1>5, <2>1 DEF PublishTo, deviceVars
  <2>4. RemoteControl' /\ UpdateControl' /\ AcknowledgementControl'
    BY <1>0, <2>2, <2>3, QueueVersions
  <2>5. publishing'.left # {} => publishing'.version = publishing.version
    BY <1>5 DEF PublishTo, Idle, TypeOK
  <2>6. ThreadsCurrent'
    BY <1>0, <1>5, <2>1, <2>5 DEF PublishTo, ThreadsCurrent
  <2> QED
    BY <2>4, <2>6 DEF VersionControl
<1>6. ASSUME NEW d \in Devices, RemoveSubscriber(d)
      PROVE  VersionControl'
  <2>1. RemoteControl' /\ UpdateControl' /\ AcknowledgementControl'
    BY <1>1, <1>6, CurrentGrows DEF RemoveSubscriber, deviceVars
  <2>2. ThreadsCurrent'
    BY <1>0, <1>6 DEF RemoveSubscriber, ThreadsCurrent
  <2> QED
    BY <2>1, <2>2 DEF VersionControl
<1>7. ASSUME NEW d \in Devices, NEW report \in PeerReports, PeerLost(d, report)
      PROVE  VersionControl'
  <2>1. UNCHANGED <<current, publishing, worker, remote, toPublisher>>
    BY <1>7 DEF PeerLost, deviceVars
  <2>2. ThreadsCurrent'
    BY <1>0, <2>1 DEF ThreadsCurrent
  <2> DEFINE N == {Control("Disconnect")}
  <2>3. \A q \in Devices : Messages(toDevice'[q]) \subseteq Messages(toDevice[q]) \cup N
    <3>1. CASE report = "disconnect"
      <4>1. /\ SendToDevice(d, <<Control("Disconnect")>>)
            /\ <<Control("Disconnect")>> \in Seq(ToDevice)
            /\ Messages(<<Control("Disconnect")>>) = N
        BY <1>7, <3>1, MessageTypes, OneMessage DEF PeerLost
      <4> QED
        BY <4>1, SentToDevice
    <3>2. CASE report # "disconnect"
      BY <1>7, <3>2 DEF PeerLost
    <3> QED
      BY <3>1, <3>2
  <2>4. \A m \in N : m.version \in {NoValue, current}
    BY MessageTypes
  <2> HIDE DEF N
  <2>5. UpTo(current, current')
    BY <2>1, CurrentGrows
  <2>6. RemoteControl' /\ UpdateControl'
    BY <1>0, <2>1, <2>3, <2>4, <2>5, UpdatesKept
  <2>7. AcknowledgementControl'
    BY <1>0, <2>1, AcknowledgementsStay
  <2> QED
    BY <2>2, <2>6, <2>7 DEF VersionControl
<1> QED
  BY <1>2, <1>3, <1>4, <1>5, <1>6, <1>7
\* A frame is taken from a device, and a reply without a version is sent.
LEMMA ReplyVersions ==
  ASSUME TypeOK, TypeOK', VersionControl, NEW d \in Devices, NEW type, Receives(d, type),
         NEW ms \in Seq(ToDevice), \A m \in Messages(ms) : m.version = NoValue,
         SendToDevice(d, ms) \/ UNCHANGED toDevice, UNCHANGED <<current, remote>>
  PROVE  RemoteControl' /\ UpdateControl' /\ AcknowledgementControl'
<1>0. RemoteControl /\ UpdateControl /\ AcknowledgementControl
  BY DEF VersionControl
<1> DEFINE N == Messages(ms)
<1>1. \A q \in Devices : Messages(toDevice'[q]) \subseteq Messages(toDevice[q]) \cup N
  BY SentToDevice
<1>2. \A m \in N : m.version \in {NoValue, current}
  OBVIOUS
<1> HIDE DEF N
<1>3. UpTo(current, current')
  BY CurrentGrows
<1>4. RemoteControl' /\ UpdateControl'
  BY <1>0, <1>1, <1>2, <1>3, UpdatesKept
<1>5. \A q \in Devices : Messages(toPublisher'[q]) \subseteq Messages(toPublisher[q])
  BY TakenToPublisher DEF Receives
<1>6. AcknowledgementControl'
  BY <1>0, <1>5, AcknowledgementsStay
<1> QED
  BY <1>4, <1>6

\* ... or kept with the snapshot.
LEMMA SnapshotVersions ==
  ASSUME TypeOK, TypeOK', VersionControl, NEW d \in Devices, NEW type, Receives(d, type),
         NEW ms \in Seq(ToDevice), \A m \in Messages(ms) : m.version = NoValue,
         TakeSnapshot(d, ms), UNCHANGED <<current, publishing, remote>>
  PROVE  VersionControl'
<1>1. SendToDevice(d, ms) \/ UNCHANGED toDevice
  BY DEF TakeSnapshot
<1>2. RemoteControl' /\ UpdateControl' /\ AcknowledgementControl'
  BY <1>1, ReplyVersions
<1>3. CASE UNCHANGED worker
  BY <1>2, <1>3 DEF VersionControl, ThreadsCurrent
<1>4. CASE worker' = [device |-> d, version |-> current, messages |-> ms]
  <2>1. worker'.version = current /\ worker'.messages = ms
    BY <1>4
  <2>2. ThreadsCurrent'
    BY <2>1 DEF VersionControl, ThreadsCurrent
  <2> QED
    BY <1>2, <2>2 DEF VersionControl
<1> QED
  BY <1>3, <1>4 DEF TakeSnapshot

\* The worker of the publishing node.
LEMMA WorkerVersions ==
  ASSUME TypeOK, TypeOK', VersionControl,
         \/ QueueSnapshot \/ \E due \in SUBSET Devices : Maintain(due)
         \/ \E d \in Devices : PublisherFrame(d)
  PROVE  VersionControl'
<1>0. ThreadsCurrent /\ RemoteControl /\ UpdateControl /\ AcknowledgementControl
  BY DEF VersionControl
<1>1. /\ << >> \in Seq(ToDevice) /\ \A m \in Messages(<< >>) : m.version = NoValue
      /\ \A t \in {"Subscribe", "Unsubscribe"} :
           /\ <<Control(AcknowledgementOf(t))>> \in Seq(ToDevice)
           /\ \A m \in Messages(<<Control(AcknowledgementOf(t))>>) : m.version = NoValue
  <2>1. << >> \in Seq(ToDevice) /\ \A m \in Messages(<< >>) : m.version = NoValue
    BY DEF Messages
  <2>2. ASSUME NEW t \in {"Subscribe", "Unsubscribe"}
        PROVE  /\ <<Control(AcknowledgementOf(t))>> \in Seq(ToDevice)
               /\ \A m \in Messages(<<Control(AcknowledgementOf(t))>>) : m.version = NoValue
    <3>1. Control(AcknowledgementOf(t)) \in ToDevice /\ Control(AcknowledgementOf(t)).version = NoValue
      BY MessageTypes DEF AcknowledgementOf
    <3> QED
      BY <3>1, OneMessage
  <2> QED
    BY <2>1, <2>2
<1>2. CASE QueueSnapshot
  <2>1. /\ worker.device \in Devices /\ worker.version = current /\ worker.messages \in Seq(ToDevice)
        /\ \A m \in Messages(worker.messages) : m.version = NoValue
    BY <1>0, <1>2 DEF QueueSnapshot, ThreadsCurrent, TypeOK
  <2>2. /\ QueueUpdate(worker.device, current, worker.messages)
        /\ UNCHANGED <<current, publishing, remote, toPublisher>> /\ worker' = NoJob
    BY <1>2, <2>1 DEF QueueSnapshot, deviceVars
  <2>3. RemoteControl' /\ UpdateControl' /\ AcknowledgementControl'
    BY <1>0, <2>1, <2>2, QueueVersions
  <2>4. ThreadsCurrent'
    BY <1>0, <2>2 DEF ThreadsCurrent
  <2> QED
    BY <2>3, <2>4 DEF VersionControl
<1>3. ASSUME NEW due \in SUBSET Devices, Maintain(due)
      PROVE  VersionControl'
  <2>1. UNCHANGED <<current, publishing, worker, remote, toPublisher>>
    BY <1>3 DEF Maintain, deviceVars
  <2> DEFINE u == <<Update(current)>>
             N == {Update(current)}
  <2>2. \A q \in Devices : toDevice'[q] = Sent(toDevice[q], u) \/ toDevice'[q] = toDevice[q]
    BY <1>3 DEF Maintain
  <2>3. /\ u \in Seq(ToDevice) /\ Messages(u) = N
        /\ \A m \in N : m.version \in {NoValue, current}
    <3>1. current \in AnyVersion
      BY DEF TypeOK, AnyVersion
    <3> QED
      BY <3>1, MessageTypes, OneMessage
  <2> HIDE DEF u, N
  <2>4. \A q \in Devices : Messages(toDevice'[q]) \subseteq Messages(toDevice[q]) \cup N
    <3>1. \A q \in Devices : toDevice[q] \in Seq(ToDevice)
      BY DEF TypeOK
    <3>2. \A q \in Devices : Messages(Sent(toDevice[q], u)) \subseteq Messages(toDevice[q]) \cup Messages(u)
      BY <2>3, <3>1, SentFacts
    <3> QED
      BY <2>2, <2>3, <3>2
  <2>5. UpTo(current, current')
    BY <2>1, CurrentGrows
  <2>6. RemoteControl' /\ UpdateControl'
    BY <1>0, <2>1, <2>3, <2>4, <2>5, UpdatesKept
  <2>7. AcknowledgementControl'
    BY <1>0, <2>1, AcknowledgementsStay
  <2>8. ThreadsCurrent'
    BY <1>0, <2>1 DEF ThreadsCurrent
  <2> QED
    BY <2>6, <2>7, <2>8 DEF VersionControl
<1>4. ASSUME NEW d \in Devices, HandleSubscribe(d)
      PROVE  VersionControl'
  <2>1. /\ Receives(d, "Subscribe") /\ UNCHANGED <<current, publishing, remote>>
        /\ TakeSnapshot(d, <<Control(AcknowledgementOf("Subscribe"))>>)
    BY <1>4 DEF HandleSubscribe, deviceVars
  <2> QED
    BY <1>1, <2>1, SnapshotVersions
<1>5. ASSUME NEW d \in Devices, HandleResynchronize(d)
      PROVE  VersionControl'
  <2>1. Receives(d, "Resynchronize") /\ UNCHANGED <<current, publishing, remote>>
    BY <1>5 DEF HandleResynchronize, deviceVars
  <2>2. CASE d \in subscribers
    <3>1. TakeSnapshot(d, << >>)
      BY <1>5, <2>2 DEF HandleResynchronize
    <3> QED
      BY <1>1, <2>1, <3>1, SnapshotVersions
  <2>3. CASE d \notin subscribers
    <3>1. UNCHANGED <<worker, toDevice>>
      BY <1>5, <2>3 DEF HandleResynchronize
    <3>2. RemoteControl' /\ UpdateControl' /\ AcknowledgementControl'
      BY <1>1, <2>1, <3>1, ReplyVersions
    <3> QED
      BY <1>0, <2>1, <3>1, <3>2 DEF VersionControl, ThreadsCurrent
  <2> QED
    BY <2>2, <2>3
<1>6. ASSUME NEW d \in Devices, HandleUnsubscribe(d)
      PROVE  VersionControl'
  <2>1. /\ Receives(d, "Unsubscribe") /\ UNCHANGED <<current, publishing, worker, remote>>
        /\ SendToDevice(d, <<Control(AcknowledgementOf("Unsubscribe"))>>)
    BY <1>6 DEF HandleUnsubscribe, deviceVars
  <2>2. RemoteControl' /\ UpdateControl' /\ AcknowledgementControl'
    BY <1>1, <2>1, ReplyVersions
  <2> QED
    BY <1>0, <2>1, <2>2 DEF VersionControl, ThreadsCurrent
<1>7. ASSUME NEW d \in Devices, HandleDisconnect(d) \/ HandleAcknowledgement(d)
      PROVE  VersionControl'
  <2>1. /\ Receives(d, "Disconnect") \/ Receives(d, "Acknowledgement")
        /\ UNCHANGED <<current, publishing, worker, remote, toDevice>>
    BY <1>7 DEF HandleDisconnect, HandleAcknowledgement, deviceVars
  <2>2. RemoteControl' /\ UpdateControl' /\ AcknowledgementControl'
    BY <1>1, <2>1, ReplyVersions
  <2> QED
    BY <1>0, <2>1, <2>2 DEF VersionControl, ThreadsCurrent
<1> QED
  BY <1>2, <1>3, <1>4, <1>5, <1>6, <1>7 DEF PublisherFrame

\* A device sends a message without a version, or takes one from its link.
LEMMA DeviceSendsControl ==
  ASSUME TypeOK, TypeOK', VersionControl,
         UNCHANGED <<current, publishing, worker, remote>>,
         \A q \in Devices : Messages(toDevice'[q]) \subseteq Messages(toDevice[q]),
         \A q \in Devices : \A m \in Messages(toPublisher'[q]) :
           m \in Messages(toPublisher[q]) \/ m.version = NoValue
  PROVE  VersionControl'
<1>0. ThreadsCurrent /\ RemoteControl /\ UpdateControl /\ AcknowledgementControl
  BY DEF VersionControl
<1> DEFINE N == {}
<1>1. /\ \A q \in Devices : Messages(toDevice'[q]) \subseteq Messages(toDevice[q]) \cup N
      /\ \A m \in N : m.version \in {NoValue, current}
  OBVIOUS
<1> HIDE DEF N
<1>2. UpTo(current, current')
  BY CurrentGrows
<1>3. RemoteControl' /\ UpdateControl'
  BY <1>0, <1>1, <1>2, UpdatesKept
<1>4. AcknowledgementControl'
  BY <1>0, AcknowledgementsStay
<1>5. ThreadsCurrent'
  BY <1>0 DEF ThreadsCurrent
<1> QED
  BY <1>3, <1>4, <1>5 DEF VersionControl
\* What a device holds is replaced by the same version or a newer one.
LEMMA RemoteGrows ==
  ASSUME TypeOK, NEW d \in Devices, UNCHANGED remote \/ HandleUpdate(d)
  PROVE  \A q \in Devices : UpTo(remote[q], remote'[q])
<1>1. remote \in [Devices -> AnyVersion]
  BY DEF TypeOK, AnyVersion
<1>2. \A q \in Devices : UpTo(remote[q], remote[q])
  BY <1>1, VersionOrder
<1>3. CASE UNCHANGED remote
  BY <1>2, <1>3
<1>4. CASE HandleUpdate(d)
  <2> DEFINE v == Head(toDevice[d]).version
  <2>1. v \in AnyVersion
    <3>1. Head(toDevice[d]) \in ToDevice
      BY <1>4, TakenToDevice DEF HandleUpdate, Arrives
    <3> QED
      BY <3>1, MessageTypes
  <2>2. \/ UNCHANGED remote
        \/ remote' = [remote EXCEPT ![d] = v] /\ (v = remote[d] \/ Newer(v, remote[d]))
    BY <1>4 DEF HandleUpdate
  <2> HIDE DEF v
  <2>3. Newer(v, remote[d]) => UpTo(remote[d], v)
    <3>1. /\ v[1] \in Nat /\ v[2] \in Nat /\ remote[d][1] \in Nat /\ remote[d][2] \in Nat
      BY <1>1, <2>1, VersionFields
    <3> QED
      BY <3>1 DEF UpTo, Newer, Epoch, Revision
  <2>4. CASE UNCHANGED remote
    BY <1>2, <2>4
  <2>5. CASE remote' = [remote EXCEPT ![d] = v] /\ (v = remote[d] \/ Newer(v, remote[d]))
    <3>1. UpTo(remote[d], v)
      BY <1>2, <2>3, <2>5
    <3>2. remote'[d] = v /\ \A q \in Devices : q # d => remote'[q] = remote[q]
      BY <1>1, <2>5
    <3> QED
      BY <1>2, <3>1, <3>2
  <2> QED
    BY <2>2, <2>4, <2>5
<1> QED
  BY <1>3, <1>4

\* An update is taken: what the device holds then is not newer than the State,
\* and its acknowledgement is not newer than what it holds.
LEMMA UpdateVersions ==
  ASSUME TypeOK, TypeOK', VersionControl, NEW d \in Devices, HandleUpdate(d)
  PROVE  VersionControl'
<1>0. ThreadsCurrent /\ RemoteControl /\ UpdateControl /\ AcknowledgementControl
  BY DEF VersionControl
<1>1. UNCHANGED <<current, publishing, worker>>
  BY DEF HandleUpdate, publisherVars
<1> DEFINE v == Head(toDevice[d]).version
<1>2. /\ \A q \in Devices : Messages(toDevice'[q]) \subseteq Messages(toDevice[q])
      /\ Head(toDevice[d]) \in Messages(toDevice[d])
  BY TakenToDevice DEF HandleUpdate, Arrives
<1>3. v \in AnyVersion /\ UpTo(v, current)
  BY <1>0, <1>2, OnLinks DEF UpdateControl
<1>4. \/ remote' = [remote EXCEPT ![d] = v] /\ SendToPublisher(d, <<Acknowledgement(v)>>)
      \/ UNCHANGED <<remote, toPublisher>>
  BY DEF HandleUpdate
<1>5. remote \in [Devices -> AnyVersion]
  BY DEF TypeOK, AnyVersion
<1> HIDE DEF v
<1>6. UpdateControl'
  BY <1>0, <1>1, <1>2 DEF UpdateControl
<1>7. RemoteControl'
  BY <1>0, <1>1, <1>3, <1>4, <1>5 DEF RemoteControl
<1>8. \A q \in Devices : UpTo(remote[q], remote'[q])
  BY RemoteGrows
<1>9. \A q \in Devices : \A m \in Messages(toPublisher'[q]) :
        m \in Messages(toPublisher[q]) \/ m.version = NoValue \/ m.version = remote'[q]
  <2>1. CASE remote' = [remote EXCEPT ![d] = v] /\ SendToPublisher(d, <<Acknowledgement(v)>>)
    <3>1. /\ Acknowledgement(v) \in ToPublisher /\ Acknowledgement(v).version = v
          /\ <<Acknowledgement(v)>> \in Seq(ToPublisher)
          /\ Messages(<<Acknowledgement(v)>>) = {Acknowledgement(v)}
      BY <1>3, MessageTypes, OneMessage
    <3>2. /\ \A q \in Devices : Messages(toPublisher'[q]) \subseteq
               Messages(toPublisher[q]) \cup Messages(<<Acknowledgement(v)>>)
          /\ \A q \in Devices : q # d => toPublisher'[q] = toPublisher[q]
      BY <2>1, <3>1, SentToPublisher
    <3>3. remote'[d] = v
      BY <1>5, <2>1
    <3> QED
      BY <3>1, <3>2, <3>3
  <2>2. CASE UNCHANGED <<remote, toPublisher>>
    BY <2>2
  <2> QED
    BY <1>4, <2>1, <2>2
<1>10. AcknowledgementControl'
  BY <1>0, <1>8, <1>9, AcknowledgementsKept
<1>11. ThreadsCurrent'
  BY <1>0, <1>1 DEF ThreadsCurrent
<1> QED
  BY <1>6, <1>7, <1>10, <1>11 DEF VersionControl

\* A subscribing device.
LEMMA SubscriberSideVersions ==
  ASSUME TypeOK, TypeOK', VersionControl, NEW d \in Devices,
         \/ \E report \in PeerReports : PublisherLost(d, report)
         \/ OnStateSubscribed(d) \/ OnStateUnsubscribed(d) \/ PeerAvailable(d)
         \/ RestartDevice(d) \/ RequestResynchronization(d) \/ MaintainSubscriptions(d)
         \/ DeviceFrame(d) \/ Lose(d)
  PROVE  VersionControl'
<1>1. ASSUME NEW t \in {"Subscribe", "Unsubscribe", "Resynchronize", "Disconnect"},
             SendToPublisher(d, <<Control(t)>>)
      PROVE  \A q \in Devices : \A m \in Messages(toPublisher'[q]) :
               m \in Messages(toPublisher[q]) \/ m.version = NoValue
  <2>1. /\ Control(t) \in ToPublisher /\ Control(t).version = NoValue
        /\ <<Control(t)>> \in Seq(ToPublisher) /\ Messages(<<Control(t)>>) = {Control(t)}
    BY MessageTypes, OneMessage
  <2>2. \A q \in Devices : Messages(toPublisher'[q]) \subseteq
          Messages(toPublisher[q]) \cup Messages(<<Control(t)>>)
    BY <1>1, <2>1, SentToPublisher
  <2> QED
    BY <2>1, <2>2
<1>2. ASSUME UNCHANGED publisherVars, UNCHANGED <<remote, toDevice>>,
             \/ UNCHANGED toPublisher
             \/ \E t \in {"Subscribe", "Unsubscribe", "Resynchronize", "Disconnect"} :
                  SendToPublisher(d, <<Control(t)>>)
      PROVE  VersionControl'
  <2>1. \A q \in Devices : \A m \in Messages(toPublisher'[q]) :
          m \in Messages(toPublisher[q]) \/ m.version = NoValue
    BY <1>1, <1>2
  <2> QED
    BY <1>2, <2>1, DeviceSendsControl DEF publisherVars
<1>3. CASE OnStateSubscribed(d) \/ OnStateUnsubscribed(d)
  BY <1>2, <1>3 DEF OnStateSubscribed, OnStateUnsubscribed, SetSubscriptionIntent
<1>4. CASE PeerAvailable(d) \/ RequestResynchronization(d)
  BY <1>2, <1>4 DEF PeerAvailable, RequestResynchronization, deviceVars
<1>5. CASE RestartDevice(d)
  BY <1>2, <1>5 DEF RestartDevice, radioVars
<1>6. ASSUME NEW report \in PeerReports, PublisherLost(d, report)
      PROVE  VersionControl'
  BY <1>2, <1>6 DEF PublisherLost
<1>7. CASE MaintainSubscriptions(d)
  <2>1. intent[d] \in {"Subscribe", "Unsubscribe"}
    BY <1>7 DEF MaintainSubscriptions, TypeOK
  <2> QED
    BY <1>2, <1>7, <2>1 DEF MaintainSubscriptions, deviceVars
<1>8. CASE HandleUpdate(d)
  BY <1>8, UpdateVersions
<1>9. CASE HandleSubscriptionAcknowledgement(d) \/ HandlePublisherDisconnect(d)
  <2>1. /\ UNCHANGED <<publisherVars, remote, toPublisher>>
        /\ toDevice[d] # << >> /\ toDevice' = [toDevice EXCEPT ![d] = Tail(@)]
    BY <1>9 DEF HandleSubscriptionAcknowledgement, HandlePublisherDisconnect, Arrives
  <2>2. \A q \in Devices : Messages(toDevice'[q]) \subseteq Messages(toDevice[q])
    BY <2>1, TakenToDevice
  <2> QED
    BY <2>1, <2>2, DeviceSendsControl DEF publisherVars
<1>10. CASE Lose(d)
  <2>1. /\ UNCHANGED <<publisherVars, deviceVars>>
        /\ \/ toDevice[d] # << >> /\ toDevice' = [toDevice EXCEPT ![d] = Tail(@)]
                                  /\ UNCHANGED toPublisher
           \/ toPublisher[d] # << >> /\ toPublisher' = [toPublisher EXCEPT ![d] = Tail(@)]
                                     /\ UNCHANGED toDevice
    BY <1>10 DEF Lose
  <2>2. /\ \A q \in Devices : Messages(toDevice'[q]) \subseteq Messages(toDevice[q])
        /\ \A q \in Devices : Messages(toPublisher'[q]) \subseteq Messages(toPublisher[q])
    BY <2>1, TakenToDevice, TakenToPublisher
  <2> QED
    BY <2>1, <2>2, DeviceSendsControl DEF publisherVars, deviceVars
<1> QED
  BY <1>3, <1>4, <1>5, <1>6, <1>7, <1>8, <1>9, <1>10 DEF DeviceFrame
-----------------------------------------------------------------------------
(* The newest version stays pending until the subscriber holds it.          *)

\* A device that holds the newest version, or for which it is pending.
Covered(d) == current \in {remote[d], pending[d]}

\* With a record for every device QueueUpdate makes v pending.
LEMMA QueueRecords ==
  ASSUME Cardinality(Devices) =< MaximumPeers, TypeOK, NEW d \in Devices,
         NEW v \in AnyVersion, NEW ms \in Seq(ToDevice), QueueUpdate(d, v, ms)
  PROVE  /\ pending'[d] = v /\ \A q \in Devices : q # d => pending'[q] = pending[q]
         /\ \A q \in forgotten : q # d => q \in forgotten'
<1>1. HasRecord(d)
  <2>1. CASE pending[d] # NoValue
    BY <2>1 DEF HasRecord
  <2>2. CASE pending[d] = NoValue
    <3>1. Held(pending) \subseteq Devices \ {d}
      BY <2>2 DEF Held
    <3>2. /\ IsFiniteSet(Devices \ {d}) /\ Cardinality(Devices) \in Nat
          /\ Cardinality(Devices \ {d}) = Cardinality(Devices) - 1
      BY DevicesAssumption, FS_RemoveElement, FS_CardinalityType
    <3>3. /\ IsFiniteSet(Held(pending))
          /\ Cardinality(Held(pending)) =< Cardinality(Devices \ {d})
      BY <3>1, <3>2, FS_Subset
    <3>4. Cardinality(Held(pending)) \in Nat
      BY <3>3, FS_CardinalityType
    <3>5. Cardinality(Held(pending)) < MaximumPeers
      BY <3>2, <3>3, <3>4, MaximumPeersAssumption
    <3> QED
      BY <3>5 DEF HasRecord, Held
  <2> QED
    BY <2>1, <2>2
<1>2. pending' = [pending EXCEPT ![d] = v] /\ pending \in [Devices -> AnyVersion]
  BY <1>1 DEF QueueUpdate, TypeOK, AnyVersion
<1>3. \A q \in forgotten : q # d => q \in forgotten'
  BY QueueFacts
<1> QED
  BY <1>2, <1>3

\* Subscribers of which nothing changed, or that a thread is now busy with.
LEMMA StillCovered ==
  ASSUME NewestPending, UNCHANGED current, NEW q \in subscribers', q \notin forgotten',
         Revision(current') > 0, q \in subscribers, q \notin forgotten, ~Busy(q),
         pending'[q] = pending[q], remote'[q] = remote[q]
  PROVE  Covered(q)'
<1>1. Covered(q)
  BY DEF NewestPending, Covered
<1> QED
  BY <1>1 DEF Covered

\* The threads of the publishing node's application.
LEMMA ApplicationNewest ==
  ASSUME Cardinality(Devices) =< MaximumPeers, TypeOK, ThreadsCurrent, NewestPending,
         \/ Publish \/ Restart \/ Reboot
         \/ \E d \in Devices : \/ PublishTo(d) \/ RemoveSubscriber(d)
                               \/ \E report \in PeerReports : PeerLost(d, report)
  PROVE  NewestPending'
<1>1. SUFFICES ASSUME NEW q \in subscribers', q \notin forgotten', ~Busy(q)', Revision(current') > 0
               PROVE  Covered(q)'
  BY DEF NewestPending, Covered
<1>2. CASE Publish
  <2>1. q \in subscribers /\ q \in publishing'.left
    BY <1>2 DEF Publish
  <2> QED
    BY <1>1, <2>1 DEF Busy
<1>3. CASE Restart
  BY <1>1, <1>3 DEF Restart
<1>4. CASE Reboot
  BY <1>1, <1>4 DEF Reboot
<1>5. ASSUME NEW d \in Devices, PublishTo(d)
      PROVE  Covered(q)'
  <2>1. /\ publishing.version = current /\ QueueUpdate(d, current, << >>)
        /\ UNCHANGED <<current, worker, subscribers, leaving, remote>>
    BY <1>5 DEF PublishTo, ThreadsCurrent, deviceVars
  <2>2. current \in AnyVersion /\ << >> \in Seq(ToDevice)
    BY DEF TypeOK, AnyVersion
  <2>3. /\ pending'[d] = current /\ \A x \in Devices : x # d => pending'[x] = pending[x]
        /\ \A x \in forgotten : x # d => x \in forgotten'
    BY <2>1, <2>2, QueueRecords
  <2>4. CASE q = d
    BY <2>1, <2>3, <2>4 DEF Covered
  <2>5. CASE q # d
    <3>1. q \in subscribers /\ q \in Devices /\ q \notin forgotten
      BY <1>1, <2>1, <2>3, <2>5 DEF TypeOK
    <3>2. publishing.left \ {d} \subseteq publishing'.left
      BY <1>5 DEF PublishTo, Idle, TypeOK
    <3>3. ~Busy(q)
      BY <1>1, <2>1, <2>5, <3>2 DEF Busy
    <3> QED
      BY <1>1, <2>1, <2>3, <2>5, <3>1, <3>3, StillCovered
  <2> QED
    BY <2>4, <2>5
<1>6. ASSUME NEW d \in Devices, RemoveSubscriber(d)
      PROVE  Covered(q)'
  <2>1. /\ q \in subscribers /\ q # d /\ q \notin forgotten
        /\ UNCHANGED <<current, publishing, worker, pending, remote>>
        /\ leaving' = leaving \ {d}
    BY <1>1, <1>6 DEF RemoveSubscriber, deviceVars
  <2>2. ~Busy(q)
    BY <1>1, <2>1 DEF Busy
  <2> QED
    BY <1>1, <2>1, <2>2, StillCovered
<1>7. ASSUME NEW d \in Devices, NEW report \in PeerReports, PeerLost(d, report)
      PROVE  Covered(q)'
  <2>1. /\ pending' = [pending EXCEPT ![d] = NoValue] /\ leaving' = leaving \cup {d}
        /\ UNCHANGED <<current, publishing, worker, subscribers, forgotten, remote>>
    BY <1>7 DEF PeerLost, deviceVars
  <2>2. q # d /\ ~Busy(q)
    BY <1>1, <2>1 DEF Busy
  <2>3. pending'[q] = pending[q]
    BY <1>1, <2>1, <2>2 DEF TypeOK
  <2> QED
    BY <1>1, <2>1, <2>2, <2>3, StillCovered
<1> QED
  BY <1>2, <1>3, <1>4, <1>5, <1>6, <1>7
\* An acknowledgement clears a record only if the device holds that version.
LEMMA AcknowledgedIsHeld ==
  ASSUME TypeOK, RemoteControl, AcknowledgementControl, NEW d \in Devices,
         HandleAcknowledgement(d), pending[d] = current,
         Acknowledges(Head(toPublisher[d]).version, pending[d])
  PROVE  remote[d] = current
<1> DEFINE v == Head(toPublisher[d]).version
<1>1. Head(toPublisher[d]) \in Messages(toPublisher[d])
  BY TakenToPublisher DEF HandleAcknowledgement, Receives
<1>2. v \in AnyVersion /\ UpTo(v, remote[d])
  BY <1>1, OnLinks DEF AcknowledgementControl
<1>3. Acknowledges(v, current)
  OBVIOUS
<1>4. current \in AnyVersion /\ remote[d] \in AnyVersion /\ UpTo(remote[d], current)
  BY DEF TypeOK, AnyVersion, RemoteControl
<1> HIDE DEF v
<1>5. UpTo(current, v)
  <2>1. v[1] \in Nat /\ v[2] \in Nat /\ current[1] \in Nat /\ current[2] \in Nat
    BY <1>2, <1>4, VersionFields
  <2> QED
    BY <1>3, <2>1 DEF Acknowledges, UpTo, Newer, Epoch, Revision
<1>6. UpTo(current, remote[d])
  BY <1>2, <1>4, <1>5, VersionOrder
<1> QED
  BY <1>4, <1>6, VersionOrder

\* The worker of the publishing node.
LEMMA WorkerNewest ==
  ASSUME Cardinality(Devices) =< MaximumPeers,
         TypeOK, VersionControl, NewestPending,
         \/ QueueSnapshot \/ \E due \in SUBSET Devices : Maintain(due)
         \/ \E d \in Devices : PublisherFrame(d)
  PROVE  NewestPending'
<1>0. ThreadsCurrent /\ RemoteControl /\ AcknowledgementControl
  BY DEF VersionControl
<1>1. SUFFICES ASSUME NEW q \in subscribers', q \notin forgotten', ~Busy(q)', Revision(current') > 0
               PROVE  Covered(q)'
  BY DEF NewestPending, Covered
<1>2. CASE QueueSnapshot
  <2> DEFINE d == worker.device
  <2>1. /\ d \in Devices /\ worker.version = current /\ worker.messages \in Seq(ToDevice)
        /\ current \in AnyVersion
    BY <1>0, <1>2 DEF QueueSnapshot, ThreadsCurrent, TypeOK, AnyVersion
  <2>2. /\ QueueUpdate(d, current, worker.messages)
        /\ UNCHANGED <<current, publishing, subscribers, leaving, remote>>
    BY <1>2, <2>1 DEF QueueSnapshot, deviceVars
  <2>3. /\ pending'[d] = current /\ \A x \in Devices : x # d => pending'[x] = pending[x]
        /\ \A x \in forgotten : x # d => x \in forgotten'
    BY <2>1, <2>2, QueueRecords
  <2>4. CASE q = d
    BY <2>2, <2>3, <2>4 DEF Covered
  <2>5. CASE q # d
    <3>1. q \in subscribers /\ q \in Devices /\ q \notin forgotten
      BY <1>1, <2>2, <2>3, <2>5 DEF TypeOK
    <3>2. ~Busy(q)
      BY <1>1, <2>2, <2>5 DEF Busy
    <3> QED
      BY <1>1, <2>2, <2>3, <2>5, <3>1, <3>2, StillCovered
  <2> QED
    BY <2>4, <2>5
<1>3. ASSUME NEW due \in SUBSET Devices, Maintain(due)
      PROVE  Covered(q)'
  <2>1. PICK failed \in SUBSET {d \in due : KeepsRecord(d)} :
             /\ pending' = [d \in Devices |->
                  IF ~KeepsRecord(d) \/ d \in failed THEN NoValue
                  ELSE IF d \in due THEN current ELSE pending[d]]
             /\ forgotten' = {d \in forgotten : ~(d \in due /\ KeepsRecord(d))} \cup failed
    BY <1>3 DEF Maintain
  <2>2. q \notin failed
    BY <1>1, <2>1
  <2>3. UNCHANGED <<current, publishing, worker, subscribers, leaving, remote>>
    BY <1>3 DEF Maintain, deviceVars
  <2>4. q \in subscribers /\ q \in Devices /\ ~Busy(q)
    BY <1>1, <2>3 DEF TypeOK, Busy
  <2>5. CASE q \in due /\ KeepsRecord(q)
    <3>1. pending'[q] = current
      BY <2>1, <2>2, <2>4, <2>5
    <3> QED
      BY <2>3, <3>1 DEF Covered
  <2>6. CASE ~(q \in due /\ KeepsRecord(q))
    <3>1. q \notin forgotten
      BY <1>1, <2>1, <2>6
    <3>2. pending'[q] = pending[q]
      BY <2>1, <2>2, <2>4, <2>6 DEF KeepsRecord
    <3> QED
      BY <1>1, <2>3, <2>4, <3>1, <3>2, StillCovered
  <2> QED
    BY <2>5, <2>6
<1>4. ASSUME NEW d \in Devices, HandleSubscribe(d) \/ HandleResynchronize(d)
      PROVE  Covered(q)'
  <2>1. /\ UNCHANGED <<current, publishing, pending, leaving, forgotten, remote>>
        /\ worker = NoJob
        /\ subscribers' \subseteq subscribers \cup {d}
        /\ \/ TakeSnapshot(d, <<Control(AcknowledgementOf("Subscribe"))>>)
           \/ TakeSnapshot(d, << >>) \/ subscribers' = subscribers
    BY <1>4 DEF HandleSubscribe, HandleResynchronize, Receives, deviceVars
  <2>2. ~Busy(q)
    BY <1>1, <2>1 DEF Busy
  <2>3. CASE q \in subscribers
    BY <1>1, <2>1, <2>2, <2>3, StillCovered
  <2>4. CASE q \notin subscribers
    <3>1. q = d /\ Revision(current) # 0
      BY <1>1, <2>1, <2>4
    <3>2. worker'.device = d /\ worker' # NoJob
      <4>1. \E ms : worker' = [device |-> d, version |-> current, messages |-> ms]
        BY <2>1, <2>4, <3>1 DEF TakeSnapshot
      <4>2. current # NoValue
        BY VersionIsValue DEF TypeOK
      <4> QED
        BY <4>1, <4>2 DEF NoJob
    <3> QED
      BY <1>1, <3>1, <3>2 DEF Busy
  <2> QED
    BY <2>3, <2>4
<1>5. ASSUME NEW d \in Devices, HandleUnsubscribe(d) \/ HandleDisconnect(d)
      PROVE  Covered(q)'
  <2>1. /\ UNCHANGED <<current, publishing, worker, leaving, remote>>
        /\ subscribers' = subscribers \ {d} /\ forgotten' = forgotten \ {d}
        /\ pending' = [pending EXCEPT ![d] = NoValue]
    BY <1>5 DEF HandleUnsubscribe, HandleDisconnect, deviceVars
  <2>2. q \in subscribers /\ q # d /\ q \notin forgotten /\ ~Busy(q)
    BY <1>1, <2>1 DEF Busy
  <2>3. pending'[q] = pending[q]
    BY <2>1, <2>2 DEF TypeOK
  <2> QED
    BY <1>1, <2>1, <2>2, <2>3, StillCovered
<1>6. ASSUME NEW d \in Devices, HandleAcknowledgement(d)
      PROVE  Covered(q)'
  <2>1. /\ UNCHANGED <<current, publishing, worker, subscribers, leaving, forgotten, remote>>
        /\ pending' = [pending EXCEPT ![d] =
             IF Acknowledges(Head(toPublisher[d]).version, @) THEN NoValue ELSE @]
    BY <1>6 DEF HandleAcknowledgement, deviceVars
  <2>2. /\ pending \in [Devices -> AnyVersion] /\ q \in Devices /\ q \in subscribers
        /\ q \notin forgotten /\ ~Busy(q)
    BY <1>1, <2>1 DEF TypeOK, AnyVersion, Busy
  <2>3. CASE pending'[q] = pending[q]
    BY <1>1, <2>1, <2>2, <2>3, StillCovered
  <2>4. CASE pending'[q] # pending[q]
    <3>1. q = d /\ Acknowledges(Head(toPublisher[d]).version, pending[d])
      BY <2>1, <2>2, <2>4
    <3>2. Covered(q)
      BY <1>1, <2>1, <2>2 DEF NewestPending, Covered
    <3>3. remote[q] = current
      BY <1>0, <1>6, <3>1, <3>2, AcknowledgedIsHeld DEF Covered
    <3> QED
      BY <2>1, <3>3 DEF Covered
  <2> QED
    BY <2>3, <2>4
<1> QED
  BY <1>2, <1>3, <1>4, <1>5, <1>6 DEF PublisherFrame

\* A subscribing device, whose copy only grows.
LEMMA SubscriberSideNewest ==
  ASSUME TypeOK, TypeOK', NewestPending, RemoteControl', UNCHANGED publisherVars,
         \A x \in Devices : UpTo(remote[x], remote'[x])
  PROVE  NewestPending'
<1>1. SUFFICES ASSUME NEW q \in subscribers', q \notin forgotten', ~Busy(q)', Revision(current') > 0
               PROVE  Covered(q)'
  BY DEF NewestPending, Covered
<1>2. UNCHANGED <<current, publishing, worker, subscribers, pending, leaving, forgotten>>
  BY DEF publisherVars
<1>3. Covered(q) /\ q \in Devices
  BY <1>1, <1>2 DEF NewestPending, Covered, Busy, TypeOK
<1>4. CASE current = pending[q]
  BY <1>2, <1>4 DEF Covered
<1>5. CASE current = remote[q]
  <2>1. UpTo(current, remote'[q]) /\ UpTo(remote'[q], current)
    BY <1>2, <1>3, <1>5 DEF RemoteControl
  <2>2. remote'[q] \in AnyVersion /\ current \in AnyVersion
    BY <1>3 DEF TypeOK, AnyVersion
  <2>3. remote'[q] = current
    BY <2>1, <2>2, VersionOrder
  <2> QED
    BY <1>2, <2>3 DEF Covered
<1> QED
  BY <1>3, <1>4, <1>5 DEF Covered
\* The invariant that NewestPending is a part of.
Inv == TypeOK /\ VersionControl /\ NewestPending

\* It holds at the start.
LEMMA InvInit ==
  ASSUME Init
  PROVE  Inv
<1>1. TypeOK
  BY TypeInit
<1>2. \A d \in Devices : Messages(toDevice[d]) = {} /\ Messages(toPublisher[d]) = {}
  BY DEF Init, Messages
<1>3. current \in AnyVersion /\ \A d \in Devices : remote[d] = NoValue
  BY <1>1 DEF Init, TypeOK, AnyVersion
<1>4. RemoteControl /\ UpdateControl /\ AcknowledgementControl
  BY <1>2, <1>3, VersionOrder DEF RemoteControl, UpdateControl, AcknowledgementControl
<1>5. ThreadsCurrent
  BY DEF Init, ThreadsCurrent, Idle
<1>6. NewestPending
  BY DEF Init, NewestPending
<1> QED
  BY <1>1, <1>4, <1>5, <1>6 DEF Inv, VersionControl

\* Every step keeps it, under the hypotheses of the theorem.
LEMMA InvNext ==
  ASSUME ~PublishDuringSnapshot, Cardinality(Devices) =< MaximumPeers,
         Inv, [Next]_vars
  PROVE  Inv'
<1>0. TypeOK /\ VersionControl /\ ThreadsCurrent /\ NewestPending
  BY DEF Inv, VersionControl
<1>1. TypeOK'
  BY <1>0, TypeNext
<1>2. CASE UNCHANGED vars
  <2>1. VersionControl'
    BY <1>0, <1>2 DEF vars, publisherVars, deviceVars, radioVars, VersionControl, ThreadsCurrent,
                      RemoteControl, UpdateControl, AcknowledgementControl
  <2>2. NewestPending'
    BY <1>0, <1>2 DEF vars, publisherVars, deviceVars, NewestPending, Busy
  <2> QED
    BY <1>1, <2>1, <2>2 DEF Inv
<1>3. CASE \/ Publish \/ Restart \/ Reboot
           \/ \E d \in Devices : \/ PublishTo(d) \/ RemoveSubscriber(d)
                                 \/ \E report \in PeerReports : PeerLost(d, report)
  BY <1>0, <1>1, <1>3, ApplicationVersions, ApplicationNewest DEF Inv
<1>4. CASE \/ QueueSnapshot \/ \E due \in SUBSET Devices : Maintain(due)
           \/ \E d \in Devices : PublisherFrame(d)
  BY <1>0, <1>1, <1>4, WorkerVersions, WorkerNewest DEF Inv
<1>5. ASSUME NEW d \in Devices,
             \/ \E report \in PeerReports : PublisherLost(d, report)
             \/ OnStateSubscribed(d) \/ OnStateUnsubscribed(d) \/ PeerAvailable(d)
             \/ RestartDevice(d) \/ RequestResynchronization(d) \/ MaintainSubscriptions(d)
             \/ DeviceFrame(d) \/ Lose(d)
      PROVE  Inv'
  <2>1. VersionControl'
    BY <1>0, <1>1, <1>5, SubscriberSideVersions
  <2>2. UNCHANGED publisherVars /\ (UNCHANGED remote \/ HandleUpdate(d))
    BY <1>5 DEF PublisherLost, OnStateSubscribed, OnStateUnsubscribed, PeerAvailable, RestartDevice,
         RequestResynchronization, MaintainSubscriptions, DeviceFrame, HandleUpdate,
         HandleSubscriptionAcknowledgement, HandlePublisherDisconnect, Lose, deviceVars
  <2>3. \A x \in Devices : UpTo(remote[x], remote'[x])
    BY <1>0, <2>2, RemoteGrows
  <2>4. NewestPending'
    BY <1>0, <1>1, <2>1, <2>2, <2>3, SubscriberSideNewest DEF VersionControl
  <2> QED
    BY <1>1, <2>1, <2>4 DEF Inv
<1> QED
  BY <1>2, <1>3, <1>4, <1>5 DEF Next

\* If the application does not publish between a handler's Snapshot and its
\* QueueUpdate and there is a record for each device, nothing is forgotten before
\* the device accepted it, but for the records that Shutdown or a refused
\* repetition clears: messages may be lost, acknowledgements be late or of an
\* earlier epoch, devices come and go, and the publishing node restart.
THEOREM NewestStaysPending ==
  ASSUME ~PublishDuringSnapshot, Cardinality(Devices) =< MaximumPeers
  PROVE  Spec => []NewestPending
<1>1. Init => Inv
  BY InvInit
<1>2. Inv /\ [Next]_vars => Inv'
  BY InvNext
<1>3. Inv => NewestPending
  BY DEF Inv
<1> QED
  BY <1>1, <1>2, <1>3, PTL DEF Spec
=============================================================================
