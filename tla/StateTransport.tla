--------------------------- MODULE StateTransport ---------------------------
(***************************************************************************)
(* ESPNowStateTransport: one node publishes a State, the other devices      *)
(* subscribe to it and keep a copy.  The publishing node keeps, for each    *)
(* subscriber, the newest version it has not seen acknowledged and sends it *)
(* again from Maintain; a subscribing device keeps its wish to subscribe or *)
(* unsubscribe until it is acknowledged.                                    *)
(*                                                                          *)
(* On the publishing node the ESP-NOW worker (HandleFrame, Maintain), the   *)
(* thread that publishes and the thread that reports peers run              *)
(* concurrently.  Only the tables of the transport are under its _mutex: a  *)
(* handler takes a Snapshot of the publisher first and calls QueueUpdate    *)
(* with it afterwards.                                                      *)
(*                                                                          *)
(* Tables are per (device, StateType); this is one StateType.  Radio links  *)
(* are first in first out and lose messages.  Retry intervals may have      *)
(* passed at any time.                                                      *)
(***************************************************************************)
EXTENDS Naturals, Sequences, FiniteSets

CONSTANTS
  Devices,        \* the subscribing devices
  MaximumPeers,   \* TMaximumPeers: subscribers, and pending records of one StateType
  MaxEpoch,       \* bound: epochs (starts of the publishing node)
  MaxRevision,    \* bound: revisions published in an epoch
  MaxInFlight,    \* bound: with so many messages on a link, further ones are lost
  PeerReports,    \* bound: "lost" and "disconnect" reports that may be made
  PublishDuringSnapshot  \* the application may publish while a handler is
                         \* between Snapshot and QueueUpdate

ASSUME DevicesAssumption == IsFiniteSet(Devices)
ASSUME MaximumPeersAssumption == MaximumPeers \in Nat
ASSUME BoundsAssumption == /\ MaxEpoch \in Nat \ {0} /\ MaxRevision \in Nat
                           /\ MaxInFlight \in Nat
                           /\ PeerReports \subseteq {"lost", "disconnect"}
ASSUME PublishDuringSnapshotAssumption == PublishDuringSnapshot \in BOOLEAN

\* StateEpoch and StateRevision.  Revision 0: nothing was published yet.
Versions == (1 .. MaxEpoch) \X (0 .. MaxRevision)
NoValue == <<0, 0>>
Epoch(v) == v[1]
Revision(v) == v[2]

Update(v) == [type |-> "Update", version |-> v]
Acknowledgement(v) == [type |-> "Acknowledgement", version |-> v]
Control(t) == [type |-> t, version |-> NoValue]

\* Mutant: a control message is answered by itself.
EchoOf(t) == t

AcknowledgementOf(t) == IF t = "Subscribe" THEN "SubscribeAcknowledgement"
                                           ELSE "UnsubscribeAcknowledgement"

VARIABLES
  \* The publishing node.
  current,      \* the version of the State in _publisher
  publishing,   \* OnTypedStatePublished under way: the version, and the
                \* subscribers it has still to queue it for
  worker,       \* HandleControl between Snapshot and QueueUpdate, or NoJob
  subscribers,  \* _subscribers
  pending,      \* _pending: the version a device has to acknowledge, or NoValue
  leaving,      \* devices for which PeerLost has cleared _pending and has
                \* still to remove the subscriber
  forgotten,    \* history: subscribers for which the State has not been queued
                \* since Shutdown, or a refused Send in Maintain, cleared their
                \* records
  \* The subscribing devices.
  wanted,       \* _subscriptions.IsSubscribed
  intent,       \* _pendingSubscriptions: the message to be acknowledged, or NoIntent
  remote,       \* the version in _remote, or NoValue
  \* The radio.
  toDevice,     \* for each device, messages from the publishing node
  toPublisher   \* for each device, messages to the publishing node

publisherVars == <<current, publishing, worker, subscribers, pending, leaving, forgotten>>
deviceVars == <<wanted, intent, remote>>
radioVars == <<toDevice, toPublisher>>
vars == <<publisherVars, deviceVars, radioVars>>

Idle == [version |-> NoValue, left |-> {}]
NoJob == [device |-> "none", version |-> NoValue, messages |-> << >>]
NoIntent == "none"

Init == /\ current = <<1, 0>>
        /\ publishing = Idle
        /\ worker = NoJob
        /\ subscribers = {}
        /\ pending = [d \in Devices |-> NoValue]
        /\ leaving = {}
        /\ forgotten = {}
        /\ wanted = [d \in Devices |-> FALSE]
        /\ intent = [d \in Devices |-> NoIntent]
        /\ remote = [d \in Devices |-> NoValue]
        /\ toDevice = [d \in Devices |-> << >>]
        /\ toPublisher = [d \in Devices |-> << >>]

-----------------------------------------------------------------------------
(* Sending.                                                                 *)

\* A link after a handler sent these messages on it.
Sent(link, messages) == IF Len(link) < MaxInFlight THEN link \o messages ELSE link

SendToDevice(d, messages) == toDevice' = [toDevice EXCEPT ![d] = Sent(@, messages)]
SendToPublisher(d, messages) == toPublisher' = [toPublisher EXCEPT ![d] = Sent(@, messages)]

\* PendingLocked(d, type, true) finds a record.
HasRecord(d) == \/ pending[d] # NoValue
                \/ Cardinality({e \in Devices : pending[e] # NoValue}) < MaximumPeers

\* QueueUpdate of version v for d, and then further messages.  Without a free
\* record nothing is kept and v is not sent.
QueueUpdate(d, v, messages) ==
  IF HasRecord(d)
    THEN /\ pending' = [pending EXCEPT ![d] = v]
         /\ forgotten' = IF v = current THEN forgotten \ {d} ELSE forgotten
         /\ SendToDevice(d, <<Update(v)>> \o messages)
    ELSE /\ SendToDevice(d, messages)
         /\ UNCHANGED <<pending, forgotten>>

-----------------------------------------------------------------------------
(* The publishing node: the application.                                    *)

\* StatePublisher takes a new value.
TakeValue ==
  /\ publishing = Idle
  /\ Revision(current) < MaxRevision
  /\ worker = NoJob \/ PublishDuringSnapshot
  /\ current' = <<Epoch(current), Revision(current) + 1>>

\* ... and tells OnTypedStatePublished.
Publish ==
  /\ TakeValue
  /\ publishing' = IF subscribers = {} THEN Idle
                                      ELSE [version |-> current', left |-> subscribers]
  /\ UNCHANGED <<worker, subscribers, pending, leaving, forgotten, deviceVars, radioVars>>

\* OnTypedStatePublished: QueueUpdate for the next subscriber.
PublishTo(d) ==
  /\ d \in publishing.left
  /\ QueueUpdate(d, publishing.version, << >>)
  /\ publishing' = IF publishing.left = {d} THEN Idle ELSE [publishing EXCEPT !.left = @ \ {d}]
  /\ UNCHANGED <<current, worker, subscribers, leaving, deviceVars, toPublisher>>

\* PeerLost, and DisconnectPeer with its message: ClearPeerPending first.
PeerLost(d, report) ==
  /\ report \in PeerReports
  /\ d \in subscribers \ leaving
  /\ pending' = [pending EXCEPT ![d] = NoValue]
  /\ leaving' = leaving \cup {d}
  /\ UNCHANGED forgotten
  /\ IF report = "disconnect" THEN SendToDevice(d, <<Control("Disconnect")>>)
                              ELSE UNCHANGED toDevice
  /\ UNCHANGED <<current, publishing, worker, subscribers, deviceVars, toPublisher>>

\* ... then _subscribers.Remove.
RemoveSubscriber(d) ==
  /\ d \in leaving
  /\ subscribers' = subscribers \ {d}
  /\ leaving' = leaving \ {d}
  /\ forgotten' = forgotten \ {d}
  /\ UNCHANGED <<current, publishing, worker, pending, deviceVars, radioVars>>

\* Shutdown and Initialize.  Records are cleared and subscribers are kept; a
\* value that the application publishes in between reaches nobody.  (A frame
\* that comes in between is lost, and threads that are under way go on.)
Restart ==
  /\ TakeValue \/ UNCHANGED current
  /\ pending' = [d \in Devices |-> NoValue]
  /\ forgotten' = subscribers
  /\ UNCHANGED <<publishing, worker, subscribers, leaving, deviceVars, radioVars>>

\* The node restarts: its publisher begins a new epoch.
Reboot ==
  /\ Epoch(current) < MaxEpoch
  /\ current' = <<Epoch(current) + 1, 0>>
  /\ publishing' = Idle
  /\ worker' = NoJob
  /\ subscribers' = {}
  /\ pending' = [d \in Devices |-> NoValue]
  /\ leaving' = {}
  /\ forgotten' = {}
  /\ toPublisher' = [d \in Devices |-> << >>]
  /\ UNCHANGED <<deviceVars, toDevice>>

-----------------------------------------------------------------------------
(* The publishing node: HandleFrame, on the worker.                         *)

Receives(d, type) == /\ worker = NoJob
                     /\ toPublisher[d] # << >>
                     /\ Head(toPublisher[d]).type = type
                     /\ toPublisher' = [toPublisher EXCEPT ![d] = Tail(@)]

\* QueueSnapshotByType, then `messages'.  With a value to send the handler
\* goes on in QueueSnapshot.
TakeSnapshot(d, messages) ==
  IF Revision(current) = 0
    THEN /\ SendToDevice(d, messages)
         /\ UNCHANGED worker
    ELSE /\ worker' = [device |-> d, version |-> current, messages |-> messages]
         /\ UNCHANGED toDevice

HandleSubscribe(d) ==
  /\ Receives(d, "Subscribe")
  /\ subscribers' = IF Cardinality(subscribers \cup {d}) =< MaximumPeers
                      THEN subscribers \cup {d} ELSE subscribers
  /\ TakeSnapshot(d, <<Control(AcknowledgementOf("Subscribe"))>>)
  /\ UNCHANGED <<current, publishing, pending, leaving, forgotten, deviceVars>>

HandleResynchronize(d) ==
  /\ Receives(d, "Resynchronize")
  /\ IF d \in subscribers THEN TakeSnapshot(d, << >>) ELSE UNCHANGED <<worker, toDevice>>
  /\ UNCHANGED <<current, publishing, subscribers, pending, leaving, forgotten, deviceVars>>

\* ... with the snapshot taken: QueueUpdate, and the acknowledgement.
QueueSnapshot ==
  /\ worker # NoJob
  /\ QueueUpdate(worker.device, worker.version, worker.messages)
  /\ worker' = NoJob
  /\ UNCHANGED <<current, publishing, subscribers, leaving, deviceVars, toPublisher>>

HandleUnsubscribe(d) ==
  /\ Receives(d, "Unsubscribe")
  /\ subscribers' = subscribers \ {d}
  /\ forgotten' = forgotten \ {d}
  /\ pending' = [pending EXCEPT ![d] = NoValue]
  /\ SendToDevice(d, <<Control(AcknowledgementOf("Unsubscribe"))>>)
  /\ UNCHANGED <<current, publishing, worker, leaving, deviceVars>>

HandleDisconnect(d) ==
  /\ Receives(d, "Disconnect")
  /\ subscribers' = subscribers \ {d}
  /\ forgotten' = forgotten \ {d}
  /\ pending' = [pending EXCEPT ![d] = NoValue]
  /\ UNCHANGED <<current, publishing, worker, leaving, deviceVars, toDevice>>

\* Mutant: an acknowledgement of another epoch counts.
AcknowledgesAnyEpoch(v, p) == p # NoValue /\ Revision(v) >= Revision(p)

\* An acknowledgement of v settles the pending version p.
Acknowledges(v, p) == p # NoValue /\ Epoch(v) = Epoch(p) /\ Revision(v) >= Revision(p)

HandleAcknowledgement(d) ==
  /\ Receives(d, "Acknowledgement")
  /\ pending' = [pending EXCEPT ![d] =
                   IF Acknowledges(Head(toPublisher[d]).version, @) THEN NoValue ELSE @]
  /\ UNCHANGED <<current, publishing, worker, subscribers, leaving, forgotten,
                 deviceVars, toDevice>>

\* Mutant: a record is kept whether or not the device still subscribes.
KeepsRecordAlways(d) == pending[d] # NoValue

\* Maintain does not drop the record of d at once.
KeepsRecord(d) == pending[d] # NoValue /\ d \in subscribers

\* Maintain, over _pending: for the devices in `due' the retry interval has
\* passed.  Send refuses some of them (a WiFi scan or transition makes the radio
\* unavailable, or the driver has no memory): their records are dropped.
Maintain(due) ==
  /\ worker = NoJob
  /\ \E failed \in SUBSET {d \in due : KeepsRecord(d)} :
       /\ pending' = [d \in Devices |->
            IF ~KeepsRecord(d) \/ d \in failed THEN NoValue
            ELSE IF d \in due THEN current ELSE pending[d]]
       /\ toDevice' = [d \in Devices |->
            IF d \in due \ failed /\ KeepsRecord(d)
              THEN Sent(toDevice[d], <<Update(current)>>) ELSE toDevice[d]]
       /\ forgotten' = {d \in forgotten : ~(d \in due /\ KeepsRecord(d))} \cup failed
  /\ UNCHANGED <<current, publishing, worker, subscribers, leaving, deviceVars, toPublisher>>

-----------------------------------------------------------------------------
(* A subscribing device.                                                    *)

\* SendSubscriptionToPeer and SetSubscriptionIntent.  A subscription to any
\* device is sent to the peers in _peers only, which need not have the publisher.
SetSubscriptionIntent(d, type) ==
  \/ /\ intent' = [intent EXCEPT ![d] = type]
     /\ SendToPublisher(d, <<Control(type)>>)
  \/ UNCHANGED <<intent, toPublisher>>

OnStateSubscribed(d) ==
  /\ ~wanted[d]
  /\ wanted' = [wanted EXCEPT ![d] = TRUE]
  /\ SetSubscriptionIntent(d, "Subscribe")
  /\ UNCHANGED <<publisherVars, remote, toDevice>>

OnStateUnsubscribed(d) ==
  /\ wanted[d]
  /\ wanted' = [wanted EXCEPT ![d] = FALSE]
  /\ SetSubscriptionIntent(d, "Unsubscribe")
  /\ UNCHANGED <<publisherVars, remote, toDevice>>

\* Shutdown and Initialize of the device's transport: the wishes under way are
\* cleared, and what was subscribed or unsubscribed in between is not announced.
RestartDevice(d) ==
  /\ intent' = [intent EXCEPT ![d] = NoIntent]
  /\ \E w \in BOOLEAN : wanted' = [wanted EXCEPT ![d] = w]
  /\ UNCHANGED <<publisherVars, remote, radioVars>>

\* PeerAvailable: the subscriptions are announced again.
PeerAvailable(d) ==
  /\ wanted[d]
  /\ intent' = [intent EXCEPT ![d] = "Subscribe"]
  /\ SendToPublisher(d, <<Control("Subscribe")>>)
  /\ UNCHANGED <<publisherVars, wanted, remote, toDevice>>

\* PeerLost, and DisconnectPeer with its message.
PublisherLost(d, report) ==
  /\ report \in PeerReports
  /\ intent' = [intent EXCEPT ![d] = NoIntent]
  /\ IF report = "disconnect" THEN SendToPublisher(d, <<Control("Disconnect")>>)
                              ELSE UNCHANGED toPublisher
  /\ UNCHANGED <<publisherVars, wanted, remote, toDevice>>

RequestResynchronization(d) ==
  /\ SendToPublisher(d, <<Control("Resynchronize")>>)
  /\ UNCHANGED <<publisherVars, deviceVars, toDevice>>

\* Maintain, over _pendingSubscriptions.
MaintainSubscriptions(d) ==
  /\ intent[d] # NoIntent
  /\ SendToPublisher(d, <<Control(intent[d])>>)
  /\ UNCHANGED <<publisherVars, deviceVars, toDevice>>

Arrives(d, types) == /\ toDevice[d] # << >>
                     /\ Head(toDevice[d]).type \in types
                     /\ toDevice' = [toDevice EXCEPT ![d] = Tail(@)]

\* RemoteStateManager::Apply takes v over w (external).
Newer(v, w) == Epoch(v) > Epoch(w) \/ (Epoch(v) = Epoch(w) /\ Revision(v) > Revision(w))

HandleUpdate(d) ==
  /\ Arrives(d, {"Update"})
  /\ LET v == Head(toDevice[d]).version
     IN  IF wanted[d] /\ (v = remote[d] \/ Newer(v, remote[d]))
           THEN /\ remote' = [remote EXCEPT ![d] = v]
                /\ SendToPublisher(d, <<Acknowledgement(v)>>)
           ELSE UNCHANGED <<remote, toPublisher>>
  /\ UNCHANGED <<publisherVars, wanted, intent>>

HandleSubscriptionAcknowledgement(d) ==
  /\ \E t \in {"Subscribe", "Unsubscribe"} :
       /\ Arrives(d, {AcknowledgementOf(t)})
       /\ intent' = [intent EXCEPT ![d] = IF @ = t THEN NoIntent ELSE @]
  /\ UNCHANGED <<publisherVars, wanted, remote, toPublisher>>

HandlePublisherDisconnect(d) ==
  /\ Arrives(d, {"Disconnect"})
  /\ intent' = [intent EXCEPT ![d] = NoIntent]
  /\ UNCHANGED <<publisherVars, wanted, remote, toPublisher>>

-----------------------------------------------------------------------------
Lose(d) ==
  /\ \/ toDevice[d] # << >> /\ toDevice' = [toDevice EXCEPT ![d] = Tail(@)]
                            /\ UNCHANGED toPublisher
     \/ toPublisher[d] # << >> /\ toPublisher' = [toPublisher EXCEPT ![d] = Tail(@)]
                               /\ UNCHANGED toDevice
  /\ UNCHANGED <<publisherVars, deviceVars>>

PublisherFrame(d) == \/ HandleSubscribe(d) \/ HandleUnsubscribe(d) \/ HandleResynchronize(d)
                     \/ HandleDisconnect(d) \/ HandleAcknowledgement(d)

DeviceFrame(d) == \/ HandleUpdate(d) \/ HandleSubscriptionAcknowledgement(d)
                  \/ HandlePublisherDisconnect(d)

Next ==
  \/ Publish \/ Restart \/ Reboot \/ QueueSnapshot
  \/ \E due \in SUBSET Devices : Maintain(due)
  \/ \E d \in Devices :
       \/ PublishTo(d) \/ RemoveSubscriber(d) \/ PublisherFrame(d)
       \/ \E report \in PeerReports : PeerLost(d, report) \/ PublisherLost(d, report)
       \/ OnStateSubscribed(d) \/ OnStateUnsubscribed(d) \/ PeerAvailable(d)
       \/ RestartDevice(d)
       \/ RequestResynchronization(d) \/ MaintainSubscriptions(d)
       \/ DeviceFrame(d) \/ Lose(d)

Spec == Init /\ [][Next]_vars

\* Threads go on with what they have begun, the worker calls Maintain in each
\* iteration and retry intervals pass, and a message that is sent again and
\* again is not lost for ever.
Fairness ==
  /\ WF_vars(QueueSnapshot)
  /\ \A d \in Devices :
       /\ WF_vars(PublishTo(d)) /\ WF_vars(RemoveSubscriber(d))
       /\ WF_vars(\E due \in SUBSET Devices : d \in due /\ Maintain(due))
       /\ WF_vars(PublisherFrame(d)) /\ WF_vars(DeviceFrame(d))
       /\ SF_vars(HandleUpdate(d)) /\ SF_vars(HandleAcknowledgement(d))

FairSpec == Spec /\ Fairness

-----------------------------------------------------------------------------
MessagesOf(types) == [type : types, version : Versions \cup {NoValue}]
ToDevice == MessagesOf({"Update", "Disconnect",
                        "SubscribeAcknowledgement", "UnsubscribeAcknowledgement"})
ToPublisher == MessagesOf({"Acknowledgement", "Disconnect",
                           "Subscribe", "Unsubscribe", "Resynchronize"})

\* Type correctness, with the capacities of the tables and the messages that
\* each direction of a link carries.
TypeOK ==
  /\ current \in Versions
  /\ publishing \in [version : Versions \cup {NoValue}, left : SUBSET Devices]
  /\ worker = NoJob \/ worker \in [device : Devices, version : Versions, messages : Seq(ToDevice)]
  /\ subscribers \subseteq Devices /\ Cardinality(subscribers) =< MaximumPeers
  /\ pending \in [Devices -> Versions \cup {NoValue}]
  /\ Cardinality({d \in Devices : pending[d] # NoValue}) =< MaximumPeers
  /\ leaving \subseteq Devices /\ forgotten \subseteq Devices
  /\ wanted \in [Devices -> BOOLEAN]
  /\ intent \in [Devices -> {"Subscribe", "Unsubscribe", NoIntent}]
  /\ remote \in [Devices -> Versions \cup {NoValue}]
  /\ toDevice \in [Devices -> Seq(ToDevice)] /\ toPublisher \in [Devices -> Seq(ToPublisher)]

\* A thread of the publishing node is about to queue, or to drop, what d needs.
Busy(d) == d \in publishing.left \cup leaving \/ (worker # NoJob /\ worker.device = d)

\* Nothing is forgotten before it is accepted: a subscriber holds the newest
\* version, or that version is pending for it (State-Transport.md: the
\* transport retains "the newest pending wire image", and "a stale ACK cannot
\* clear a newer pending revision").  Two things except a subscriber, until the
\* State is queued for it again by a publication, a Subscribe or a Resynchronize:
\* Shutdown cleared its record, or Maintain did because Send refused the
\* repetition (StateTransport.hpp:463).
NewestPending ==
  \A d \in subscribers \ forgotten :
    ~Busy(d) /\ Revision(current) > 0 => current \in {remote[d], pending[d]}

\* A subscriber that keeps its subscription gets the newest version, however
\* often messages are lost on the air, unless Shutdown clears its record or Send
\* refuses a repetition.
Converges ==
  \A d \in Devices :
    (d \in subscribers \ forgotten /\ wanted[d] /\ Revision(current) > 0)
      ~> (d \notin subscribers \ forgotten \/ ~wanted[d] \/ remote[d] = current)

\* A record made for a device that has just left (a publication races with
\* its leaving) does not stay.
StaleRecordDropped ==
  \A d \in Devices : pending[d] # NoValue /\ d \notin subscribers
                       ~> pending[d] = NoValue \/ d \in subscribers
=============================================================================
