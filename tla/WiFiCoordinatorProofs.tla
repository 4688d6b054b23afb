------------------------ MODULE WiFiCoordinatorProofs ------------------------
(***************************************************************************)
(* ESPNowWiFiCoordinator keeps ESP-NOW off the driver during transitions and *)
(* off the air during scans, and bound to the radio otherwise: for every set *)
(* of channels and every way in which the driver may fail.                   *)
(***************************************************************************)
EXTENDS WiFiCoordinator, TLAPS

-----------------------------------------------------------------------------
(* The inductive invariant.                                                 *)

\* _scanSuspended is set only on an observer, and for no longer than until it
\* is told of the scan's end.
ScanAccounted ==
  scanSuspended => observer /\ (wifi.scanning \/ event = "scanned")

\* _transitionSuspendedNativeState is set only between the two notifications.
TransitionAccounted ==
  transitionSuspended => observer /\ transitioning

Inv == TypeOK /\ ScanAccounted /\ TransitionAccounted /\ DownDuringTransition

NativeStates == [up : BOOLEAN, suspended : BOOLEAN]
Attached == [up |-> TRUE, suspended |-> FALSE]
OnRadio == [mode : OnModes, station : BOOLEAN, accessPoint : BOOLEAN,
            channel : Channels, scanning : BOOLEAN]
BindingOf(state, usable) ==
  [preferred |-> ResolvePreferredInterface(state), channel |-> state.channel,
   available |-> usable]

-----------------------------------------------------------------------------
(* ApplyRadioBinding and ApplyState.                                        *)

\* ApplyRadioBinding leaves a driver in one of its states, and reports success
\* of a registry with peers only when the driver is attached.
LEMMA BindingResult ==
  ASSUME NEW n \in NativeStates, NEW reinitialize \in BOOLEAN,
         NEW result \in ApplyRadioBinding(n, reinitialize)
  PROVE  /\ result.native \in NativeStates
         /\ result.success \in BOOLEAN
         /\ HasPeers /\ result.success => result.native = Attached
<1> DEFINE failed == [n EXCEPT !.up = FALSE]
<1>1. HasPeers \in BOOLEAN /\ n.up \in BOOLEAN /\ n.suspended \in BOOLEAN
  BY HasPeersAssumption DEF HasPeersAssumption, NativeStates
<1>2. Attached \in NativeStates /\ failed \in NativeStates
  BY DEF NativeStates, Attached
<1>3. \/ result.native = Attached /\ result.success = TRUE
      \/ result.native \in NativeStates /\ result.success = FALSE
      \/ ~HasPeers /\ result.native \in NativeStates /\ result.success = TRUE
  <2>1. CASE reinitialize \/ n.suspended
    <3>1. result \in {[native |-> Attached, success |-> TRUE],
                      [native |-> failed, success |-> FALSE],
                      [native |-> Attached, success |-> FALSE]}
      BY <2>1 DEF ApplyRadioBinding, Attached
    <3> HIDE DEF failed
    <3>2. \/ result.native = Attached /\ result.success = TRUE
          \/ result.native = failed /\ result.success = FALSE
          \/ result.native = Attached /\ result.success = FALSE
      BY <3>1
    <3> QED
      BY <1>2, <3>2
  <2>2. CASE ~(reinitialize \/ n.suspended) /\ (n.up \/ ~HasPeers)
    <3>1. (n.up \/ ~HasPeers) = TRUE
      BY <2>2
    <3>2. result \in {[native |-> n, success |-> TRUE], [native |-> n, success |-> FALSE]}
      BY <2>2, <3>1 DEF ApplyRadioBinding
    <3>3. HasPeers => n = Attached
      BY <1>1, <2>2 DEF NativeStates, Attached
    <3> QED
      BY <3>2, <3>3
  <2>3. CASE ~(reinitialize \/ n.suspended) /\ ~(n.up \/ ~HasPeers)
    <3>1. (n.up \/ ~HasPeers) = FALSE
      BY <2>3
    <3>2. result = [native |-> n, success |-> FALSE]
      BY <2>3, <3>1 DEF ApplyRadioBinding
    <3> QED
      BY <3>2
  <2> QED
    BY <2>1, <2>2, <2>3
<1>4. result.success \in BOOLEAN
  BY <1>3, Zenon
<1> QED
  BY <1>2, <1>3, <1>4

\* ResolvePreferredInterface answers with an interface or Auto.
LEMMA PreferenceType ==
  ASSUME NEW state
  PROVE  ResolvePreferredInterface(state) \in Preferences
BY DEF ResolvePreferredInterface, Preferences

\* What ApplyState guarantees, whatever the driver does.
Applied(ss) ==
  /\ initialized' = initialized
  /\ unannounced' = FALSE
  /\ native' \in NativeStates
  /\ binding' \in [preferred : Preferences, channel : Channels \cup {0}, available : BOOLEAN]
  /\ haveSnapshot' \in BOOLEAN /\ scanSuspended' \in BOOLEAN
  /\ invalidated' \in BOOLEAN /\ applied' \in BOOLEAN
  /\ last' \in {OffSnapshot} \cup [mode : OnModes, preferred : Preferences, channel : Channels]
  /\ scanSuspended' => ss \/ wifi.scanning
  /\ initialized /\ wifi.scanning => ~binding'.available
  /\ HasPeers /\ ~ss /\ initialized /\ applied' /\ ~wifi.scanning /\ wifi.mode # "Off"
       => native' = Attached /\ binding' = BindingOf(wifi, TRUE)

\* The part of ApplyState that binds a radio that is on and not scanning.
LEMMA ApplyOnResult ==
  ASSUME TypeOK, NEW ss \in BOOLEAN, NEW force \in BOOLEAN, ApplyOn(ss, force),
         initialized' = initialized, unannounced' = FALSE
  PROVE  Applied(ss)
<1> DEFINE now == [mode |-> wifi.mode, preferred |-> ResolvePreferredInterface(wifi),
                   channel |-> wifi.channel]
           rebuildRequired == force \/ invalidated
           retry(first) == ~first.success /\ ~rebuildRequired /\ haveSnapshot /\ now # last
<1>1. native \in NativeStates /\ rebuildRequired \in BOOLEAN /\ invalidated \in BOOLEAN
  BY DEF TypeOK, NativeStates
<1>2. wifi.mode # "Off" /\ ~wifi.scanning
  BY DEF ApplyOn, IsScanning
<1>3. wifi.mode \in OnModes /\ wifi.channel \in Channels
  BY <1>2 DEF TypeOK, Off
<1>4. PICK first \in ApplyRadioBinding(native, rebuildRequired) :
        \E final \in IF retry(first) THEN ApplyRadioBinding(first.native, TRUE) ELSE {first} :
          /\ native' = final.native
          /\ binding' = [preferred |-> now.preferred, channel |-> now.channel,
                         available |-> ~ss /\ final.success]
          /\ invalidated' = (invalidated /\ ~final.success)
          /\ applied' = final.success
  BY DEF ApplyOn
<1>5. PICK final \in IF retry(first) THEN ApplyRadioBinding(first.native, TRUE) ELSE {first} :
          /\ native' = final.native
          /\ binding' = [preferred |-> now.preferred, channel |-> now.channel,
                         available |-> ~ss /\ final.success]
          /\ invalidated' = (invalidated /\ ~final.success)
          /\ applied' = final.success
  BY <1>4
<1>6. /\ first.native \in NativeStates /\ first.success \in BOOLEAN
      /\ HasPeers /\ first.success => first.native = Attached
  BY <1>1, <1>4, BindingResult
<1>7. /\ final.native \in NativeStates /\ final.success \in BOOLEAN
      /\ HasPeers /\ final.success => final.native = Attached
  BY <1>5, <1>6, BindingResult
<1>8. last' = now /\ haveSnapshot' = TRUE /\ scanSuspended' = FALSE
  BY DEF ApplyOn
<1>9. ResolvePreferredInterface(wifi) \in Preferences
  BY PreferenceType
<1> QED
  BY <1>2, <1>3, <1>5, <1>7, <1>8, <1>9 DEF Applied, BindingOf

\* Every way through ApplyState.
LEMMA ApplyStateResult ==
  ASSUME TypeOK, NEW ss \in BOOLEAN, NEW force \in BOOLEAN, ApplyState(ss, force)
  PROVE  Applied(ss)
<1>1. initialized' = initialized /\ unannounced' = FALSE
  BY DEF ApplyState
<1>2. CASE ~initialized /\ scanSuspended' = ss /\ applied' = FALSE
           /\ UNCHANGED <<native, binding, snapshotVars, invalidated>>
  BY <1>1, <1>2 DEF Applied, TypeOK, NativeStates, snapshotVars
<1>3. CASE initialized /\ ApplyOff
  <2>1. wifi = Off
    BY <1>3 DEF ApplyOff, TypeOK, OnModes
  <2> QED
    BY <1>1, <1>3, <2>1 DEF ApplyOff, Applied, TypeOK, NativeStates, Off
<1>4. CASE initialized /\ ApplyScanning
  BY <1>1, <1>4 DEF ApplyScanning, IsScanning, Applied, TypeOK, NativeStates, snapshotVars
<1>5. CASE initialized /\ ApplyOn(ss, force)
  BY <1>1, <1>5, ApplyOnResult
<1> QED
  BY <1>2, <1>3, <1>4, <1>5 DEF ApplyState

-----------------------------------------------------------------------------
(* Types.                                                                   *)

\* The coordinator, WiFi and the transport start with values of their types.
LEMMA InitType == Init => TypeOK
<1> SUFFICES ASSUME Init PROVE TypeOK
  OBVIOUS
<1>1. wifi \in {Off} \cup OnRadio
  BY DEF Init, OnStates, OnModes, OnRadio
<1> QED
  BY <1>1 DEF Init, TypeOK, Preferences, OnRadio

\* A radio that is not off is one that is on, scanning or not.
LEMMA RadioType ==
  ASSUME TypeOK
  PROVE  /\ wifi.scanning \in BOOLEAN
         /\ wifi.mode # "Off" \/ wifi.scanning => wifi \in OnRadio
<1>1. CASE wifi = Off
  <2>1. wifi.mode = "Off" /\ wifi.scanning = FALSE
    BY <1>1 DEF Off
  <2> QED
    BY <2>1, Zenon
<1>2. CASE wifi \in OnRadio
  BY <1>2 DEF OnRadio
<1> QED
  BY <1>1, <1>2 DEF TypeOK, OnRadio

\* The notifications, as far as they are not a call of ApplyState.
LEMMA NotificationTypes ==
  ASSUME TypeOK,
         \/ OnWiFiRadioTransitionBeginning \/ OnWiFiRadioTransitionCompleted
         \/ OnWiFiRadioStateChanged \/ OnWiFiRadioScanBeginning
         \/ OnWiFiRadioScanCompleted \/ Unobserved
  PROVE  /\ native' \in NativeStates
         /\ binding' \in [preferred : Preferences, channel : Channels \cup {0},
                          available : BOOLEAN]
         /\ initialized' \in BOOLEAN /\ unannounced' \in BOOLEAN
         /\ haveSnapshot' \in BOOLEAN /\ scanSuspended' \in BOOLEAN
         /\ invalidated' \in BOOLEAN /\ applied' \in BOOLEAN
         /\ transitionSuspended' \in BOOLEAN
         /\ last' \in {OffSnapshot}
                     \cup [mode : OnModes, preferred : Preferences, channel : Channels]
<1> USE DEF NativeStates, snapshotVars, transportVars
<1>0. /\ scanSuspended \in BOOLEAN /\ FALSE \in BOOLEAN /\ initialized \in BOOLEAN
      /\ (transitionSuspended \/ invalidated) \in BOOLEAN
  BY DEF TypeOK
<1>1. CASE OnWiFiRadioTransitionBeginning
  <2>1. native' \in NativeStates /\ binding' \in [preferred : Preferences,
                                     channel : Channels \cup {0}, available : BOOLEAN]
    <3>1. CASE initialized
      <4>1. /\ binding' = [binding EXCEPT !.available = FALSE]
            /\ native' = [up |-> FALSE, suspended |-> TRUE]
        BY <1>1, <3>1 DEF OnWiFiRadioTransitionBeginning
      <4>2. binding \in [preferred : Preferences, channel : Channels \cup {0},
                         available : BOOLEAN]
        BY DEF TypeOK
      <4>3. native' \in NativeStates
        BY <4>1
      <4> QED
        BY <4>1, <4>2, <4>3
    <3>2. CASE ~initialized
      BY <1>1, <3>2 DEF OnWiFiRadioTransitionBeginning, TypeOK
    <3> QED
      BY <3>1, <3>2
  <2>2. invalidated' \in BOOLEAN /\ transitionSuspended' \in BOOLEAN
    BY <1>1, Zenon DEF OnWiFiRadioTransitionBeginning, TypeOK
  <2> QED
    BY <1>1, <2>1, <2>2 DEF OnWiFiRadioTransitionBeginning, TypeOK
<1>2. CASE OnWiFiRadioTransitionCompleted
  <2>1. Applied(scanSuspended) /\ transitionSuspended' = FALSE
    BY <1>0, <1>2, ApplyStateResult DEF OnWiFiRadioTransitionCompleted
  <2> QED
    BY <1>0, <2>1 DEF Applied
<1>3. CASE OnWiFiRadioStateChanged
  <2>1. CASE UNCHANGED <<initialized, native, unannounced, snapshotVars, invalidated, applied>>
             /\ scanSuspended' = TRUE /\ binding' = [binding EXCEPT !.available = FALSE]
    BY <1>3, <2>1 DEF OnWiFiRadioStateChanged, TypeOK
  <2>2. CASE UNCHANGED <<transportVars, snapshotVars, scanSuspended, invalidated, applied>>
    BY <1>3, <2>2 DEF OnWiFiRadioStateChanged, TypeOK
  <2>3. CASE ApplyState(scanSuspended, FALSE)
    <3>1. Applied(scanSuspended)
      BY <1>0, <2>3, ApplyStateResult
    <3> QED
      BY <1>0, <1>3, <3>1 DEF Applied, OnWiFiRadioStateChanged, TypeOK
  <2> QED
    BY <1>3, <2>1, <2>2, <2>3 DEF OnWiFiRadioStateChanged
<1>4. CASE OnWiFiRadioScanBeginning
  BY <1>4 DEF OnWiFiRadioScanBeginning, TypeOK
<1>5. CASE OnWiFiRadioScanCompleted
  <2>1. CASE transitionSuspended
    BY <1>5, <2>1 DEF OnWiFiRadioScanCompleted, TypeOK
  <2>2. CASE ~transitionSuspended
    <3>1. Applied(FALSE)
      BY <1>0, <1>5, <2>2, ApplyStateResult DEF OnWiFiRadioScanCompleted
    <3> QED
      BY <1>0, <1>5, <3>1 DEF Applied, OnWiFiRadioScanCompleted, TypeOK
  <2> QED
    BY <2>1, <2>2
<1>6. CASE Unobserved
  BY <1>6 DEF Unobserved, TypeOK
<1> QED
  BY <1>1, <1>2, <1>3, <1>4, <1>5, <1>6

\* No notification, call or change of the radio leaves the types.
LEMMA NextType == TypeOK /\ [Next]_vars => TypeOK'
<1> SUFFICES ASSUME TypeOK, [Next]_vars PROVE TypeOK'
  OBVIOUS
<1> USE DEF wifiVars, transportVars, snapshotVars
<1>1. CASE InitializeTransport
  BY <1>1 DEF InitializeTransport, TypeOK, Preferences
<1>2. CASE ShutdownTransport
  <2>1. initialized' \in BOOLEAN /\ unannounced' \in BOOLEAN
    BY <1>2, Zenon DEF ShutdownTransport
  <2>2. native' \in NativeStates /\ binding' \in [preferred : Preferences,
                                     channel : Channels \cup {0}, available : BOOLEAN]
    BY <1>2 DEF ShutdownTransport, NativeStates, Preferences
  <2> QED
    BY <1>2, <2>1, <2>2 DEF ShutdownTransport, TypeOK, NativeStates
<1>3. CASE Initialize \/ RefreshBinding
  <2>1. Applied(scanSuspended)
    BY <1>3, ApplyStateResult DEF Initialize, RefreshBinding, TypeOK
  <2>2. /\ UNCHANGED <<wifi, transitioning, event, transitionSuspended>>
        /\ observer' \in BOOLEAN
    BY <1>3 DEF Initialize, RefreshBinding, TypeOK
  <2> QED
    BY <2>1, <2>2 DEF Applied, TypeOK, NativeStates
<1>4. CASE Shutdown
  <2>1. /\ observer' \in BOOLEAN /\ haveSnapshot' \in BOOLEAN /\ scanSuspended' \in BOOLEAN
        /\ invalidated' \in BOOLEAN /\ transitionSuspended' \in BOOLEAN
    BY <1>4, Zenon DEF Shutdown
  <2> QED
    BY <1>4, <2>1 DEF Shutdown, TypeOK
<1>5. CASE BeginTransition \/ CompleteTransition \/ Notify
  <2>1. /\ UNCHANGED <<wifi, observer>>
        /\ transitioning' \in BOOLEAN /\ event' \in {"none", "changed", "scanned"}
    BY <1>5 DEF BeginTransition, CompleteTransition, Notify, TypeOK
  <2>2. \/ OnWiFiRadioTransitionBeginning \/ OnWiFiRadioTransitionCompleted
        \/ OnWiFiRadioStateChanged \/ OnWiFiRadioScanCompleted \/ Unobserved
    BY <1>5 DEF BeginTransition, CompleteTransition, Notify
  <2> QED
    BY <2>1, <2>2, NotificationTypes DEF TypeOK, NativeStates
<1>6. CASE ChangeRadio
  <2>1. PICK state \in {Off} \cup OnStates :
          /\ wifi' = [state EXCEPT !.scanning = wifi.scanning /\ state.mode # "Off"]
          /\ event' = IF wifi.scanning /\ ~wifi'.scanning THEN "scanned" ELSE "changed"
    BY <1>6 DEF ChangeRadio
  <2>2. wifi.scanning \in BOOLEAN
    BY RadioType
  <2>3. CASE state = Off
    <3>1. wifi' = Off
      BY <2>1, <2>3 DEF Off
    <3> QED
      BY <1>6, <2>1, <3>1 DEF ChangeRadio, TypeOK
  <2>4. CASE state \in OnStates
    <3>1. state \in OnRadio
      BY <2>4 DEF OnStates, OnModes, OnRadio
    <3>2. wifi' \in OnRadio
      BY <2>1, <2>2, <3>1 DEF OnRadio
    <3>3. event' \in {"none", "changed", "scanned"}
      BY <2>1
    <3> QED
      BY <1>6, <3>2, <3>3 DEF ChangeRadio, TypeOK, OnRadio
  <2> QED
    BY <2>1, <2>3, <2>4
<1>7. CASE BeginScan
  <2>1. /\ UNCHANGED <<transitioning, event, observer>>
        /\ wifi' = [wifi EXCEPT !.scanning = TRUE] /\ wifi.mode # "Off"
        /\ OnWiFiRadioScanBeginning \/ Unobserved
    BY <1>7 DEF BeginScan
  <2>2. wifi' \in OnRadio
    BY <2>1, RadioType DEF OnRadio
  <2> QED
    BY <2>1, <2>2, NotificationTypes DEF TypeOK, NativeStates, OnRadio
<1>8. CASE EndScan
  <2>1. wifi' \in OnRadio
    BY <1>8, RadioType DEF EndScan, OnRadio
  <2> QED
    BY <1>8, <2>1 DEF EndScan, TypeOK, OnRadio
<1>9. CASE UNCHANGED vars
  BY <1>9 DEF vars, TypeOK
<1> QED
  BY <1>1, <1>2, <1>3, <1>4, <1>5, <1>6, <1>7, <1>8, <1>9 DEF Next

\* Every reachable state of the coordinator has its type, whatever WiFi, the
\* driver and the application do.
THEOREM TypeCorrect == Spec => []TypeOK
BY InitType, NextType, PTL DEF Spec

-----------------------------------------------------------------------------
(* Scans.                                                                   *)

\* SetRadioAvailable(false).
LEMMA Withdrawn ==
  ASSUME TypeOK PROVE [binding EXCEPT !.available = FALSE].available = FALSE
BY DEF TypeOK

\* A call that notifies the end of a transition or a change, or refreshes the
\* binding, leaves a scanning radio's binding unavailable.
LEMMA NextUnavailable ==
  TypeOK /\ UnavailableDuringScan /\ [Next]_vars => UnavailableDuringScan'
<1> SUFFICES ASSUME TypeOK, UnavailableDuringScan, [Next]_vars
             PROVE  UnavailableDuringScan'
  OBVIOUS
<1> USE DEF wifiVars, transportVars, snapshotVars, UnavailableDuringScan
<1>0. /\ scanSuspended \in BOOLEAN
      /\ (transitionSuspended \/ invalidated) \in BOOLEAN
  BY DEF TypeOK
<1>1. CASE InitializeTransport
  BY <1>1 DEF InitializeTransport
<1>2. CASE ShutdownTransport
  BY <1>2 DEF ShutdownTransport
<1>3. CASE Initialize \/ RefreshBinding
  <2>1. Applied(scanSuspended) /\ wifi' = wifi
    BY <1>0, <1>3, ApplyStateResult DEF Initialize, RefreshBinding
  <2> QED
    BY <2>1 DEF Applied
<1>4. CASE Shutdown
  BY <1>4 DEF Shutdown
<1>5. CASE BeginTransition
  <2>1. wifi' = wifi /\ observer' = observer
    BY <1>5 DEF BeginTransition
  <2>2. CASE Unobserved
    BY <2>1, <2>2 DEF Unobserved
  <2>3. CASE OnWiFiRadioTransitionBeginning
    BY <2>1, <2>3, Withdrawn DEF OnWiFiRadioTransitionBeginning
  <2> QED
    BY <1>5, <2>2, <2>3 DEF BeginTransition
<1>6. CASE CompleteTransition
  <2>1. wifi' = wifi /\ observer' = observer
    BY <1>6 DEF CompleteTransition
  <2>2. CASE Unobserved
    BY <2>1, <2>2 DEF Unobserved
  <2>3. CASE OnWiFiRadioTransitionCompleted
    <3>1. Applied(scanSuspended)
      BY <1>0, <2>3, ApplyStateResult DEF OnWiFiRadioTransitionCompleted
    <3> QED
      BY <2>1, <3>1 DEF Applied
  <2> QED
    BY <1>6, <2>2, <2>3 DEF CompleteTransition
<1>7. CASE Notify
  <2>1. wifi' = wifi /\ observer' = observer
    BY <1>7 DEF Notify
  <2>2. CASE Unobserved
    BY <2>1, <2>2 DEF Unobserved
  <2>3. CASE OnWiFiRadioStateChanged
    <3>1. CASE ApplyState(scanSuspended, FALSE)
      <4>1. Applied(scanSuspended)
        BY <1>0, <3>1, ApplyStateResult
      <4> QED
        BY <2>1, <4>1 DEF Applied
    <3>2. CASE ~ApplyState(scanSuspended, FALSE)
      BY <2>1, <2>3, <3>2, Withdrawn DEF OnWiFiRadioStateChanged
    <3> QED
      BY <3>1, <3>2
  <2>4. CASE OnWiFiRadioScanCompleted
    <3>1. CASE transitionSuspended
      BY <2>1, <2>4, <3>1 DEF OnWiFiRadioScanCompleted
    <3>2. CASE ~transitionSuspended
      <4>1. Applied(FALSE)
        BY <2>4, <3>2, ApplyStateResult DEF OnWiFiRadioScanCompleted
      <4> QED
        BY <2>1, <4>1 DEF Applied
    <3> QED
      BY <3>1, <3>2
  <2> QED
    BY <1>7, <2>2, <2>3, <2>4 DEF Notify
<1>8. CASE ChangeRadio
  <2>1. wifi'.scanning => wifi.scanning
    <3>1. PICK state \in {Off} \cup OnStates :
            wifi' = [state EXCEPT !.scanning = wifi.scanning /\ state.mode # "Off"]
      BY <1>8 DEF ChangeRadio
    <3>2. CASE state = Off
      BY <3>1, <3>2 DEF Off
    <3>3. CASE state \in OnStates
      <4>1. state \in OnRadio
        BY <3>3 DEF OnStates, OnModes, OnRadio
      <4> QED
        BY <3>1, <4>1 DEF OnRadio
    <3> QED
      BY <3>1, <3>2, <3>3
  <2> QED
    BY <1>8, <2>1 DEF ChangeRadio
<1>9. CASE BeginScan
  <2>1. CASE Unobserved
    BY <1>9, <2>1 DEF BeginScan, Unobserved
  <2>2. CASE OnWiFiRadioScanBeginning
    BY <2>2, Withdrawn DEF OnWiFiRadioScanBeginning
  <2> QED
    BY <1>9, <2>1, <2>2 DEF BeginScan
<1>10. CASE EndScan
  <2>1. wifi'.scanning = FALSE
    BY <1>10, RadioType DEF EndScan, OnRadio
  <2> QED
    BY <2>1
<1>11. CASE UNCHANGED vars
  BY <1>11 DEF vars
<1> QED
  BY <1>1, <1>2, <1>3, <1>4, <1>5, <1>6, <1>7, <1>8, <1>9, <1>10, <1>11 DEF Next

\* While WiFi scans, ESP-NOW is unavailable to its users, whatever transitions,
\* refreshes and restarts overlap the scan: also when the application calls
\* RefreshBinding out of turn.  A transport initialized under the coordinator is
\* excepted until the coordinator's next word.
THEOREM WithdrawnDuringScan == Spec => []UnavailableDuringScan
<1>1. Init => UnavailableDuringScan
  BY DEF Init, UnavailableDuringScan
<1> QED
  BY <1>1, TypeCorrect, NextUnavailable, PTL DEF Spec

-----------------------------------------------------------------------------
(* Transitions.                                                             *)

\* Before the first Initialize neither flag is set.
LEMMA InitInv == Init => Inv
<1> SUFFICES ASSUME Init PROVE Inv
  OBVIOUS
<1>1. TypeOK
  BY InitType
<1> QED
  BY <1>1 DEF Init, Inv, ScanAccounted, TransitionAccounted, DownDuringTransition

\* Without calls out of turn, every step keeps the two flags accounted for, and
\* none of them attaches ESP-NOW while a transition has it suspended.
LEMMA NextInv ==
  ASSUME ~RefreshOutOfTurn
  PROVE  Inv /\ [Next]_vars => Inv'
<1> SUFFICES ASSUME Inv, [Next]_vars PROVE Inv'
  OBVIOUS
<1> USE DEF wifiVars, transportVars, snapshotVars, ScanAccounted, TransitionAccounted,
            DownDuringTransition
<1>0. /\ TypeOK /\ ScanAccounted /\ TransitionAccounted /\ DownDuringTransition
      /\ scanSuspended \in BOOLEAN
      /\ (transitionSuspended \/ invalidated) \in BOOLEAN
  BY DEF Inv, TypeOK
<1>t. TypeOK'
  BY <1>0, NextType
<1> SUFFICES ScanAccounted' /\ TransitionAccounted' /\ DownDuringTransition'
  BY <1>t DEF Inv
<1>1. CASE InitializeTransport
  BY <1>0, <1>1 DEF InitializeTransport
<1>2. CASE ShutdownTransport
  BY <1>0, <1>2 DEF ShutdownTransport
<1>3. CASE Initialize \/ RefreshBinding
  <2>1. Applied(scanSuspended) /\ wifi' = wifi
    BY <1>0, <1>3, ApplyStateResult DEF Initialize, RefreshBinding
  <2>2. observer' /\ (observer => ~transitioning)
    <3>1. CASE Initialize
      BY <3>1 DEF Initialize
    <3>2. CASE RefreshBinding
      BY <3>2 DEF RefreshBinding
    <3> QED
      BY <1>3, <3>1, <3>2
  <2>3. UNCHANGED <<transitioning, event, transitionSuspended>>
    BY <1>3 DEF Initialize, RefreshBinding
  <2> QED
    BY <1>0, <2>1, <2>2, <2>3 DEF Applied
<1>4. CASE Shutdown
  BY <1>4 DEF Shutdown
<1>5. CASE BeginTransition
  <2>1. /\ UNCHANGED <<wifi, event, observer>> /\ transitioning' = TRUE /\ ~transitioning
        /\ Unobserved \/ OnWiFiRadioTransitionBeginning
    BY <1>5 DEF BeginTransition
  <2>2. CASE Unobserved
    BY <1>0, <2>1, <2>2 DEF Unobserved
  <2>3. CASE OnWiFiRadioTransitionBeginning
    BY <1>0, <2>1, <2>3 DEF OnWiFiRadioTransitionBeginning
  <2> QED
    BY <2>1, <2>2, <2>3
<1>6. CASE CompleteTransition
  <2>1. /\ UNCHANGED <<wifi, event, observer>> /\ transitioning' = FALSE
        /\ Unobserved \/ OnWiFiRadioTransitionCompleted
    BY <1>6 DEF CompleteTransition
  <2>2. CASE Unobserved
    BY <1>0, <2>1, <2>2 DEF Unobserved
  <2>3. CASE OnWiFiRadioTransitionCompleted
    <3>1. Applied(scanSuspended) /\ transitionSuspended' = FALSE /\ observer
      BY <1>0, <2>3, ApplyStateResult DEF OnWiFiRadioTransitionCompleted
    <3> QED
      BY <1>0, <2>1, <3>1 DEF Applied
  <2> QED
    BY <2>1, <2>2, <2>3
<1>7. CASE Notify
  <2>1. UNCHANGED <<wifi, transitioning, observer>> /\ event' = "none"
    BY <1>7 DEF Notify
  <2>2. CASE Unobserved
    BY <1>0, <2>1, <2>2 DEF Unobserved
  <2>3. CASE event = "changed" /\ OnWiFiRadioStateChanged
    <3>1. observer /\ transitionSuspended' = transitionSuspended
      BY <2>3 DEF OnWiFiRadioStateChanged
    <3>2. CASE ~transitionSuspended /\ ApplyState(scanSuspended, FALSE)
      <4>1. Applied(scanSuspended)
        BY <1>0, <3>2, ApplyStateResult
      <4> QED
        BY <1>0, <2>1, <2>3, <3>1, <3>2, <4>1 DEF Applied
    <3>3. CASE wifi.scanning /\ UNCHANGED <<initialized, native, unannounced>>
      BY <1>0, <2>1, <3>1, <3>3
    <3>4. CASE UNCHANGED <<initialized, native, unannounced, scanSuspended>>
      BY <1>0, <2>1, <2>3, <3>1, <3>4
    <3> QED
      BY <2>3, <3>2, <3>3, <3>4 DEF OnWiFiRadioStateChanged
  <2>4. CASE OnWiFiRadioScanCompleted
    <3>1. observer /\ transitionSuspended' = transitionSuspended
      BY <2>4 DEF OnWiFiRadioScanCompleted
    <3>2. CASE transitionSuspended
      BY <1>0, <2>1, <2>4, <3>1, <3>2 DEF OnWiFiRadioScanCompleted
    <3>3. CASE ~transitionSuspended
      <4>1. Applied(FALSE)
        BY <1>0, <2>4, <3>3, ApplyStateResult DEF OnWiFiRadioScanCompleted
      <4> QED
        BY <2>1, <3>1, <3>3, <4>1 DEF Applied
    <3> QED
      BY <3>2, <3>3
  <2> QED
    BY <1>7, <2>2, <2>3, <2>4 DEF Notify
<1>8. CASE ChangeRadio
  <2>1. /\ event = "none"
        /\ wifi.scanning => wifi'.scanning \/ event' = "scanned"
    BY <1>8 DEF ChangeRadio
  <2> QED
    BY <1>0, <1>8, <2>1 DEF ChangeRadio
<1>9. CASE BeginScan
  <2>1. /\ UNCHANGED <<transitioning, event, observer>> /\ event = "none"
        /\ Unobserved \/ OnWiFiRadioScanBeginning
    BY <1>9 DEF BeginScan
  <2>2. wifi'.scanning = TRUE
    BY <1>0, <1>9, RadioType DEF BeginScan, OnRadio
  <2>3. CASE Unobserved
    BY <1>0, <2>1, <2>3 DEF Unobserved
  <2>4. CASE OnWiFiRadioScanBeginning
    BY <1>0, <2>1, <2>2, <2>4 DEF OnWiFiRadioScanBeginning
  <2> QED
    BY <2>1, <2>3, <2>4
<1>10. CASE EndScan
  BY <1>0, <1>10 DEF EndScan
<1>11. CASE UNCHANGED vars
  BY <1>0, <1>11 DEF vars
<1> QED
  BY <1>1, <1>2, <1>3, <1>4, <1>5, <1>6, <1>7, <1>8, <1>9, <1>10, <1>11 DEF Next

\* ESP-NOW stays detached throughout a transition, whatever is notified in
\* between, when the application does not call RefreshBinding out of turn, nor
\* initialize the transport during the transition.
THEOREM DetachedDuringTransition ==
  ASSUME ~RefreshOutOfTurn
  PROVE  Spec => []DownDuringTransition
<1>1. Init => Inv
  BY InitInv
<1>2. Inv /\ [Next]_vars => Inv'
  BY NextInv
<1>3. Inv => DownDuringTransition
  BY DEF Inv
<1> QED
  BY <1>1, <1>2, <1>3, PTL DEF Spec

-----------------------------------------------------------------------------
(* The binding.                                                             *)

\* A step that ends quietly with a successful ApplyState has just called it, or
\* has left the binding of before alone.
LEMMA NextBound ==
  ASSUME ~RefreshOutOfTurn, HasPeers
  PROVE  Inv /\ BoundWhenQuiet /\ [Next]_vars => BoundWhenQuiet'
<1> SUFFICES ASSUME Inv, BoundWhenQuiet, [Next]_vars,
                    observer', initialized', ~unannounced', applied', ~transitioning',
                    ~wifi'.scanning, event' = "none", wifi'.mode # "Off"
             PROVE  native' = Attached /\ binding' = BindingOf(wifi', TRUE)
  BY DEF BoundWhenQuiet, Attached, BindingOf, ResolvePreferredInterface
<1>0. /\ TypeOK /\ ScanAccounted /\ TransitionAccounted
      /\ scanSuspended \in BOOLEAN
      /\ (transitionSuspended \/ invalidated) \in BOOLEAN
  BY DEF Inv, TypeOK
<1> USE DEF wifiVars, transportVars, snapshotVars
<1>a. ASSUME wifi' = wifi, NEW ss \in BOOLEAN, ~ss, NEW force \in BOOLEAN,
             ApplyState(ss, force)
      PROVE  native' = Attached /\ binding' = BindingOf(wifi', TRUE)
  <2>1. Applied(ss)
    BY <1>0, <1>a, ApplyStateResult
  <2> QED
    BY <1>a, <2>1 DEF Applied, BindingOf, ResolvePreferredInterface
<1>b. CASE UNCHANGED <<observer, initialized, unannounced, applied, transitioning, wifi, event,
                       native, binding>>
  BY <1>b DEF BoundWhenQuiet, Attached, BindingOf, ResolvePreferredInterface
<1>1. CASE InitializeTransport \/ ShutdownTransport \/ Shutdown
  <2>1. CASE InitializeTransport
    <3>1. unannounced' = observer /\ observer' = observer
      BY <2>1 DEF InitializeTransport
    <3> QED
      BY <3>1
  <2>2. CASE ShutdownTransport \/ Shutdown
    BY <2>2 DEF ShutdownTransport, Shutdown
  <2> QED
    BY <1>1, <2>1, <2>2
<1>2. CASE Initialize \/ RefreshBinding
  <2>1. wifi' = wifi /\ event = "none"
    BY <1>2 DEF Initialize, RefreshBinding
  <2>2. ~scanSuspended
    BY <1>0, <2>1 DEF ScanAccounted
  <2> QED
    BY <1>0, <1>2, <1>a, <2>1, <2>2 DEF Initialize, RefreshBinding
<1>3. CASE BeginTransition \/ ChangeRadio \/ BeginScan \/ EndScan
  <2>1. CASE BeginTransition
    BY <2>1 DEF BeginTransition
  <2>2. CASE ChangeRadio
    <3>1. event' # "none"
      BY <2>2 DEF ChangeRadio
    <3> QED
      BY <3>1
  <2>3. CASE BeginScan
    BY <1>0, <2>3, RadioType DEF BeginScan, OnRadio
  <2>4. CASE EndScan
    BY <2>4 DEF EndScan
  <2> QED
    BY <1>3, <2>1, <2>2, <2>3, <2>4
<1>4. CASE CompleteTransition
  <2>1. wifi' = wifi /\ event = "none" /\ observer' = observer
    BY <1>4 DEF CompleteTransition
  <2>2. ~scanSuspended
    BY <1>0, <2>1 DEF ScanAccounted
  <2>3. ApplyState(scanSuspended, transitionSuspended \/ invalidated)
    <3>1. ~Unobserved
      BY <2>1 DEF Unobserved
    <3>2. OnWiFiRadioTransitionCompleted
      BY <1>4, <3>1 DEF CompleteTransition
    <3> QED
      BY <3>2 DEF OnWiFiRadioTransitionCompleted
  <2> QED
    BY <1>0, <1>a, <2>1, <2>2, <2>3
<1>5. CASE Notify
  <2>1. wifi' = wifi /\ observer' = observer /\ transitioning' = transitioning
    BY <1>5 DEF Notify
  <2>2. ~transitionSuspended
    BY <1>0, <2>1 DEF TransitionAccounted
  <2>3. CASE event = "changed" /\ OnWiFiRadioStateChanged
    <3>1. ~scanSuspended
      BY <1>0, <2>1, <2>3 DEF ScanAccounted
    <3>2. ApplyState(scanSuspended, FALSE)
      BY <2>1, <2>2, <2>3 DEF OnWiFiRadioStateChanged
    <3> QED
      BY <1>0, <1>a, <2>1, <3>1, <3>2
  <2>4. CASE event = "scanned" /\ OnWiFiRadioScanCompleted
    <3>1. ApplyState(FALSE, FALSE)
      BY <2>2, <2>4 DEF OnWiFiRadioScanCompleted
    <3> QED
      BY <1>a, <2>1, <3>1
  <2>5. ~Unobserved
    BY <2>1 DEF Unobserved
  <2> QED
    BY <1>5, <2>3, <2>4, <2>5 DEF Notify
<1>6. CASE UNCHANGED vars
  BY <1>6, <1>b DEF vars
<1> QED
  BY <1>1, <1>2, <1>3, <1>4, <1>5, <1>6 DEF Next

\* Once WiFi is quiet, ESP-NOW is attached, available and bound to the radio's
\* interface and channel, unless the driver refused the latest attempt or the
\* transport was initialized under the coordinator since: for a
\* registry with peers (an empty one lets a lightweight rebind succeed on a
\* driver that is down) and without calls out of turn.
THEOREM BoundAfterwards ==
  ASSUME ~RefreshOutOfTurn, HasPeers
  PROVE  Spec => []BoundWhenQuiet
<1>1. Init => Inv /\ BoundWhenQuiet
  BY InitInv DEF Init, BoundWhenQuiet
<1>2. Inv /\ [Next]_vars => Inv'
  BY NextInv
<1>3. Inv /\ BoundWhenQuiet /\ [Next]_vars => BoundWhenQuiet'
  BY NextBound
<1> QED
  BY <1>1, <1>2, <1>3, PTL DEF Spec
=============================================================================
