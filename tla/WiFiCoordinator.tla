--------------------------- MODULE WiFiCoordinator ---------------------------
(***************************************************************************)
(* ESPNowWiFiCoordinator: it mirrors the WiFi manager's radio into the      *)
(* transport's binding, takes the native driver down for a transition and   *)
(* withdraws the binding for a scan.                                        *)
(*                                                                          *)
(* Every method holds _stateMutex from its first statement to its last, so  *)
(* each is one action.  The WiFi manager is external: it notifies its       *)
(* observer synchronously and one notification at a time, opens a           *)
(* transition or a scan before it disturbs the radio, and closes it after.  *)
(* What RadioState() says may change before the notification of it comes    *)
(* (variable event), and RefreshBinding may run in between.  The transport  *)
(* is seen through the results of its calls: PeerRegistry has the detail.   *)
(***************************************************************************)
EXTENDS Naturals

CONSTANTS
  Channels,                \* WiFi channels, not 0
  NativeFaults,            \* what may fail: "init" (esp_now_init), "peers" (a
                           \* managed peer is refused by the driver)
  HasPeers,                \* the managed registry is not empty
  RefreshOutOfTurn         \* the application may call RefreshBinding on a
                           \* coordinator that does not observe WiFi, and it and
                           \* Initialize between a transition's notifications

ASSUME ChannelsAssumption == Channels \subseteq Nat \ {0}
ASSUME NativeFaultsAssumption == NativeFaults \subseteq {"init", "peers"}
ASSUME HasPeersAssumption == HasPeers \in BOOLEAN
ASSUME RefreshOutOfTurnAssumption == RefreshOutOfTurn \in BOOLEAN

VARIABLES
  wifi,                 \* WiFiManager::RadioState()
  transitioning,        \* WiFi is between a transition's two notifications
  event,                \* the notification WiFi owes: "none", "changed", "scanned"
  initialized,          \* the transport's GetIsInitialized()
  native,               \* esp_now: up, and _nativeSuspended
  binding,              \* the transport's _radioBinding
  unannounced,          \* history: the transport was initialized under an attached
                        \* coordinator, which has not applied a state or begun a
                        \* transition since
  observer,             \* _observerHandle
  haveSnapshot,         \* _haveSnapshot
  scanSuspended,        \* _scanSuspended
  invalidated,          \* _nativeStateInvalidated
  transitionSuspended,  \* _transitionSuspendedNativeState
  last,                 \* _lastRadioMode, _lastPreferredInterface, _lastChannel
  applied               \* history: what the latest ApplyState returned

wifiVars == <<wifi, transitioning, event>>
transportVars == <<initialized, native, binding, unannounced>>
snapshotVars == <<haveSnapshot, last>>
vars == <<wifiVars, transportVars, observer, snapshotVars, scanSuspended,
          invalidated, transitionSuspended, applied>>

-----------------------------------------------------------------------------
Off == [mode |-> "Off", station |-> FALSE, accessPoint |-> FALSE,
        channel |-> 0, scanning |-> FALSE]

OnStates ==
  [mode : {"Station"}, station : {TRUE}, accessPoint : {FALSE},
   channel : Channels, scanning : {FALSE}]
  \cup [mode : {"AccessPoint"}, station : {FALSE}, accessPoint : {TRUE},
        channel : Channels, scanning : {FALSE}]
  \cup [mode : {"AccessPointStation"}, station : BOOLEAN, accessPoint : BOOLEAN,
        channel : Channels, scanning : {FALSE}]

OffSnapshot == [mode |-> "Off", preferred |-> "Auto", channel |-> 0]

ResolvePreferredInterface(state) ==
  CASE state.mode = "AccessPoint" -> "AccessPoint"
    [] state.mode = "Station"     -> "Station"
    [] state.mode = "AccessPointStation" /\ state.station -> "Station"
    [] state.mode = "AccessPointStation" /\ ~state.station /\ state.accessPoint -> "AccessPoint"
    [] OTHER -> "Auto"

\* ApplyRadioBinding on a driver in state n: the state it is left in and the
\* result.  A failed esp_now_init leaves _nativeSuspended as it was.
ApplyRadioBinding(n, reinitialize) ==
  LET Attached == [up |-> TRUE, suspended |-> FALSE]
  IN  IF reinitialize \/ n.suspended
        THEN {[native |-> Attached, success |-> TRUE]}
             \cup {[native |-> [n EXCEPT !.up = FALSE], success |-> FALSE] :
                     f \in NativeFaults \cap {"init"}}
             \cup {[native |-> Attached, success |-> FALSE] :
                     f \in NativeFaults \cap {"peers"}}
        ELSE {[native |-> n, success |-> n.up \/ ~HasPeers]}
             \cup {[native |-> n, success |-> FALSE] : f \in NativeFaults \cap {"peers"}}

-----------------------------------------------------------------------------
(* ApplyState(state, force), with _scanSuspended = ss when it is called.    *)

ApplyOff ==
  /\ wifi.mode = "Off"
  /\ invalidated' = TRUE
  /\ scanSuspended' = FALSE
  /\ binding' = [binding EXCEPT !.available = FALSE]
  /\ last' = OffSnapshot
  /\ haveSnapshot' = TRUE
  /\ applied' = TRUE
  /\ UNCHANGED native

\* Mutant: a radio that is scanning is bound like any other.
IsScanningIgnored == FALSE

IsScanning == wifi.scanning

ApplyScanning ==
  /\ wifi.mode # "Off"
  /\ IsScanning
  /\ scanSuspended' = TRUE
  /\ binding' = [binding EXCEPT !.available = FALSE]
  /\ applied' = TRUE
  /\ UNCHANGED <<native, snapshotVars, invalidated>>

\* A lightweight rebind that fails is tried again with a rebuild when
\* something changed since the last snapshot.
ApplyOn(ss, force) ==
  /\ wifi.mode # "Off"
  /\ ~IsScanning
  /\ LET now == [mode |-> wifi.mode, preferred |-> ResolvePreferredInterface(wifi),
                 channel |-> wifi.channel]
         rebuildRequired == force \/ invalidated
     IN  \E first \in ApplyRadioBinding(native, rebuildRequired) :
           LET retry == ~first.success /\ ~rebuildRequired /\ haveSnapshot /\ now # last
           IN  \E final \in IF retry THEN ApplyRadioBinding(first.native, TRUE) ELSE {first} :
                 /\ native' = final.native
                 /\ binding' = [preferred |-> now.preferred, channel |-> now.channel,
                                available |-> ~ss /\ final.success]
                 /\ invalidated' = (invalidated /\ ~final.success)
                 /\ applied' = final.success
         /\ last' = now
  /\ haveSnapshot' = TRUE
  /\ scanSuspended' = FALSE

ApplyState(ss, force) ==
  /\ UNCHANGED initialized
  /\ unannounced' = FALSE
  /\ \/ /\ ~initialized
        /\ scanSuspended' = ss
        /\ applied' = FALSE
        /\ UNCHANGED <<native, binding, snapshotVars, invalidated>>
     \/ initialized /\ ApplyOff
     \/ initialized /\ ApplyScanning
     \/ initialized /\ ApplyOn(ss, force)

-----------------------------------------------------------------------------
(* The application: the transport's owner and the coordinator's.            *)

Init == /\ wifi \in {Off} \cup OnStates
        /\ transitioning = FALSE
        /\ event = "none"
        /\ initialized = FALSE
        /\ native = [up |-> FALSE, suspended |-> FALSE]
        /\ binding = [preferred |-> "Auto", channel |-> 0, available |-> TRUE]
        /\ unannounced = FALSE
        /\ observer = FALSE
        /\ haveSnapshot = FALSE
        /\ scanSuspended = FALSE
        /\ invalidated = FALSE
        /\ transitionSuspended = FALSE
        /\ last = OffSnapshot
        /\ applied = FALSE

\* The transport attaches and publishes itself as available on the channel of its
\* configuration (0: the radio's own), whatever WiFi does at that moment: it does
\* not know of the coordinator, and nobody tells the coordinator.
InitializeTransport ==
  /\ ~initialized
  /\ initialized' = TRUE
  /\ unannounced' = observer
  /\ native' = [up |-> TRUE, suspended |-> FALSE]
  /\ \E channel \in Channels \cup {0} :
       binding' = [preferred |-> "Auto", channel |-> channel, available |-> TRUE]
  /\ UNCHANGED <<wifiVars, observer, snapshotVars, scanSuspended, invalidated,
                 transitionSuspended, applied>>

ShutdownTransport ==
  /\ initialized
  /\ initialized' = FALSE
  /\ native' = [up |-> FALSE, suspended |-> TRUE]
  /\ binding' = [preferred |-> "Auto", channel |-> 0, available |-> FALSE]
  /\ unannounced' = FALSE
  /\ UNCHANGED <<wifiVars, observer, snapshotVars, scanSuspended, invalidated,
                 transitionSuspended, applied>>

Initialize ==
  /\ observer \/ initialized
  /\ observer => RefreshOutOfTurn \/ ~transitioning
  /\ observer' = TRUE
  /\ ApplyState(scanSuspended, FALSE)
  /\ UNCHANGED <<wifiVars, transitionSuspended>>

Shutdown ==
  /\ observer
  /\ observer' = FALSE
  /\ haveSnapshot' = FALSE
  /\ scanSuspended' = FALSE
  /\ invalidated' = FALSE
  /\ transitionSuspended' = FALSE
  /\ UNCHANGED <<wifiVars, transportVars, last, applied>>

RefreshBinding ==
  /\ RefreshOutOfTurn \/ (observer /\ ~transitioning)
  /\ \E force \in BOOLEAN : ApplyState(scanSuspended, force)
  /\ UNCHANGED <<wifiVars, observer, transitionSuspended>>

-----------------------------------------------------------------------------
(* The WiFi manager, and the notification it gives a registered observer.   *)

Unobserved == /\ ~observer
              /\ UNCHANGED <<transportVars, snapshotVars, scanSuspended, invalidated,
                             transitionSuspended, applied>>

\* Mutant: the binding is withdrawn but the driver stays attached.
OnWiFiRadioTransitionBeginningLight ==
  /\ observer
  /\ unannounced' = FALSE
  /\ IF initialized
       THEN /\ binding' = [binding EXCEPT !.available = FALSE]
            /\ transitionSuspended' = TRUE
       ELSE UNCHANGED <<binding, transitionSuspended>>
  /\ UNCHANGED <<initialized, native, invalidated, snapshotVars, scanSuspended, applied>>

OnWiFiRadioTransitionBeginning ==
  /\ observer
  /\ unannounced' = FALSE
  /\ IF initialized
       THEN /\ binding' = [binding EXCEPT !.available = FALSE]
            /\ native' = [up |-> FALSE, suspended |-> TRUE]
            /\ invalidated' = TRUE
            /\ transitionSuspended' = TRUE
       ELSE UNCHANGED <<binding, native, invalidated, transitionSuspended>>
  /\ UNCHANGED <<initialized, snapshotVars, scanSuspended, applied>>

OnWiFiRadioTransitionCompleted ==
  /\ observer
  /\ transitionSuspended' = FALSE
  /\ ApplyState(scanSuspended, transitionSuspended \/ invalidated)

OnWiFiRadioStateChanged ==
  /\ observer
  /\ UNCHANGED transitionSuspended
  /\ \/ /\ wifi.scanning
        /\ scanSuspended' = TRUE
        /\ binding' = [binding EXCEPT !.available = FALSE]
        /\ UNCHANGED <<initialized, native, unannounced, snapshotVars, invalidated, applied>>
     \/ /\ ~wifi.scanning
        /\ transitionSuspended
        /\ UNCHANGED <<transportVars, snapshotVars, scanSuspended, invalidated, applied>>
     \/ /\ ~wifi.scanning
        /\ ~transitionSuspended
        /\ ApplyState(scanSuspended, FALSE)

OnWiFiRadioScanBeginning ==
  /\ observer
  /\ scanSuspended' = TRUE
  /\ binding' = [binding EXCEPT !.available = FALSE]
  /\ UNCHANGED <<initialized, native, unannounced, snapshotVars, invalidated,
                 transitionSuspended, applied>>

\* Mutant: the end of the scan is forgotten.
OnWiFiRadioScanCompletedStillSuspended ==
  /\ observer
  /\ UNCHANGED transitionSuspended
  /\ IF transitionSuspended
       THEN UNCHANGED <<transportVars, snapshotVars, scanSuspended, invalidated, applied>>
       ELSE ApplyState(scanSuspended, FALSE)

OnWiFiRadioScanCompleted ==
  /\ observer
  /\ UNCHANGED transitionSuspended
  /\ IF transitionSuspended
       THEN /\ scanSuspended' = FALSE
            /\ UNCHANGED <<transportVars, snapshotVars, invalidated, applied>>
       ELSE ApplyState(FALSE, FALSE)

BeginTransition ==
  /\ ~transitioning
  /\ event = "none"
  /\ transitioning' = TRUE
  /\ Unobserved \/ OnWiFiRadioTransitionBeginning
  /\ UNCHANGED <<wifi, event, observer>>

CompleteTransition ==
  /\ transitioning
  /\ event = "none"
  /\ transitioning' = FALSE
  /\ Unobserved \/ OnWiFiRadioTransitionCompleted
  /\ UNCHANGED <<wifi, event, observer>>

\* A transition may change anything, and ends a scan only when it turns the
\* radio off; without one a station may follow its access point to another
\* channel and an interface of AP+STA may come or go.
ChangeRadio ==
  /\ event = "none"
  /\ \E state \in {Off} \cup OnStates :
       /\ transitioning \/ state.mode = wifi.mode
       /\ wifi' = [state EXCEPT !.scanning = wifi.scanning /\ state.mode # "Off"]
       /\ wifi' # wifi
       /\ event' = IF wifi.scanning /\ ~wifi'.scanning THEN "scanned" ELSE "changed"
  /\ UNCHANGED <<transitioning, transportVars, observer, snapshotVars, scanSuspended,
                 invalidated, transitionSuspended, applied>>

\* RadioState() says Scanning from the notification on.
BeginScan ==
  /\ event = "none"
  /\ wifi.mode # "Off"
  /\ ~wifi.scanning
  /\ wifi' = [wifi EXCEPT !.scanning = TRUE]
  /\ Unobserved \/ OnWiFiRadioScanBeginning
  /\ UNCHANGED <<transitioning, event, observer>>

EndScan ==
  /\ event = "none"
  /\ wifi.scanning
  /\ wifi' = [wifi EXCEPT !.scanning = FALSE]
  /\ event' = "scanned"
  /\ UNCHANGED <<transitioning, transportVars, observer, snapshotVars, scanSuspended,
                 invalidated, transitionSuspended, applied>>

Notify ==
  /\ event # "none"
  /\ event' = "none"
  /\ \/ Unobserved
     \/ event = "changed" /\ OnWiFiRadioStateChanged
     \/ event = "scanned" /\ OnWiFiRadioScanCompleted
  /\ UNCHANGED <<wifi, transitioning, observer>>

Next == \/ InitializeTransport \/ ShutdownTransport
        \/ Initialize \/ Shutdown \/ RefreshBinding
        \/ BeginTransition \/ CompleteTransition \/ ChangeRadio
        \/ BeginScan \/ EndScan \/ Notify

Spec == Init /\ [][Next]_vars

-----------------------------------------------------------------------------
OnModes == {"Station", "AccessPoint", "AccessPointStation"}
Preferences == {"Station", "AccessPoint", "Auto"}

\* Type correctness: the snapshot of a radio that is off is exactly the one that
\* ApplyState records.
TypeOK ==
  /\ wifi \in {Off} \cup [mode : OnModes, station : BOOLEAN, accessPoint : BOOLEAN,
                          channel : Channels, scanning : BOOLEAN]
  /\ transitioning \in BOOLEAN /\ event \in {"none", "changed", "scanned"}
  /\ initialized \in BOOLEAN /\ observer \in BOOLEAN /\ unannounced \in BOOLEAN
  /\ native \in [up : BOOLEAN, suspended : BOOLEAN]
  /\ binding \in [preferred : Preferences, channel : Channels \cup {0}, available : BOOLEAN]
  /\ haveSnapshot \in BOOLEAN /\ scanSuspended \in BOOLEAN
  /\ invalidated \in BOOLEAN /\ transitionSuspended \in BOOLEAN
  /\ applied \in BOOLEAN
  /\ last \in {OffSnapshot} \cup [mode : OnModes, preferred : Preferences, channel : Channels]

\* ESP-NOW stays detached from the driver from the first notification of a
\* transition to the last, whatever scans and state changes are notified in
\* between: WiFi never rebuilds its interfaces under a live esp_now.
\* OPTIMISATIONS.md asks to "detach native esp_now before WiFi changes
\* AP/STA/APSTA/interface state".  The coordinator cannot answer for a transport
\* that is initialized during the transition itself (unannounced): Initialize
\* asks only whether it has run already.
DownDuringTransition ==
  transitioning /\ transitionSuspended /\ initialized /\ ~unannounced => ~native.up

\* No call of the coordinator republishes the binding as available while WiFi
\* scans, be it the end of a transition, a refresh or a repeated Initialize.  The
\* transport's own Initialize does, under a coordinator that is not told of it
\* (unannounced), until the coordinator's next word.
UnavailableDuringScan ==
  wifi.scanning /\ observer /\ initialized /\ ~unannounced => ~binding.available

\* Once WiFi has nothing more to notify, the binding is the one the radio
\* calls for: after any overlap of scans, transitions, refreshes and restarts
\* of coordinator and transport, ESP-NOW is up and available on the preferred
\* interface and channel, unless the driver refused the latest attempt or the
\* transport has been initialized under the coordinator since (unannounced).
BoundWhenQuiet ==
  observer /\ initialized /\ ~unannounced /\ applied
  /\ ~transitioning /\ ~wifi.scanning /\ event = "none" /\ wifi.mode # "Off" =>
    /\ native = [up |-> TRUE, suspended |-> FALSE]
    /\ binding = [preferred |-> ResolvePreferredInterface(wifi),
                  channel |-> wifi.channel, available |-> TRUE]
=============================================================================
