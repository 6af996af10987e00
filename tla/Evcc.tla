--------------------------------- MODULE Evcc ---------------------------------
(***************************************************************************)
(* The vehicle: its session handler and, in a session, the state machine   *)
(* of the protocol that was negotiated, against any station.               *)
(***************************************************************************)
EXTENDS EvccHandler

CONSTANT Vehicles   \* the configurations a vehicle may be started with

ASSUME VehicleConstants == Vehicles \subseteq Vehicle

vars == <<evVars, hVars>>

Din == INSTANCE EvccDin
V2 == INSTANCE EvccV2
V20 == INSTANCE EvccV20

Init ==
    /\ vehicle \in Vehicles
    /\ supported = Protocols
    /\ InitEv
    /\ InitHandler

Discover ==
    \/ Start
    \/ SdpTimeout
    \/ BadResponse
    \/ Undecodable
    \/ Wireless
    \/ \E isTls \in BOOLEAN, connects \in {"yes", "no", "breaks"} : Response(isTls, connects)
    \/ SessionEnded

\* A response, none in time, or the end of stop().
Proceed ==
    \/ \E p \in Protocols : SupportedAppProtocol(p)
    \/ /\ \/ protocol = "din" /\ Din!Next
          \/ protocol = "v2" /\ V2!Next
          \/ protocol = "v20" /\ V20!Next
          \/ Refused
          \/ Broken
          \/ Stopped
       /\ UNCHANGED hVars

Next ==
    \/ Discover
    \/ Proceed
    \/ Elapse /\ UNCHANGED hVars
    \/ ReadError /\ UNCHANGED hVars
    \/ UdpError
    \/ \E kind \in Datagrams : Datagram(kind)

(***************************************************************************)
(* The event loop runs what is ready: the handler takes its notification,  *)
(* rcv_loop ends each wait with a response or a timeout, and time passes.  *)
(* A station that gives the same answer again and again keeps rcv_loop     *)
(* going where the answer changes nothing: such a state may last.          *)
(***************************************************************************)
LoopGoesOn ==
    \/ []<><<Proceed>>_vars
    \/ []<>(~ENABLED <<Proceed>>_vars)
    \/ []<>(ENABLED (UNCHANGED vars /\ Proceed))

Spec ==
    /\ Init /\ [][Next]_vars
    /\ WF_vars(Discover)
    /\ LoopGoesOn
    /\ WF_vars(Elapse /\ UNCHANGED hVars)

-----------------------------------------------------------------------------
States == Din!DinStates \cup V2!V2States \cup V20!V20States
Requests == Din!DinRequests \cup V2!V2Requests \cup V20!V20Requests

TypeOK ==
    /\ EvTypeOK(States, Requests)
    /\ HandlerTypeOK

\* The docstring of restart_sdp: up to 50 SDP requests in total before the
\* discovery is deemed unsuccessful, also when late datagrams, failed sessions
\* and automatic restarts have set the counters back; and every variable keeps
\* its type, each counter its bound.
RequestsBounded == TypeOK /\ asked <= MaxRequests

\* Whatever answers a discovery, a vehicle with ENFORCE_TLS communicates only
\* over TLS, and one with neither setting only without it.  A session over TLS
\* never speaks DIN SPEC 70121.  (A vehicle with ENFORCE_TLS and without USE_TLS
\* should use TLS, as the comment of the setting has it: it finds every response
\* a mismatch and has no session.)
SecuredAsSet ==
    evPhase # "none" =>
        /\ vehicle.enforceTls => tls
        /\ tls => (vehicle.useTls \/ vehicle.enforceTls) /\ protocol # "din"

\* The control pilot asks for energy only while a session is under way, in no
\* state before the parameters are agreed, and not while the contactors are
\* tested for welding; however stop() is reached, it is reset.  Only after a read
\* error, which ends a session without stop(), does it stay as it was.
PilotFollowsSession ==
    pilot => /\ evPhase \in {"waiting", "stopping", "dead"}
             /\ evState \notin {"SupportedAppProtocol", "SessionSetup", "ServiceDiscovery",
                                "Authorization", "ContractAuthentication",
                                "WeldingDetection", "DCWeldingDetection"}

\* In DC the vehicle demands current only after the station has reported the
\* cable safe and the voltages match, both since the parameters were agreed;
\* an AC session is never in a DC loop.
CheckedBeforeDemand ==
    evPhase = "waiting" /\ evState \in {"CurrentDemand", "DCChargeLoop"}
        => ev.checked /\ ev.precharged

\* The time that a state waits for a station which is not ready is its own: no
\* state of ISO 15118-2 and -20 inherits a timer that an earlier one started.
\* Two states are left out: in DIN SPEC 70121 ChargeParameterDiscovery goes on
\* with the timer of ContractAuthentication, and SessionStop may follow a welding
\* detection whose timer is on, but never looks at it.
OwnTimer ==
    evPhase = "waiting" /\ timer # "off"
        /\ (protocol = "din" => evState # "ChargeParameterDiscovery")
        /\ evState # "SessionStop"
        => timerOf = evState

\* The states in which a session may stay: the charging loops, and those of
\* ISO 15118-20 that wait for the station or the vehicle without a timer.
Lasting ==
    evPhase = "waiting" /\ evState \in
        {"CurrentDemand", "ChargingStatus", "ACChargeLoop", "DCChargeLoop",
         "ScheduleExchange", "DCPreCharge", "PowerDelivery"}

\* The handler has succeeded or starts nothing more: it waits for a notification
\* that will not come, polls a UDP client that has failed, has crashed, or keeps
\* a session that a read error has ended without a notification.
AtRest ==
    \/ hPhase \in {"idle", "polling", "over", "crashed"}
    \/ hPhase = "session" /\ evPhase = "dead"

\* Everything else comes to an end: unless a session goes on charging, every
\* wait for a response runs into its timeout, every failure uses up a cycle or an
\* attempt, and the handler comes to rest.  It never searches for ever, although
\* datagrams, failed sessions and restarts set its counters back.
Settles == []<>Lasting \/ <>[]AtRest
=============================================================================
