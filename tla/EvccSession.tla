----------------------------- MODULE EvccSession -----------------------------
(***************************************************************************)
(* What every protocol of the vehicle's state machine shares: the receive  *)
(* loop (iso15118/shared/comm_session.py), the base class of the vehicle's *)
(* states (evcc/states/evcc_state.py) and the attributes of a              *)
(* communication session (evcc/comm_session_handler.py).                   *)
(*                                                                         *)
(* A vehicle asks and waits: its state is the class that awaits a response *)
(* and a step takes one response and sends the next request.  The response *)
(* is chosen, so the station may be any.  Pausing and resuming are left    *)
(* out: no state of the vehicle ever asks for a pause.                     *)
(***************************************************************************)
EXTENDS Naturals

CONSTANT None    \* Python's None

VARIABLES
    vehicle,   \* EVCCConfig and what the controller knows, which never change
    evPhase,   \* "none": no session; "waiting": in rcv_loop; "stopping": in
               \* stop(); "ended": its StopNotification is in the queue;
               \* "dead": a read error has ended rcv_loop without stop()
    evState,   \* the class of current_state
    request,   \* the request the last step sent, None if it sent none
    built,     \* whether this object of the class has a next_v2gtp_msg
    timer,     \* ongoing_timer: "off" (-1), "on", or "due" when the time is up
    timerOf,   \* history: the state that started it
    tls,       \* is_tls
    pilot,     \* external: enable_charging, which sets the control pilot
    full,      \* external: continue_charging() has returned False for good
    outcome,   \* whether the StopNotification says "success" or "failure"
    ev         \* the attributes of the session that belong to a protocol

clock == <<timer, timerOf>>
evVars == <<vehicle, evPhase, evState, request, built, clock, tls, pilot, full, outcome, ev>>

(***************************************************************************)
(* ac           the controller's energy mode is an AC mode                 *)
(* install      is_cert_install_needed                                     *)
(* useTls, enforceTls, restarts (auto_restart_on_sdp_failure)              *)
(***************************************************************************)
Vehicle == [ac : BOOLEAN, install : BOOLEAN, useTls : BOOLEAN, enforceTls : BOOLEAN,
            restarts : BOOLEAN]

(***************************************************************************)
(* pnc          selected_auth_option is Plug & Charge                      *)
(* details      how many service_details_to_request are left               *)
(* ac           selected_charging_type_is_ac                               *)
(* stop         charging_session_stop_v2 or _v20                           *)
(* renegotiate  renegotiation_requested                                    *)
(* supported    service_renegotiation_supported                            *)
(* processing   ev_processing is Ongoing                                   *)
(* welded       welding_detection_complete (DCWeldingDetection)            *)
(* and the history: since the charging parameters were agreed, whether the *)
(* station has reported the cable safe and the vehicle found its voltage.  *)
(***************************************************************************)
NewVehicleSession ==
    [pnc |-> FALSE, details |-> 0, ac |-> TRUE, stop |-> None, renegotiate |-> FALSE,
     supported |-> FALSE, processing |-> FALSE, welded |-> FALSE,
     checked |-> FALSE, precharged |-> FALSE]

VehicleSession ==
    [pnc : BOOLEAN, details : 0 .. 1, ac : BOOLEAN,
     stop : {None, "terminate", "renegotiate"}, renegotiate : BOOLEAN,
     supported : BOOLEAN, processing : BOOLEAN, welded : BOOLEAN,
     checked : BOOLEAN, precharged : BOOLEAN]

Awaits(type) == evPhase = "waiting" /\ evState = type

\* create_next_message with a state: a new object awaits the answer.
Asks(next, req) ==
    /\ evState' = next
    /\ request' = req
    /\ built' = FALSE
    /\ UNCHANGED <<evPhase, outcome>>

\* Slip: the message of an object that stays is not sent.
RepeatsSilently(req) ==
    /\ request' = None
    /\ built' = TRUE
    /\ UNCHANGED <<evPhase, evState, outcome>>

\* create_next_message with None: the object stays, and keeps its message.
Repeats(req) ==
    /\ request' = req
    /\ built' = TRUE
    /\ UNCHANGED <<evPhase, evState, outcome>>

Leaves(result) ==
    /\ evPhase' = "stopping"
    /\ outcome' = result
    /\ UNCHANGED <<evState, built>>

\* stop_state_machine: no message is created, but rcv_loop sends the one that
\* the object still has.
Quits == Leaves("failure") /\ request' = IF built THEN request ELSE None

\* An exception in process_message.
Aborts == Leaves("failure") /\ request' = None

\* SessionStopRes: the session was successful.
Completes == Leaves("success") /\ request' = None

\* Slip: the timer goes on into the next state.
TimerKept == UNCHANGED clock

TimerOff == timer' = "off" /\ timerOf' = None

TimerOn ==
    IF timer = "off" THEN timer' = "on" /\ timerOf' = evState ELSE UNCHANGED clock

\* Slip: the time is never up.
WaitsForever(req) ==
    /\ UNCHANGED <<clock, evPhase, evState, outcome>>
    /\ request' = req
    /\ built' = TRUE

\* EVSEProcessing is Ongoing: the vehicle asks again, with a new object or the
\* same, until the time is up.
WaitsAnew(req) ==
    \/ timer = "due" /\ Quits /\ UNCHANGED clock
    \/ timer # "due" /\ TimerOn /\ Asks(evState, req)

Waits(req) ==
    \/ timer = "due" /\ Quits /\ UNCHANGED clock
    \/ timer # "due" /\ TimerOn /\ Repeats(req)

\* continue_charging: once it has said no, it says no.
Continues(more) == (full => ~more) /\ full' = ~more

-----------------------------------------------------------------------------
\* Time passes.
Elapse ==
    /\ evPhase = "waiting" /\ timer = "on"
    /\ timer' = "due"
    /\ UNCHANGED <<vehicle, evPhase, evState, request, built, timerOf, tls, pilot, full, outcome, ev>>

\* check_msg: a response of another type or session, or a negative one.  The
\* state DCWeldingDetection does not call it.
Refused ==
    /\ evPhase = "waiting" /\ evState # "DCWeldingDetection"
    /\ Quits
    /\ UNCHANGED <<vehicle, clock, tls, pilot, full, ev>>

\* No response in time, a broken connection, bytes that cannot be decoded.
Broken ==
    /\ evPhase = "waiting"
    /\ Aborts
    /\ UNCHANGED <<vehicle, clock, tls, pilot, full, ev>>

\* The read raises anything but a timeout or a reset (ssl.SSLError, any other
\* OSError): nothing around it catches it.  There is no stop(), so the control
\* pilot stays as it is, and no StopNotification, so the handler starts nothing.
ReadError ==
    /\ evPhase = "waiting"
    /\ evPhase' = "dead"
    /\ UNCHANGED <<vehicle, evState, request, built, clock, tls, pilot, full, outcome, ev>>

\* Slip: the control pilot is left as it is.
PilotLeft(p) == p

\* stop() ends with enable_charging(False).
PilotAtEnd(p) == FALSE

Stopped ==
    /\ evPhase = "stopping"
    /\ evPhase' = "ended"
    /\ pilot' = PilotAtEnd(pilot)
    /\ UNCHANGED <<vehicle, evState, request, built, clock, tls, full, outcome, ev>>

\* The handler has connected and sends a SupportedAppProtocolReq.
Begins(isTls) ==
    /\ evPhase' = "waiting"
    /\ evState' = "SupportedAppProtocol"
    /\ request' = "SupportedAppProtocol"
    /\ built' = FALSE
    /\ timer' = "off" /\ timerOf' = None
    /\ tls' = isTls
    /\ ev' = NewVehicleSession
    /\ UNCHANGED <<vehicle, pilot, full, outcome>>

InitEv ==
    /\ evPhase = "none"
    /\ evState = "SupportedAppProtocol"
    /\ request = None
    /\ built = FALSE
    /\ timer = "off" /\ timerOf = None
    /\ tls = FALSE /\ pilot = FALSE /\ full = FALSE
    /\ outcome = "failure"
    /\ ev = NewVehicleSession

EvTypeOK(states, requests) ==
    /\ vehicle \in Vehicle
    /\ evPhase \in {"none", "waiting", "stopping", "ended", "dead"}
    /\ evState \in states
    /\ request \in requests \cup {None}
    /\ timer \in {"off", "on", "due"}
    /\ timerOf \in states \cup {None}
    /\ {built, tls, pilot, full} \subseteq BOOLEAN
    /\ outcome \in {"success", "failure"}
    /\ ev \in VehicleSession
=============================================================================
