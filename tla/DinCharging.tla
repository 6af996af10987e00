----------------------------- MODULE DinCharging -----------------------------
(***************************************************************************)
(* Station and vehicle together, over DIN SPEC 70121.  The station of      *)
(* SeccDin meets the vehicle of EvccDin, or any other: driven says which.  *)
(* With this repository's vehicle, requests and responses are messages on  *)
(* a TCP connection that either side may find broken at any time; a failed *)
(* session is followed by another one, unless a read error has left a side *)
(* dead.  What the station answers is what the vehicle reads.              *)
(***************************************************************************)
EXTENDS SeccDin

VARIABLES
    vehicle, evPhase, evState, request, built, timer, timerOf, tls, pilot, full,
    outcome, ev,  \* see EvccSession
    driven,       \* the vehicle is that of EvccDin
    question,     \* the request on its way to the station, or None
    answer,       \* the response on its way to the vehicle, or None
    ended         \* history: the station has answered a request to stop the power

Ev == INSTANCE EvccDin

\* A response as far as it is told apart: its code, whether the station is done
\* with what was asked, and whether the isolation level in it is valid.
Responses == [code : {"ok", "failed", "none"}, finished : BOOLEAN, safe : BOOLEAN]

ASSUME NoneIsNoMessage == None \notin Ev!DinRequests \cup Responses

stationVars == vars
vehicleVars == <<vehicle, evPhase, evState, request, built, timer, timerOf, tls, pilot,
                 full, outcome, ev>>
wire == <<question, answer, ended>>
allVars == <<stationVars, vehicleVars, driven, wire>>

\* external: the connection keeps the order of messages and loses none while
\* it lasts.  A request is processed by the class that it belongs to.
TypeOf(q) == IF q \in {"PowerDeliveryStart", "PowerDeliveryStop"} THEN "PowerDelivery" ELSE q

(***************************************************************************)
(* The station's action for a request whose contents are those that the    *)
(* vehicle's code puts in: external payment and the charge service, a mode *)
(* that was offered, the session's id, the parameter of a PowerDeliveryReq.*)
(***************************************************************************)
Handles(q, isolation) ==
    \/ q = "SupportedAppProtocol" /\ SupportedAppProtocol
    \/ q = "SessionSetup" /\ SessionSetup
    \/ q = "ServiceDiscovery" /\ ServiceDiscovery
    \/ q = "ServicePaymentSelection" /\ ServicePaymentSelection(TRUE, TRUE)
    \/ /\ q = "ContractAuthentication"
       /\ \E status \in {"accepted", "ongoing", "rejected"} : ContractAuthentication(status)
    \/ /\ q = "ChargeParameterDiscovery"
       /\ \E mode \in modes, scheduled \in BOOLEAN : ChargeParameterDiscovery(mode, scheduled)
    \/ /\ q = "CableCheck"
       /\ \E evError \in BOOLEAN, closed \in {"yes", "no", "ongoing"} :
             CableCheck(evError, closed, isolation)
    \/ q = "PreCharge" /\ \E fine \in BOOLEAN : PreCharge(fine)
    \/ q = "PowerDeliveryStart" /\ PowerDeliveryStart
    \/ q = "PowerDeliveryStop" /\ \E opened \in BOOLEAN : PowerDeliveryStop(opened)
    \/ q = "CurrentDemand" /\ \E fine \in BOOLEAN : CurrentDemand(fine)
    \/ q = "WeldingDetection" /\ WeldingDetection
    \/ q = "SessionStop" /\ SessionStop
    \/ TypeOf(q) \in Requests /\ ~Accepts(TypeOf(q)) /\ Refuse(TypeOf(q))

StationTakes(isolation) ==
    /\ phase = "reading" /\ question # None
    /\ Handles(question, isolation)
    /\ question' = None
    /\ answer' = [code |-> reply', finished |-> state' # state, safe |-> isolation = "valid"]
    /\ ended' = (ended \/ (question = "PowerDeliveryStop" /\ reply' = "ok"))
    /\ UNCHANGED vehicleVars

\* The vehicle's action for the response.
Reads ==
    \/ /\ Ev!Awaits("SupportedAppProtocol")
       /\ Ev!Asks("SessionSetup", "SessionSetup")
       /\ UNCHANGED <<vehicle, timer, timerOf, tls, pilot, full, ev>>
    \/ Ev!SessionSetup
    \/ Ev!ServicePaymentSelection
    \/ Ev!ContractAuthentication(answer.finished)
    \/ Ev!ChargeParameterDiscovery(answer.finished)
    \/ Ev!CableCheck(answer.finished, answer.safe)
    \/ \E yes \in BOOLEAN : \/ Ev!ServiceDiscovery(yes)
                            \/ Ev!PreCharge(yes)
                            \/ Ev!PowerDelivery(yes)
                            \/ Ev!WeldingDetection(yes)
                            \/ \E more \in BOOLEAN : Ev!CurrentDemand(yes, more)
    \/ Ev!SessionStop

VehicleTakes ==
    /\ answer # None
    /\ \/ answer.code = "ok" /\ Reads
       \/ answer.code = "failed" /\ Ev!Refused
       \/ answer.code = "none" /\ Ev!Broken
    /\ answer' = None
    /\ question' = request'
    /\ UNCHANGED <<stationVars, ended>>

\* After a success the vehicle's handler is done: another vehicle comes.
NextVehicle ==
    /\ evPhase = "ended" /\ outcome = "success"
    /\ evPhase' = "none"
    /\ full' = FALSE
    /\ UNCHANGED <<stationVars, vehicle, evState, request, built, timer, timerOf, tls, pilot,
                   outcome, ev, wire>>

Connects ==
    /\ evPhase = "none" \/ (evPhase = "ended" /\ outcome = "failure")
    /\ Connect
    /\ Ev!Begins(FALSE)
    /\ question' = "SupportedAppProtocol"
    /\ answer' = None
    /\ ended' = FALSE

\* The connection is found broken, or the other side has closed it.
VehicleBreaks == Ev!Broken /\ answer' = None /\ UNCHANGED <<stationVars, question, ended>>
StationBreaks == ConnectionLost /\ question' = None /\ UNCHANGED <<vehicleVars, answer, ended>>

\* A read error leaves a side without a task that would take what comes or close
\* the connection; the other one runs into its timeout.
VehicleDies == Ev!ReadError /\ answer' = None /\ UNCHANGED <<stationVars, question, ended>>
StationDies == ConnectionError /\ question' = None /\ UNCHANGED <<vehicleVars, answer, ended>>

\* A side that died takes no part in anything any more.
Over ==
    /\ phase = "dead" \/ evPhase = "dead"
    /\ UNCHANGED <<stationVars, vehicleVars, wire>>

Elapses == Ev!Elapse /\ UNCHANGED <<stationVars, wire>>

Answer == \E isolation \in {"valid", "warning", "fault", "ongoing"} : StationTakes(isolation)

DrivenStep ==
    \/ NextVehicle
    \/ Connects
    \/ Answer
    \/ VehicleTakes
    \/ VehicleBreaks
    \/ StationBreaks
    \/ VehicleDies
    \/ StationDies
    \/ Over
    \/ Disconnect /\ question' = None /\ UNCHANGED <<vehicleVars, answer, ended>>
    \/ Ev!Stopped /\ UNCHANGED <<stationVars, wire>>
    \/ Elapses

ChargingInit ==
    /\ Init
    /\ Ev!InitEv
    /\ vehicle = [ac |-> FALSE, install |-> FALSE, useTls |-> FALSE, enforceTls |-> FALSE,
                  restarts |-> FALSE]
    /\ driven \in BOOLEAN
    /\ question = None /\ answer = None /\ ended = FALSE

ChargingNext ==
    /\ UNCHANGED <<driven, modes>>
    /\ \/ driven /\ DrivenStep
       \/ ~driven /\ Next /\ UNCHANGED <<vehicleVars, wire>>

(***************************************************************************)
(* Both event loops take what has arrived, a vehicle notices that the      *)
(* station has closed the connection or runs into the timeout of its read  *)
(* when the station answers no more, and time passes.  Nothing is assumed  *)
(* about the contents of answers, about breaks or about read errors.       *)
(***************************************************************************)
Kept == driven /\ UNCHANGED <<driven, modes>>

ChargingSpec ==
    /\ ChargingInit /\ [][ChargingNext]_allVars
    /\ WF_allVars(Kept /\ Answer)
    /\ WF_allVars(Kept /\ VehicleTakes)
    /\ WF_allVars(Kept /\ phase # "reading" /\ VehicleBreaks)
    /\ WF_allVars(Kept /\ Elapses)

-----------------------------------------------------------------------------
\* The vehicle keeps to the order the station insists on: no request of it
\* is refused, whatever the station answered, the hardware did and earlier
\* sessions left behind.  One order is not the station's: a vehicle that wants no
\* more energy when its first PowerDeliveryRes arrives goes on to the welding
\* detection, while the station expects a CurrentDemandReq.
InStep ==
    (driven /\ phase = "reading" /\ question # None /\ evPhase = "waiting")
        => \/ Accepts(TypeOf(question))
           \/ question = "WeldingDetection" /\ full /\ ~ended

\* Never do both sides wait for each other.
NoMutualWait ==
    (driven /\ phase = "reading" /\ evPhase = "waiting")
        => question # None \/ answer # None

\* While the vehicle listens, the station feeds it only with the control pilot
\* set, and the vehicle tests its contactors only on an output that is off.
FedWhileAsked ==
    (driven /\ phase = "reading" /\ evPhase = "waiting")
        => /\ evse.power = "charging" => pilot
           /\ evState \in {"WeldingDetection", "SessionStop"} /\ ended => evse.power = "off"

\* Only the charging loop may last: a station that is never ready, a test that
\* never ends and a rejection, which the station answers like a decision that is
\* still open, are ended by the timers of the vehicle.
NoEndlessSession ==
    (driven /\ evPhase = "waiting")
        ~> (evPhase # "waiting" \/ evState = "CurrentDemand")
=============================================================================
