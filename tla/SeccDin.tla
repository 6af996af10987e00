------------------------------- MODULE SeccDin -------------------------------
(***************************************************************************)
(* The DIN SPEC 70121 state machine of the charging station                *)
(* (iso15118/secc/states/din_spec_states.py), reached through the protocol *)
(* negotiation.  DC only, with external payment only; a session is never   *)
(* resumed.  One action per state class; the vehicle sends any request in  *)
(* any state, and what the hardware and the backend answer is chosen.      *)
(***************************************************************************)
EXTENDS SeccSession

CONSTANT EnergyModes   \* the DC energy transfer modes of DIN SPEC 70121

ASSUME DinConstants == EnergyModes # {}

VARIABLES
    modes,  \* get_supported_energy_transfer_modes, which never changes
    sess    \* the session's attributes and its history

vars == <<loopVars, evse, modes, sess>>

(***************************************************************************)
(* paid     selected_auth_option is set                                    *)
(* started  charge_progress_started                                        *)
(* and the history: whether the backend accepted the session, whether the  *)
(* insulation test passed, whether the cable was pre-charged after it.     *)
(***************************************************************************)
NewSession ==
    [paid |-> FALSE, started |-> FALSE,
     accepted |-> FALSE, isolated |-> FALSE, precharged |-> FALSE]

Session ==
    [paid : BOOLEAN, started : BOOLEAN,
     accepted : BOOLEAN, isolated : BOOLEAN, precharged : BOOLEAN]

\* What each state passes to check_msg_dinspec.
Expected ==
    [SupportedAppProtocol     |-> <<"SupportedAppProtocol">>,
     SessionSetup             |-> <<"SessionSetup">>,
     ServiceDiscovery         |-> <<"ServiceDiscovery">>,
     ServicePaymentSelection  |-> <<"ServicePaymentSelection">>,
     ContractAuthentication   |-> <<"ContractAuthentication">>,
     ChargeParameterDiscovery |-> <<"ChargeParameterDiscovery">>,
     CableCheck               |-> <<"CableCheck">>,
     PreCharge                |-> <<"PreCharge", "PowerDelivery">>,
     PowerDelivery            |-> <<"PowerDelivery", "SessionStop", "WeldingDetection">>,
     CurrentDemand            |-> <<"CurrentDemand", "PowerDelivery">>,
     WeldingDetection         |-> <<"WeldingDetection", "SessionStop">>,
     SessionStop              |-> <<"SessionStop">>]

States == DOMAIN Expected
Requests == States \ {"SupportedAppProtocol"}

Accepts(type) == AcceptedBy(Expected[state], type)

\* The request is taken by the class that handles it.
Receive(type) ==
    /\ phase = "reading"
    /\ Accepts(type)
    /\ last' = type

\* check_msg refuses a request that is not expected or, but for a
\* SessionSetupReq, carries another session id.
Refuse(type) ==
    /\ phase = "reading"
    /\ state # "SupportedAppProtocol"
    /\ ~Accepts(type) \/ type # "SessionSetup"
    /\ last' = type
    /\ Fails(evse)
    /\ UNCHANGED sess

-----------------------------------------------------------------------------
(***************************************************************************)
(* From the connection to the authorization.                               *)
(***************************************************************************)
Connect ==
    /\ StartLoop
    /\ sess' = NewSession
    /\ UNCHANGED evse

Disconnect == EndLoop /\ UNCHANGED <<evse, sess>>
ConnectionLost == Lost /\ UNCHANGED sess
ConnectionError == ReadError /\ UNCHANGED sess
BadMessage == Undecodable /\ UNCHANGED sess

\* The protocols have one in common, or none.
SupportedAppProtocol ==
    /\ Receive("SupportedAppProtocol")
    /\ \/ Goes("SessionSetup") /\ UNCHANGED evse
       \/ Fails(evse)
    /\ UNCHANGED sess

SessionSetup ==
    /\ Receive("SessionSetup")
    /\ Goes("ServiceDiscovery")
    /\ UNCHANGED <<evse, sess>>

\* The first supported mode is offered; without one, energy_modes[0] raises.
ServiceDiscovery ==
    /\ Receive("ServiceDiscovery")
    /\ \/ /\ modes = {}
          /\ Raises(evse)
       \/ /\ modes # {}
          /\ Goes("ServicePaymentSelection")
          /\ UNCHANGED evse
    /\ UNCHANGED sess

\* The payment option is checked, then stored; then the list of services.
ServicePaymentSelection(external, services) ==
    /\ Receive("ServicePaymentSelection")
    /\ sess' = [sess EXCEPT !.paid = @ \/ external]
    /\ \/ /\ ~(external /\ services)
          /\ Fails(evse)
       \/ /\ external /\ services
          /\ Goes("ContractAuthentication")
          /\ UNCHANGED evse

\* Slip: a decision that is still open is taken for a good one.
AuthorizedUnlessRejected(status) == status # "rejected"

Authorized(status) == status = "accepted"

\* A rejection is answered like a decision that is still open.
ContractAuthentication(status) ==
    /\ Receive("ContractAuthentication")
    /\ \/ /\ Authorized(status)
          /\ Goes("ChargeParameterDiscovery")
       \/ /\ ~Authorized(status)
          /\ Stays("ContractAuthentication", Handler("ContractAuthentication"), "ok")
    /\ sess' = [sess EXCEPT !.accepted = @ \/ status = "accepted"]
    /\ UNCHANGED evse

-----------------------------------------------------------------------------
(***************************************************************************)
(* From the parameters to the end of charging.                             *)
(***************************************************************************)

\* Slip: the cable check is left out.
AfterParametersNoCheck == "PreCharge"

AfterParameters == "CableCheck"

\* There is a list of schedules, or it is still being calculated.
ChargeParameterDiscovery(mode, scheduled) ==
    /\ Receive("ChargeParameterDiscovery")
    /\ \/ /\ mode \notin modes
          /\ Fails(evse)
       \/ /\ mode \in modes /\ scheduled
          /\ Goes(AfterParameters)
          /\ UNCHANGED evse
       \/ /\ mode \in modes /\ ~scheduled
          /\ Stays("ChargeParameterDiscovery", Handler("ChargeParameterDiscovery"), "ok")
          /\ UNCHANGED evse
    /\ UNCHANGED sess

\* The test is started by the first request, waits for the contactors and then
\* for the isolation level, where a warning is as good as a valid one.
CableCheck(evError, closed, isolation) ==
    LET o == [Handler("CableCheck") EXCEPT !.checked = TRUE]
        testing == IF Handler("CableCheck").checked
                     THEN evse ELSE [evse EXCEPT !.power = "insulation"]
    IN  /\ Receive("CableCheck")
        /\ \/ /\ evError
              /\ Fails(evse)
              /\ UNCHANGED sess
           \/ /\ ~evError /\ o.contactors /\ isolation \in {"valid", "warning"}
              /\ Goes("PreCharge")
              /\ sess' = [sess EXCEPT !.isolated = TRUE, !.precharged = FALSE]
              /\ evse' = testing
           \/ /\ ~evError
              /\ IF o.contactors THEN isolation = "fault" ELSE closed = "no"
              /\ Fails(testing)
              /\ UNCHANGED sess
           \/ /\ ~evError
              /\ IF o.contactors THEN isolation = "ongoing" ELSE closed # "no"
              /\ Stays("CableCheck",
                       [o EXCEPT !.contactors = @ \/ closed = "yes"], "ok")
              /\ UNCHANGED sess
              /\ evse' = testing

\* An error of the vehicle, too much current, a current that cannot be read or
\* no answer of the station ends the session.
PreCharge(fine) ==
    /\ Receive("PreCharge")
    /\ \/ /\ ~fine
          /\ Fails(evse)
          /\ UNCHANGED sess
       \/ /\ fine
          /\ Stays("PreCharge", [Handler("PreCharge") EXCEPT !.expecting = FALSE], "ok")
          /\ evse' = [evse EXCEPT !.power = "precharge"]
          /\ sess' = [sess EXCEPT !.precharged = TRUE]

\* The optional dc_ev_power_delivery_parameter is read before it is looked for.
PowerDeliveryIncomplete ==
    /\ Receive("PowerDelivery")
    /\ Raises(evse)
    /\ UNCHANGED sess

\* Slip: the station is not told.
AnnounceNothing(e) == e

\* set_hlc_charging(True)
Announce(e) == [e EXCEPT !.hlc = TRUE]

\* ready_to_charge
PowerDeliveryStart ==
    /\ Receive("PowerDelivery")
    /\ Goes("CurrentDemand")
    /\ evse' = Announce(evse)
    /\ sess' = [sess EXCEPT !.started = TRUE]

\* not ready_to_charge
PowerDeliveryStop(opened) ==
    LET ended == StopCharger([evse EXCEPT !.hlc = FALSE])
    IN  /\ Receive("PowerDelivery")
        /\ \/ /\ ~opened
              /\ Fails(ended)
           \/ /\ opened
              /\ Stays("PowerDelivery",
                       [Handler("PowerDelivery") EXCEPT !.expecting = FALSE], "ok")
              /\ evse' = ended
        /\ UNCHANGED sess

CurrentDemand(fine) ==
    /\ Receive("CurrentDemand")
    /\ \/ /\ ~fine
          /\ Fails(evse)
       \/ /\ fine
          /\ Stays("CurrentDemand", [Handler("CurrentDemand") EXCEPT !.expecting = FALSE], "ok")
          /\ evse' = [evse EXCEPT !.power = "charging"]
    /\ UNCHANGED sess

WeldingDetection ==
    /\ Receive("WeldingDetection")
    /\ Stays("WeldingDetection", [Handler("WeldingDetection") EXCEPT !.expecting = FALSE], "ok")
    /\ UNCHANGED <<evse, sess>>

SessionStop ==
    /\ Receive("SessionStop")
    /\ Stops("terminate", "ok", evse)
    /\ UNCHANGED sess

-----------------------------------------------------------------------------
Init ==
    /\ InitLoop
    /\ modes \in SUBSET EnergyModes
    /\ sess = NewSession

\* Nothing follows a read error.
Dead == phase = "dead" /\ UNCHANGED vars

Next ==
    /\ UNCHANGED modes
    /\ \/ Connect
       \/ Disconnect
       \/ ConnectionLost
       \/ ConnectionError
       \/ Dead
       \/ BadMessage
       \/ \E type \in Requests : Refuse(type)
       \/ SupportedAppProtocol
       \/ SessionSetup
       \/ ServiceDiscovery
       \/ \E external, services \in BOOLEAN : ServicePaymentSelection(external, services)
       \/ \E status \in {"accepted", "ongoing", "rejected"} : ContractAuthentication(status)
       \/ \E mode \in EnergyModes, scheduled \in BOOLEAN :
              ChargeParameterDiscovery(mode, scheduled)
       \/ \E evError \in BOOLEAN, closed \in {"yes", "no", "ongoing"},
             isolation \in {"valid", "warning", "fault", "ongoing"} :
              CableCheck(evError, closed, isolation)
       \/ \E fine \in BOOLEAN : PreCharge(fine) \/ CurrentDemand(fine)
       \/ PowerDeliveryIncomplete
       \/ PowerDeliveryStart
       \/ \E opened \in BOOLEAN : PowerDeliveryStop(opened)
       \/ WeldingDetection
       \/ SessionStop

Spec == Init /\ [][Next]_vars

-----------------------------------------------------------------------------
TypeOK ==
    /\ LoopTypeOK(States, States)
    /\ modes \subseteq EnergyModes
    /\ sess \in Session

\* In whatever order requests come, and when the vehicle stops and starts again
\* without leaving the sequence: the charging loop is entered only in a session
\* that the backend accepted, over a cable whose insulation test has passed and
\* that was brought to the vehicle's voltage after it, and it goes on only while
\* high-level charging is announced.  A stop does not annul the test: the station
\* lets a vehicle that stops and starts again go on with the test it has passed.
LoopPrepared ==
    (phase = "reading" /\ state = "CurrentDemand")
        => /\ sess.accepted
           /\ sess.isolated /\ sess.precharged
           /\ evse.hlc

\* The session as a client of the station's hardware sees it.
Promise == INSTANCE ChargingSession WITH
    stage <- IF phase = "dead" THEN "abandoned"
             ELSE IF phase # "reading" THEN "closed"
             ELSE IF sess.accepted THEN "authorized" ELSE "open",
    safe <- sess.isolated,
    use <- evse.power

\* The state machine implements ChargingSession: in every order of requests the
\* output goes on only in an authorized session, carries the vehicle's voltage
\* only after the insulation test, and is off with the end of the session, unless
\* a read error ended it.
KeepsPromise == Promise!Spec
=============================================================================
