------------------------------- MODULE SeccV20 -------------------------------
(***************************************************************************)
(* The ISO 15118-20 state machine of the charging station                  *)
(* (iso15118/secc/states/iso15118_20_states.py), reached through the       *)
(* protocol negotiation.  One action per state class, PowerDelivery one    *)
(* per kind of progress.  The vehicle sends any request in any state; what *)
(* the backend and the hardware answer is chosen.                          *)
(***************************************************************************)
EXTENDS SeccSession

CONSTANTS
    Configs,      \* the configurations a station may be started with
    ScheduleIds   \* ids of ScheduleTuples

\* Energy services: ac stands for AC and AC_BPT, which differ in data only;
\* wpt for those that no state handles.
Services == {"ac", "dc", "dc_bpt", "wpt"}
Modes == {"scheduled", "dynamic"}

\* standby_allowed and get_energy_service_list
Config == [standby : BOOLEAN, services : SUBSET Services]

ASSUME V20Constants ==
    /\ Configs \subseteq Config
    /\ None \notin Services \cup Modes
    /\ None \notin ScheduleIds

VARIABLES
    config, \* the configuration, which never changes
    sess    \* the attributes of the SECCCommunicationSession, and its history

vars == <<loopVars, evse, config, sess>>

(***************************************************************************)
(* The attributes of a session:                                            *)
(*   matched    the services of matched_services_v20                       *)
(*   detailed   those of them whose parameter_sets are filled in           *)
(*   service    selected_energy_service                                    *)
(*   mode       control_mode                                               *)
(*   schedules  the ids of offered_schedules_V20                           *)
(* and its history: whether the backend has decided, whether the service   *)
(* was renegotiated, which schedule was selected, and whether the          *)
(* insulation test has passed since the service was selected.  The         *)
(* authorization options that were offered and selected are left out: no   *)
(* state compares them, and none decides by them.                          *)
(***************************************************************************)
NewSession ==
    [matched |-> {}, detailed |-> {},
     service |-> None, mode |-> None, schedules |-> {},
     decided |-> FALSE, renegotiated |-> FALSE, schedule |-> None,
     isolated |-> FALSE]

Session ==
    [matched : SUBSET Services, detailed : SUBSET Services,
     service : Services \cup {None}, mode : Modes \cup {None},
     schedules : SUBSET ScheduleIds,
     decided : BOOLEAN, renegotiated : BOOLEAN, schedule : ScheduleIds \cup {None},
     isolated : BOOLEAN]

(***************************************************************************)
(* What each state passes to check_msg_v20, and the states that pass       *)
(* expect_first = False.                                                   *)
(***************************************************************************)
Expected ==
    [SupportedAppProtocol       |-> <<"SupportedAppProtocol">>,
     SessionSetup               |-> <<"SessionSetup">>,
     AuthorizationSetup         |-> <<"AuthorizationSetup", "Authorization",
                                      "CertificateInstallation", "SessionStop">>,
     Authorization              |-> <<"Authorization", "CertificateInstallation",
                                      "ServiceDiscovery", "SessionStop">>,
     ServiceDiscovery           |-> <<"ServiceDiscovery", "ServiceDetail", "SessionStop">>,
     ServiceDetail              |-> <<"ServiceDetail", "ServiceSelection", "SessionStop">>,
     ServiceSelection           |-> <<"ServiceSelection", "SessionStop">>,
     ACChargeParameterDiscovery |-> <<"ACChargeParameterDiscovery", "SessionStop">>,
     DCChargeParameterDiscovery |-> <<"DCChargeParameterDiscovery", "SessionStop">>,
     ScheduleExchange           |-> <<"ScheduleExchange", "DCCableCheck",
                                      "PowerDelivery", "SessionStop">>,
     DCCableCheck               |-> <<"DCCableCheck", "SessionStop">>,
     DCPreCharge                |-> <<"DCPreCharge", "PowerDelivery">>,
     PowerDelivery              |-> <<"PowerDelivery", "DCWeldingDetection", "SessionStop">>,
     ACChargeLoop               |-> <<"ACChargeLoop", "PowerDelivery", "SessionStop">>,
     DCChargeLoop               |-> <<"DCChargeLoop", "PowerDelivery">>,
     DCWeldingDetection         |-> <<"DCWeldingDetection", "SessionStop">>,
     SessionStop                |-> <<"SessionStop">>]

States == DOMAIN Expected

Relaxed ==
    {"ServiceSelection", "ACChargeParameterDiscovery", "DCChargeParameterDiscovery",
     "ScheduleExchange", "DCCableCheck", "PowerDelivery", "ACChargeLoop", "SessionStop"}

\* MeteringConfirmationReq has a failed response, but no state expects it.
Requests == (States \ {"SupportedAppProtocol"})
                \cup {"CertificateInstallation", "MeteringConfirmation"}

\* Slip: no state insists on its own request.
AcceptsListed(type) == Lists(Expected[state], type)

Accepts(type) ==
    IF state \in Relaxed THEN Lists(Expected[state], type)
                         ELSE AcceptedBy(Expected[state], type)

\* The request is taken by the class that handles it.
Receive(type) ==
    /\ phase = "reading"
    /\ Accepts(type)
    /\ last' = type

\* check_msg refuses a request that is not expected or, but for a
\* SessionSetupReq, carries another session id.
Refuse(type) ==
    /\ phase = "reading"
    /\ state # "SupportedAppProtocol"
    /\ ~Accepts(type) \/ type # "SessionSetup"
    /\ last' = type
    /\ Fails(evse)
    /\ UNCHANGED sess

-----------------------------------------------------------------------------
(***************************************************************************)
(* From the connection to the authorization.                               *)
(***************************************************************************)
Connect ==
    /\ StartLoop
    /\ sess' = NewSession
    /\ UNCHANGED evse

Disconnect == EndLoop /\ UNCHANGED <<evse, sess>>
ConnectionLost == Lost /\ UNCHANGED sess
ConnectionError == ReadError /\ UNCHANGED sess
BadMessage == Undecodable /\ UNCHANGED sess

\* The protocols have one in common, or none.
SupportedAppProtocol ==
    /\ Receive("SupportedAppProtocol")
    /\ \/ Goes("SessionSetup") /\ UNCHANGED evse
       \/ Fails(evse)
    /\ UNCHANGED sess

SessionSetup ==
    /\ Receive("SessionSetup")
    /\ Goes("AuthorizationSetup")
    /\ UNCHANGED <<evse, sess>>

AuthorizationSetup ==
    /\ Receive("AuthorizationSetup")
    /\ Stays("AuthorizationSetup",
             [Handler("AuthorizationSetup") EXCEPT !.expecting = FALSE], "ok")
    /\ UNCHANGED <<evse, sess>>

\* process_message raises NotImplementedError.
CertificateInstallation ==
    /\ Receive("CertificateInstallation")
    /\ Raises(evse)
    /\ UNCHANGED sess

\* EVSEProcessing is Finished: the backend has accepted or rejected.
Decided(status) == status # "ongoing"

\* The option is taken from the request unchecked; a signature is verified only
\* when the request has the parameters of Plug & Charge, and one that is missing
\* raises.  The response code comes from the backend and is negative or not,
\* whatever its decision.
Authorization(pncParams, signature, status, code) ==
    LET o == Handler("Authorization")
    IN  /\ Receive("Authorization")
        /\ \/ /\ pncParams /\ signature = "missing"
              /\ Raises(evse)
              /\ UNCHANGED sess
           \/ /\ pncParams /\ signature = "invalid"
              /\ Fails(evse)
              /\ UNCHANGED sess
           \/ /\ ~pncParams \/ signature = "valid"
              /\ Stays("Authorization", [o EXCEPT !.expecting = ~Decided(status)], code)
              /\ sess' = [sess EXCEPT !.decided = @ \/ status # "ongoing"]
              /\ UNCHANGED evse

-----------------------------------------------------------------------------
(***************************************************************************)
(* The choice of a service.                                                *)
(***************************************************************************)

\* The services are appended to those of an earlier negotiation.
ServiceDiscovery ==
    /\ Receive("ServiceDiscovery")
    /\ Stays("ServiceDiscovery", [Handler("ServiceDiscovery") EXCEPT !.expecting = FALSE], "ok")
    /\ sess' = [sess EXCEPT !.matched = @ \cup config.services]
    /\ UNCHANGED evse

\* A service that was not offered gets a negative response, after which the
\* session goes on; one whose parameters the station does not know raises.
ServiceDetail(s, known) ==
    LET o == Handler("ServiceDetail")
    IN  /\ Receive("ServiceDetail")
        /\ \/ /\ ~known
              /\ Raises(evse)
              /\ UNCHANGED sess
           \/ /\ known
              /\ Stays("ServiceDetail", [o EXCEPT !.expecting = FALSE],
                       IF s \in sess.matched THEN "ok" ELSE "failed")
              /\ sess' = [sess EXCEPT !.detailed = @ \cup ({s} \cap sess.matched)]
              /\ UNCHANGED evse

\* check_selected_services: the pair of service and parameter set was offered.
Selectable(s) == s \in sess.detailed

\* The parameter set determines the control mode.
ServiceSelection(s, mode) ==
    /\ Receive("ServiceSelection")
    /\ \/ /\ ~Selectable(s)
          /\ Fails(evse)
          /\ UNCHANGED sess
       \/ /\ Selectable(s)
          /\ sess' = [sess EXCEPT !.service = s, !.mode = mode, !.isolated = FALSE]
          /\ \/ s = "ac" /\ Goes("ACChargeParameterDiscovery") /\ UNCHANGED evse
             \/ s \in {"dc", "dc_bpt"} /\ Goes("DCChargeParameterDiscovery") /\ UNCHANGED evse
             \/ s = "wpt" /\ Fails(evse)

\* The parameters of a request that are read are those for the selected service;
\* a request that brings others has None there, and reading it raises.
ParametersFit(given) == given = sess.service

ChargeParameterDiscovery(type, given) ==
    /\ Receive(type)
    /\ \/ ParametersFit(given) /\ Goes("ScheduleExchange") /\ UNCHANGED evse
       \/ ~ParametersFit(given) /\ Raises(evse)
    /\ UNCHANGED sess

ACChargeParameterDiscovery(given) == ChargeParameterDiscovery("ACChargeParameterDiscovery", given)
DCChargeParameterDiscovery(given) == ChargeParameterDiscovery("DCChargeParameterDiscovery", given)

-----------------------------------------------------------------------------
(***************************************************************************)
(* The schedule, the cable and the charging loop.                          *)
(***************************************************************************)

\* The request has the parameters of one control mode; the controller answers
\* in the session's mode or not, and is ready to charge or not.
ScheduleExchange(given, answered, ready, schedules) ==
    LET o == Handler("ScheduleExchange")
    IN  /\ Receive("ScheduleExchange")
        /\ \/ /\ given # sess.mode
              /\ Raises(evse)
              /\ UNCHANGED sess
           \/ /\ given = sess.mode /\ ~answered
              /\ Fails(evse)
              /\ UNCHANGED sess
           \/ /\ given = sess.mode /\ answered /\ ~ready
              /\ Stays("ScheduleExchange", o, "ok")
              /\ UNCHANGED <<evse, sess>>
           \/ /\ given = sess.mode /\ answered /\ ready
              /\ IF sess.service = "ac" THEN Goes("PowerDelivery")
                                        ELSE Stays("ScheduleExchange", o, "ok")
              /\ sess' = [sess EXCEPT
                    !.schedules = IF sess.mode = "scheduled" THEN schedules ELSE @]
              /\ UNCHANGED evse

\* Slip: only a fault keeps the vehicle waiting.
PassedUnlessFault(o, isolation) == o.contactors /\ isolation # "fault"

Isolated(isolation) == isolation \in {"valid", "warning"}

\* The contactors are closed and the isolation level is valid, or only warned of.
Passed(o, isolation) == o.contactors /\ Isolated(isolation)

\* The test is started by the first request, waits for the contactors and then
\* for the isolation level.  The selected service is not asked for.
DCCableCheck(closed, isolation) ==
    LET o == [Handler("DCCableCheck") EXCEPT !.checked = TRUE]
        testing == IF Handler("DCCableCheck").checked
                     THEN evse ELSE [evse EXCEPT !.power = "insulation"]
    IN  /\ Receive("DCCableCheck")
        /\ \/ /\ Passed(o, isolation)
              /\ Goes("DCPreCharge")
              /\ sess' = [sess EXCEPT !.isolated = Isolated(isolation)]
              /\ evse' = testing
           \/ /\ IF o.contactors THEN isolation = "fault" ELSE closed = "no"
              /\ Fails(testing)
              /\ UNCHANGED sess
           \/ /\ IF o.contactors THEN isolation = "ongoing" ELSE closed # "no"
              /\ Stays("DCCableCheck", [o EXCEPT !.contactors = @ \/ closed = "yes"], "ok")
              /\ UNCHANGED sess
              /\ evse' = testing

\* The vehicle says that it has finished, or the voltage is sent on.
DCPreCharge(finished, fine) ==
    /\ Receive("DCPreCharge")
    /\ \/ finished /\ Goes("PowerDelivery") /\ UNCHANGED evse
       \/ /\ ~finished /\ fine
          /\ Stays("DCPreCharge", [Handler("DCPreCharge") EXCEPT !.expecting = FALSE], "ok")
          /\ evse' = [evse EXCEPT !.power = "precharge"]
       \/ ~finished /\ ~fine /\ Fails(evse)
    /\ UNCHANGED sess

\* The vehicle is still processing: the station waits.
PowerDeliveryOngoing ==
    /\ Receive("PowerDelivery")
    /\ Stays("PowerDelivery", Handler("PowerDelivery"), "ok")
    /\ UNCHANGED <<evse, sess>>

PowerDeliveryStop(opened) ==
    LET ended == StopCharger([evse EXCEPT !.hlc = FALSE])
    IN  /\ Receive("PowerDelivery")
        /\ \/ ~opened /\ Fails(ended)
           \/ /\ opened
              /\ Stays("PowerDelivery", Handler("PowerDelivery"), "ok")
              /\ evse' = ended
        /\ UNCHANGED sess

\* In the scheduled mode the profile names a schedule that was offered.
ScheduleKnown(id) == sess.mode = "scheduled" => id \in sess.schedules

LoopOf(s) == IF s = "ac" THEN "ACChargeLoop" ELSE "DCChargeLoop"

\* Start, standby where it is allowed, or a renegotiation of the schedule:
\* everything that is not Stop.  Without a profile the scheduled mode raises.
PowerDeliveryGo(progress, id, closed) ==
    LET announced == [evse EXCEPT !.hlc = TRUE]
    IN  /\ Receive("PowerDelivery")
        /\ \/ /\ progress = "standby" /\ ~config.standby
              /\ Fails(evse)
              /\ UNCHANGED sess
           \/ /\ progress = "standby" => config.standby
              /\ \/ /\ sess.mode = "scheduled" /\ id = None
                    /\ Raises(evse)
                    /\ UNCHANGED sess
                 \/ /\ sess.mode = "scheduled" => id # None
                    /\ ~ScheduleKnown(id)
                    /\ Fails(evse)
                    /\ UNCHANGED sess
                 \/ /\ sess.mode = "scheduled" => id # None
                    /\ ScheduleKnown(id) /\ ~closed
                    /\ Fails([announced EXCEPT !.hlc = FALSE])
                    /\ UNCHANGED sess
                 \/ /\ sess.mode = "scheduled" => id # None
                    /\ ScheduleKnown(id) /\ closed
                    /\ Goes(LoopOf(sess.service))
                    /\ evse' = IF sess.service = "ac"
                                 THEN [announced EXCEPT !.power = "charging"] ELSE announced
                    /\ sess' = [sess EXCEPT
                          !.schedule = IF sess.mode = "scheduled" THEN id ELSE None]

\* The parameters are those for the service and the control mode, or raise.
ACChargeLoop(given) ==
    /\ Receive("ACChargeLoop")
    /\ \/ /\ ParametersFit(given)
          /\ Stays("ACChargeLoop", Handler("ACChargeLoop"), "ok")
          /\ UNCHANGED evse
       \/ ~ParametersFit(given) /\ Raises(evse)
    /\ UNCHANGED sess

\* send_charging_command is called with three arguments: whether the session is
\* bidirectional goes where the controller expects whether this is a pre-charge.
LoopCommand(s) == IF s = "dc_bpt" THEN "precharge" ELSE "charging"

DCChargeLoop(given, fine) ==
    /\ Receive("DCChargeLoop")
    /\ \/ ~ParametersFit(given) /\ Raises(evse)
       \/ ParametersFit(given) /\ ~fine /\ Fails(evse)
       \/ /\ ParametersFit(given) /\ fine
          /\ Stays("DCChargeLoop", [Handler("DCChargeLoop") EXCEPT !.expecting = FALSE], "ok")
          /\ evse' = [evse EXCEPT !.power = LoopCommand(sess.service)]
    /\ UNCHANGED sess

DCWeldingDetection ==
    /\ Receive("DCWeldingDetection")
    /\ Stays("DCWeldingDetection",
             [Handler("DCWeldingDetection") EXCEPT !.expecting = FALSE], "ok")
    /\ UNCHANGED <<evse, sess>>

\* A renegotiation goes on with the choice of a service; a pause, and a
\* renegotiation that is not supported, end the connection all the same.
SessionStop(kind, supported) ==
    /\ Receive("SessionStop")
    /\ \/ /\ kind = "renegotiate" /\ supported
          /\ Goes("ServiceDiscovery")
          /\ sess' = [sess EXCEPT !.renegotiated = TRUE]
          /\ UNCHANGED evse
       \/ /\ kind = "terminate"
          /\ Stops("terminate", "ok", evse)
          /\ UNCHANGED sess
       \/ /\ kind = "pause" \/ (kind = "renegotiate" /\ ~supported)
          /\ Stops("pause", "ok", evse)
          /\ UNCHANGED sess

-----------------------------------------------------------------------------
Init ==
    /\ InitLoop
    /\ config \in Configs
    /\ sess = NewSession

Identify ==
    \/ SupportedAppProtocol
    \/ SessionSetup
    \/ AuthorizationSetup
    \/ CertificateInstallation
    \/ \E pncParams \in BOOLEAN, signature \in {"valid", "invalid", "missing"},
          status \in {"accepted", "ongoing", "rejected"}, code \in {"ok", "failed"} :
           Authorization(pncParams, signature, status, code)

Select ==
    \/ ServiceDiscovery
    \/ \E s \in Services, known \in BOOLEAN : ServiceDetail(s, known)
    \/ \E s \in Services, mode \in Modes : ServiceSelection(s, mode)
    \/ \E given \in Services : \/ ACChargeParameterDiscovery(given)
                               \/ DCChargeParameterDiscovery(given)

Charge ==
    \/ \E given \in Modes, answered, ready \in BOOLEAN, schedules \in SUBSET ScheduleIds :
           ScheduleExchange(given, answered, ready, schedules)
    \/ \E closed \in {"yes", "no", "ongoing"}, isolation \in {"valid", "warning", "fault", "ongoing"} :
           DCCableCheck(closed, isolation)
    \/ \E finished, fine \in BOOLEAN : DCPreCharge(finished, fine)
    \/ PowerDeliveryOngoing
    \/ \E opened \in BOOLEAN : PowerDeliveryStop(opened)
    \/ \E progress \in {"start", "standby", "schedule_renegotiation"},
          id \in ScheduleIds \cup {None}, closed \in BOOLEAN :
           PowerDeliveryGo(progress, id, closed)
    \/ \E given \in Services, fine \in BOOLEAN : ACChargeLoop(given) \/ DCChargeLoop(given, fine)
    \/ DCWeldingDetection
    \/ \E kind \in {"terminate", "pause", "renegotiate"}, supported \in BOOLEAN :
           SessionStop(kind, supported)

\* Nothing follows a read error.
Dead == phase = "dead" /\ UNCHANGED vars

Next ==
    /\ UNCHANGED config
    /\ \/ Connect
       \/ Disconnect
       \/ ConnectionLost
       \/ ConnectionError
       \/ Dead
       \/ BadMessage
       \/ \E type \in Requests : Refuse(type)
       \/ Identify
       \/ Select
       \/ Charge

Spec == Init /\ [][Next]_vars

-----------------------------------------------------------------------------
TypeOK ==
    /\ LoopTypeOK(States, Requests \cup {"SupportedAppProtocol"})
    /\ config \in Configs
    /\ sess \in Session

Loops == {"ACChargeLoop", "DCChargeLoop"}

\* Renegotiations of service and schedule, standby and changes of the control
\* mode included, the charging loop is that of the selected service, which is
\* one whose parameter sets the station has sent; the station has been told that
\* charging goes on; in the scheduled mode the profile keeps to a schedule of
\* the list that was sent last; and the vehicle's voltage is put on the cable by
\* a pre-charge only after the insulation test that followed the selection.
ReachedAsAgreed ==
    phase = "reading" =>
        /\ state \in Loops =>
              /\ (state = "ACChargeLoop") = (sess.service = "ac")
              /\ sess.service \in sess.detailed \cap config.services
              /\ evse.hlc
              /\ sess.mode = "scheduled" => sess.schedule \in sess.schedules
        /\ state = "DCPreCharge" => sess.isolated

\* The session as a client of the station's hardware sees it, as far as this
\* state machine keeps ChargingSession.  A session counts as authorized when the
\* backend has decided, for the code does not tell a rejection from a consent;
\* and when its service was renegotiated, for a SessionStopReq leads there from
\* the states before the authorization too.  Every cable counts as safe, for
\* ScheduleExchange accepts a PowerDeliveryReq at once.
Promise == INSTANCE ChargingSession WITH
    stage <- IF phase = "dead" THEN "abandoned"
             ELSE IF phase # "reading" THEN "closed"
             ELSE IF sess.decided \/ sess.renegotiated THEN "authorized" ELSE "open",
    safe <- TRUE,
    use <- evse.power

\* In every order of requests the output goes on only after a decision of the
\* backend or a renegotiation, and is off with the end of the session, unless a
\* read error ended it.
KeepsPromise == Promise!Spec

=============================================================================
