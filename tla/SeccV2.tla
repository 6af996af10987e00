-------------------------------- MODULE SeccV2 --------------------------------
(***************************************************************************)
(* The ISO 15118-2 state machine of the charging station                   *)
(* (iso15118/secc/states/iso15118_2_states.py), reached through the        *)
(* protocol negotiation (secc/states/sap_states.py), with the context that *)
(* a paused session leaves for the next connection of the same vehicle     *)
(* (secc/comm_session_handler.py).                                         *)
(*                                                                         *)
(* One action per state class.  The vehicle sends any request in any       *)
(* state; what the code asks of certificates, of the backend and of the    *)
(* hardware is an answer chosen by \E.  The charging profile is checked in *)
(* module ChargingProfile; here its verdict is chosen.                     *)
(***************************************************************************)
EXTENDS SeccSession

CONSTANTS
    Configs,      \* the configurations a station may be started with
    ScheduleIds   \* ids of SAScheduleTuples

Auths == {"eim", "pnc"}

\* config.supported_auth_options, config.allow_cert_install_service and the
\* controller's get_supported_energy_transfer_modes
Config == [auth : SUBSET Auths, install : BOOLEAN, modes : SUBSET {"ac", "dc"}]

ASSUME V2Constants ==
    /\ Configs \subseteq Config
    /\ None \notin Auths
    /\ None \notin ScheduleIds

VARIABLES
    config, \* the configuration, which never changes
    sess,   \* the attributes of the SECCCommunicationSession, and its history
    ctx,    \* ev_session_context
    paused  \* history: what the session that was paused had selected

vars == <<loopVars, evse, config, sess, ctx, paused>>

(***************************************************************************)
(* The attributes of a session:                                            *)
(*   tls        is_tls                                                     *)
(*   offered    offered_auth_options                                       *)
(*   cert       offered_services has the certificate service               *)
(*   auth       selected_auth_option                                       *)
(*   chain      contract_cert_chain (and gen_challenge) is set             *)
(*   ac         selected_charging_type_is_ac                               *)
(*   schedules  the ids of offered_schedules                               *)
(*   schedule   selected_schedule                                          *)
(*   started    charge_progress_started                                    *)
(* and its history: whether it resumed a paused one, whether EIM had been  *)
(* authorized when the options were offered, whether the backend accepted  *)
(* it, whether the vehicle signed the challenge, whether the last          *)
(* insulation test passed.                                                 *)
(***************************************************************************)
NewSession(tls) ==
    [tls |-> tls, offered |-> {}, cert |-> FALSE, auth |-> None,
     chain |-> FALSE, ac |-> TRUE, schedules |-> {}, schedule |-> None,
     started |-> FALSE,
     resumed |-> FALSE, eim |-> FALSE, accepted |-> FALSE, proven |-> FALSE,
     isolated |-> FALSE]

Session ==
    [tls : BOOLEAN, offered : SUBSET Auths, cert : BOOLEAN,
     auth : Auths \cup {None}, chain : BOOLEAN, ac : BOOLEAN,
     schedules : SUBSET ScheduleIds, schedule : ScheduleIds \cup {None},
     started : BOOLEAN,
     resumed : BOOLEAN, eim : BOOLEAN, accepted : BOOLEAN, proven : BOOLEAN,
     isolated : BOOLEAN]

\* EVSessionContext15118: session_id and auth_options.  Its charge_service is
\* the same in every session; its sa_schedule_tuple_id is never assigned.
NoContext == [known |-> FALSE, auth |-> {}]

\* Slip: the options of the last session are not forgotten.
KeptContext == [known |-> TRUE, auth |-> ctx.auth]

NewContext == [known |-> TRUE, auth |-> {}]
Context == [known : BOOLEAN, auth : SUBSET Auths]

(***************************************************************************)
(* What each state passes to check_msg_v2.                                 *)
(***************************************************************************)
Expected ==
    [SupportedAppProtocol     |-> <<"SupportedAppProtocol">>,
     SessionSetup             |-> <<"SessionSetup">>,
     ServiceDiscovery         |-> <<"ServiceDiscovery", "ServiceDetail",
                                    "PaymentServiceSelection">>,
     ServiceDetail            |-> <<"ServiceDetail", "PaymentServiceSelection">>,
     PaymentServiceSelection  |-> <<"PaymentServiceSelection",
                                    "CertificateInstallation",
                                    "PaymentDetails", "Authorization">>,
     CertificateInstallation  |-> <<"CertificateInstallation">>,
     PaymentDetails           |-> <<"PaymentDetails">>,
     Authorization            |-> <<"Authorization">>,
     ChargeParameterDiscovery |-> <<"ChargeParameterDiscovery",
                                    "PowerDelivery", "CableCheck">>,
     PowerDelivery            |-> <<"PowerDelivery", "SessionStop",
                                    "WeldingDetection">>,
     MeteringReceipt          |-> <<"MeteringReceipt", "ChargingStatus",
                                    "CurrentDemand", "PowerDelivery">>,
     SessionStop              |-> <<"SessionStop">>,
     ChargingStatus           |-> <<"ChargingStatus", "PowerDelivery",
                                    "MeteringReceipt">>,
     CableCheck               |-> <<"CableCheck">>,
     PreCharge                |-> <<"PreCharge", "PowerDelivery">>,
     CurrentDemand            |-> <<"CurrentDemand", "PowerDelivery">>,
     WeldingDetection         |-> <<"WeldingDetection", "SessionStop">>]

States == DOMAIN Expected

\* The requests of the protocol: CertificateUpdateReq is one, though no state
\* handles it and get_msg_type does not know it.
Requests == (States \ {"SupportedAppProtocol"}) \cup {"CertificateUpdate"}

Accepts(type) == AcceptedBy(Expected[state], type)

\* The request is taken by the class that handles it.
Receive(type) ==
    /\ phase = "reading"
    /\ Accepts(type)
    /\ last' = type

\* check_msg refuses a request: it is not expected, or (but for a
\* SessionSetupReq) it carries another session id.  stop_state_machine looks up
\* the negative response; for a type it does not know it raises instead.
Refuse(type) ==
    /\ phase = "reading"
    /\ state # "SupportedAppProtocol"
    /\ ~Accepts(type) \/ type # "SessionSetup"
    /\ last' = type
    /\ IF type = "CertificateUpdate" THEN Raises(evse) ELSE Fails(evse)
    /\ UNCHANGED <<sess, ctx, paused>>

-----------------------------------------------------------------------------
(***************************************************************************)
(* From the connection to the authorization.                               *)
(***************************************************************************)

\* The vehicle connects; the handler gives the session the context kept for
\* its address.
Connect(tls) ==
    /\ StartLoop
    /\ sess' = NewSession(tls)
    /\ UNCHANGED <<evse, ctx, paused>>

\* The connection is closed and the handler has processed the notification:
\* PAUSE keeps the session's entry, TERMINATE deletes it.
Disconnect ==
    /\ EndLoop
    /\ ctx' = IF stopAction = "pause" THEN ctx ELSE NoContext
    /\ UNCHANGED <<evse, sess, paused>>

ConnectionLost == Lost /\ UNCHANGED <<sess, ctx, paused>>
ConnectionError == ReadError /\ UNCHANGED <<sess, ctx, paused>>
BadMessage == Undecodable /\ UNCHANGED <<sess, ctx, paused>>

\* The protocols have one in common, or none.
SupportedAppProtocol ==
    /\ Receive("SupportedAppProtocol")
    /\ \/ Goes("SessionSetup") /\ UNCHANGED evse
       \/ Fails(evse)
    /\ UNCHANGED <<sess, ctx, paused>>

\* The id in the request is that of the context, or zero, or another.
SessionSetup ==
    /\ Receive("SessionSetup")
    /\ \/ /\ ctx.known
          /\ sess' = [sess EXCEPT !.resumed = TRUE]
          /\ UNCHANGED ctx
       \/ /\ ctx' = NewContext
          /\ UNCHANGED sess
    /\ Goes("ServiceDiscovery")
    /\ UNCHANGED <<evse, paused>>

\* The authorization options of get_services.
AuthOptions(eimAuthorized) ==
    IF ctx.auth # {} THEN ctx.auth
    ELSE IF sess.auth # None THEN {sess.auth}
    ELSE IF eimAuthorized THEN {"eim"}
    ELSE {a \in config.auth : a = "pnc" => sess.tls}

\* An empty list of options is not a valid response: AuthOptionList raises.
ServiceDiscovery(eimAuthorized, wantsCert) ==
    LET o == Handler("ServiceDiscovery")
        options == AuthOptions(eimAuthorized)
    IN  /\ Receive("ServiceDiscovery")
        /\ \/ /\ ~o.expecting
              /\ Fails(evse)
              /\ UNCHANGED sess
           \/ /\ o.expecting /\ options = {}
              /\ Raises(evse)
              /\ sess' = [sess EXCEPT !.offered = options, !.eim = eimAuthorized]
           \/ /\ o.expecting /\ options # {}
              /\ Stays("ServiceDiscovery", [o EXCEPT !.expecting = FALSE], "ok")
              /\ sess' = [sess EXCEPT
                    !.offered = options, !.eim = eimAuthorized,
                    !.cert = sess.tls /\ config.install /\ wantsCert]
              /\ UNCHANGED evse
        /\ UNCHANGED <<ctx, paused>>

\* An id that was not offered gets a negative response and nothing else.
ServiceDetail(offered) ==
    LET o == Handler("ServiceDetail")
    IN  /\ Receive("ServiceDetail")
        /\ offered => sess.cert
        /\ IF offered
             THEN Stays("ServiceDetail", [o EXCEPT !.expecting = FALSE], "ok")
             ELSE Stays("ServiceDetail", o, "failed")
        /\ UNCHANGED <<evse, sess, ctx, paused>>

\* The selection is valid, or one of three negative responses ends the session.
PaymentServiceSelection(services, a) ==
    LET o == Handler("PaymentServiceSelection")
        valid == /\ "certificate" \in services => sess.cert
                 /\ "charging" \in services
                 /\ a \in sess.offered
    IN  /\ Receive("PaymentServiceSelection")
        /\ \/ /\ ~valid
              /\ Fails(evse)
              /\ UNCHANGED <<sess, ctx>>
           \/ /\ valid
              /\ Stays("PaymentServiceSelection", [o EXCEPT !.expecting = FALSE], "ok")
              /\ sess' = [sess EXCEPT !.auth = a]
              /\ ctx' = [ctx EXCEPT !.auth = {a}]
              /\ UNCHANGED evse
        /\ UNCHANGED paused

\* verify_signature raises when the request has no signature; one that is wrong,
\* or a certificate that cannot be provided, is answered.
CertificateInstallation ==
    /\ Receive("CertificateInstallation")
    /\ \/ Raises(evse)
       \/ Fails(evse)
       \/ Goes("PaymentDetails") /\ UNCHANGED evse
    /\ UNCHANGED <<sess, ctx, paused>>

\* The chain is stored before the backend is asked.  A chain without
\* sub-certificates raises before that.
PaymentDetails(verdict) ==
    /\ Receive("PaymentDetails")
    /\ \/ /\ verdict = "no_sub_certificates"
          /\ Raises(evse)
          /\ UNCHANGED sess
       \/ /\ verdict = "invalid"
          /\ Fails(evse)
          /\ UNCHANGED sess
       \/ /\ verdict = "rejected"
          /\ Fails(evse)
          /\ sess' = [sess EXCEPT !.chain = TRUE]
       \/ /\ verdict = "accepted_or_ongoing"
          /\ Goes("Authorization")
          /\ sess' = [sess EXCEPT !.chain = TRUE]
          /\ UNCHANGED evse
    /\ UNCHANGED <<ctx, paused>>

\* Slip: the signature is not verified.
ProvesByChain(o, signed) == sess.auth = "pnc" => sess.chain

\* Plug & Charge needs the contract's chain and, in the first request that the
\* state sees, the signed challenge.
Proves(o, signed) == sess.auth = "pnc" => sess.chain /\ (o.verified \/ signed)

\* Slip: an answer that is still open counts as one.
AuthorizedUnlessRejected(o, status) == o.complete \/ status # "rejected"

\* authorization_complete: the backend is asked until it accepts once.
Authorized(o, status) == o.complete \/ status = "accepted"

\* verify_signature is reached by a request without a signature, and raises.
Unsigned(o, signature) ==
    sess.auth = "pnc" /\ sess.chain /\ ~o.verified /\ signature = "missing"

Authorization(signature, status, ready) ==
    LET o == Handler("Authorization")
        signed == signature = "valid"
        complete == Authorized(o, status)
        seen == [sess EXCEPT
                    !.proven = @ \/ (sess.auth = "pnc" /\ ~o.verified /\ signed),
                    !.accepted = @ \/ (~o.complete /\ status = "accepted")]
    IN  /\ Receive("Authorization")
        /\ \/ /\ ~Proves(o, signed)
              /\ IF Unsigned(o, signature) THEN Raises(evse) ELSE Fails(evse)
              /\ UNCHANGED sess
           \/ /\ Proves(o, signed)
              /\ complete /\ ready
              /\ Goes("ChargeParameterDiscovery")
              /\ sess' = seen
              /\ UNCHANGED evse
           \/ /\ Proves(o, signed)
              /\ ~o.complete /\ status = "rejected"
              /\ Fails(evse)
              /\ sess' = seen
           \/ /\ Proves(o, signed)
              /\ ~(complete /\ ready) /\ (o.complete \/ status # "rejected")
              /\ Stays("Authorization",
                       [o EXCEPT !.verified = @ \/ sess.auth = "pnc",
                                 !.complete = complete], "ok")
              /\ sess' = seen
              /\ UNCHANGED evse
        /\ UNCHANGED <<ctx, paused>>

-----------------------------------------------------------------------------
(***************************************************************************)
(* From the parameters to the end of charging.                             *)
(***************************************************************************)

AfterParameters(ac) == IF ac THEN "PowerDelivery" ELSE "CableCheck"

\* The schedules are a list of ids; get_sa_schedule_list may give None while
\* they are being calculated, and validate_sa_schedule_list then raises.
ChargeParameterDiscovery(mode, schedules) ==
    LET o == Handler("ChargeParameterDiscovery")
        chosen == [sess EXCEPT !.ac = (mode = "ac"), !.isolated = FALSE]
    IN  /\ Receive("ChargeParameterDiscovery")
        /\ \/ /\ mode \notin config.modes
              /\ Fails(evse)
              /\ UNCHANGED sess
           \/ /\ mode \in config.modes /\ schedules = None
              /\ Raises(evse)
              /\ sess' = chosen
           \/ /\ mode \in config.modes /\ schedules = {}
              /\ Stays("ChargeParameterDiscovery", [o EXCEPT !.expecting = TRUE], "ok")
              /\ sess' = chosen
              /\ UNCHANGED evse
           \/ /\ mode \in config.modes /\ schedules \notin {None, {}}
              /\ Goes(AfterParameters(mode = "ac"))
              /\ sess' = [chosen EXCEPT !.schedules = schedules]
              /\ UNCHANGED evse
        /\ UNCHANGED <<ctx, paused>>

\* Slip: any schedule will do.
ScheduleAny(id) == TRUE

ScheduleKnown(id) == id \in sess.schedules

\* The schedule or the profile is refused.
PowerDeliveryInvalid(id, profileValid) ==
    /\ Receive("PowerDelivery")
    /\ ~(ScheduleKnown(id) /\ profileValid)
    /\ Fails(evse)
    /\ UNCHANGED <<sess, ctx, paused>>

\* Slip: the station is not told.
AnnounceNothing(e) == e

\* set_hlc_charging(True)
Announce(e) == [e EXCEPT !.hlc = TRUE]

\* ChargeProgress Start: high-level charging is announced before the contactor
\* is asked for.
PowerDeliveryStart(id, closed) ==
    LET announced == Announce(evse)
    IN  /\ Receive("PowerDelivery")
        /\ ScheduleKnown(id)
        /\ \/ /\ ~closed
              /\ Fails(announced)
              /\ UNCHANGED sess
           \/ /\ closed
              /\ Goes(IF sess.ac THEN "ChargingStatus" ELSE "CurrentDemand")
              /\ evse' = IF sess.ac THEN [announced EXCEPT !.power = "charging"]
                                    ELSE announced
              /\ sess' = [sess EXCEPT !.schedule = id, !.started = TRUE]
        /\ UNCHANGED <<ctx, paused>>

\* ChargeProgress Stop.
PowerDeliveryStop(id, opened) ==
    LET ended == StopCharger([evse EXCEPT !.hlc = FALSE])
        o == Handler("PowerDelivery")
    IN  /\ Receive("PowerDelivery")
        /\ ScheduleKnown(id)
        /\ \/ /\ ~opened
              /\ Fails(ended)
           \/ /\ opened
              /\ IF sess.ac
                   THEN Goes("SessionStop")
                   ELSE Stays("PowerDelivery", [o EXCEPT !.expecting = FALSE], "ok")
              /\ evse' = ended
        /\ UNCHANGED <<sess, ctx, paused>>

\* ChargeProgress Renegotiate.
PowerDeliveryRenegotiate(id) ==
    /\ Receive("PowerDelivery")
    /\ ScheduleKnown(id)
    /\ \/ /\ sess.started
          /\ Goes("ChargeParameterDiscovery")
          /\ UNCHANGED evse
       \/ /\ ~sess.started
          /\ Fails(evse)
    /\ UNCHANGED <<sess, ctx, paused>>

\* A receipt is verified with the contract's chain; without a signature that
\* raises.
MeteringReceipt(signature) ==
    LET o == Handler("MeteringReceipt")
    IN  /\ Receive("MeteringReceipt")
        /\ \/ /\ sess.chain /\ signature = "missing"
              /\ Raises(evse)
           \/ /\ ~sess.chain \/ signature = "invalid"
              /\ Fails(evse)
           \/ /\ sess.chain /\ signature = "valid"
              /\ Stays("MeteringReceipt", [o EXCEPT !.expecting = FALSE], "ok")
              /\ UNCHANGED evse
        /\ UNCHANGED <<sess, ctx, paused>>

\* AC: the charging loop.
ChargingStatus ==
    /\ Receive("ChargingStatus")
    /\ Stays("ChargingStatus", [Handler("ChargingStatus") EXCEPT !.expecting = FALSE], "ok")
    /\ UNCHANGED <<evse, sess, ctx, paused>>

\* DC: the test is started by the first request, waits for the contactors and
\* then for the isolation level.
CableCheck(evError, closed, isolation) ==
    LET o == [Handler("CableCheck") EXCEPT !.checked = TRUE]
        testing == IF Handler("CableCheck").checked
                     THEN evse ELSE [evse EXCEPT !.power = "insulation"]
    IN  /\ Receive("CableCheck")
        /\ \/ /\ evError
              /\ Fails(evse)
              /\ UNCHANGED sess
           \/ /\ ~evError /\ o.contactors /\ isolation = "valid"
              /\ Goes("PreCharge")
              /\ sess' = [sess EXCEPT !.isolated = TRUE]
              /\ evse' = testing
           \/ /\ ~evError
              /\ IF o.contactors THEN isolation = "fault" ELSE closed = "no"
              /\ Fails(testing)
              /\ UNCHANGED sess
           \/ /\ ~evError
              /\ IF o.contactors THEN isolation = "ongoing" ELSE closed # "no"
              /\ Stays("CableCheck",
                       [o EXCEPT !.contactors = @ \/ closed = "yes"], "ok")
              /\ UNCHANGED sess
              /\ evse' = testing
        /\ UNCHANGED <<ctx, paused>>

\* DC: an error of the vehicle, too much current or no answer of the station
\* ends the session; the targets are sent with every request.
PreCharge(fine) ==
    /\ Receive("PreCharge")
    /\ \/ /\ ~fine
          /\ Fails(evse)
       \/ /\ fine
          /\ Stays("PreCharge", [Handler("PreCharge") EXCEPT !.expecting = FALSE], "ok")
          /\ evse' = [evse EXCEPT !.power = "precharge"]
    /\ UNCHANGED <<sess, ctx, paused>>

\* DC: the charging loop.
CurrentDemand(fine) ==
    /\ Receive("CurrentDemand")
    /\ \/ /\ ~fine
          /\ Fails(evse)
       \/ /\ fine
          /\ Stays("CurrentDemand", [Handler("CurrentDemand") EXCEPT !.expecting = FALSE], "ok")
          /\ evse' = [evse EXCEPT !.power = "charging"]
    /\ UNCHANGED <<sess, ctx, paused>>

WeldingDetection ==
    /\ Receive("WeldingDetection")
    /\ Stays("WeldingDetection", [Handler("WeldingDetection") EXCEPT !.expecting = FALSE], "ok")
    /\ UNCHANGED <<evse, sess, ctx, paused>>

\* The vehicle ends or pauses the session; the context is kept only for a pause.
SessionStop(action) ==
    /\ Receive("SessionStop")
    /\ Stops(action, "ok", evse)
    /\ \/ /\ action = "pause"
          /\ paused' = [auth |-> sess.auth, schedule |-> sess.schedule]
          /\ UNCHANGED ctx
       \/ /\ action = "terminate"
          /\ ctx' = NoContext
          /\ UNCHANGED paused
    /\ UNCHANGED sess

-----------------------------------------------------------------------------
Init ==
    /\ InitLoop
    /\ config \in Configs
    /\ sess = NewSession(FALSE)
    /\ ctx = NoContext
    /\ paused = [auth |-> None, schedule |-> None]

\* "invalid": the signature, or what it is to prove, is not what it should be.
Signatures == {"valid", "invalid", "missing"}

Identify ==
    \/ SupportedAppProtocol
    \/ SessionSetup
    \/ \E eimAuthorized, wantsCert \in BOOLEAN : ServiceDiscovery(eimAuthorized, wantsCert)
    \/ \E offered \in BOOLEAN : ServiceDetail(offered)
    \/ \E services \in SUBSET {"charging", "certificate"}, a \in Auths :
           PaymentServiceSelection(services, a)
    \/ CertificateInstallation
    \/ \E verdict \in {"no_sub_certificates", "invalid", "rejected", "accepted_or_ongoing"} :
           PaymentDetails(verdict)
    \/ \E signature \in Signatures, status \in {"accepted", "ongoing", "rejected"},
          ready \in BOOLEAN : Authorization(signature, status, ready)

Charge ==
    \/ \E mode \in {"ac", "dc"} :
           \/ ChargeParameterDiscovery(mode, None)
           \/ \E schedules \in SUBSET ScheduleIds : ChargeParameterDiscovery(mode, schedules)
    \/ \E id \in ScheduleIds, ok \in BOOLEAN :
           \/ PowerDeliveryInvalid(id, ok)
           \/ PowerDeliveryStart(id, ok)
           \/ PowerDeliveryStop(id, ok)
    \/ \E id \in ScheduleIds : PowerDeliveryRenegotiate(id)
    \/ \E evError \in BOOLEAN, closed \in {"yes", "no", "ongoing"},
          isolation \in {"valid", "fault", "ongoing"} : CableCheck(evError, closed, isolation)
    \/ \E ok \in BOOLEAN : PreCharge(ok) \/ CurrentDemand(ok)
    \/ \E signature \in Signatures : MeteringReceipt(signature)
    \/ ChargingStatus
    \/ WeldingDetection
    \/ \E action \in {"terminate", "pause"} : SessionStop(action)

\* Nothing follows a read error.
Dead == phase = "dead" /\ UNCHANGED vars

Next ==
    /\ UNCHANGED config
    /\ \/ \E tls \in BOOLEAN : Connect(tls)
       \/ Disconnect
       \/ ConnectionLost
       \/ ConnectionError
       \/ Dead
       \/ BadMessage
       \/ \E type \in Requests : Refuse(type)
       \/ Identify
       \/ Charge

Spec == Init /\ [][Next]_vars

-----------------------------------------------------------------------------
TypeOK ==
    /\ LoopTypeOK(States, States \cup Requests)
    /\ config \in Configs
    /\ sess \in Session
    /\ ctx \in Context
    /\ paused \in [auth : Auths \cup {None}, schedule : ScheduleIds \cup {None}]

\* No output without authorization: whatever the vehicle sends, and whatever
\* it renegotiates, the station's output is used for a test, for the pre-charge
\* or for charging only in a session that the backend has accepted.
AuthorizedEnergy == evse.power # "off" => sess.accepted

\* Under Plug & Charge, a session that was accepted is one whose vehicle has
\* signed the challenge with the key of the contract it presented.
PncProven == (sess.accepted /\ sess.auth = "pnc") => (sess.chain /\ sess.proven)

\* In a DC session, the states that put a voltage on the cable are reached only
\* when the insulation test has passed since the parameters were last agreed.
InsulationFirst ==
    (phase = "reading" /\ ~sess.ac /\ state \in {"PreCharge", "CurrentDemand"})
        => sess.isolated

\* The states of the charging loop are entered and left with a schedule that
\* the last ChargeParameterDiscoveryRes offered, also after a renegotiation.
ScheduleOffered ==
    (phase = "reading" /\ state \in {"ChargingStatus", "CurrentDemand"})
        => sess.schedule \in sess.schedules

\* The output is off when the session has ended with stop(), in whatever way, and
\* when the vehicle is at the end of the sequence.
EndsCold ==
    (phase \in {"idle", "stopping"} \/ state \in {"SessionStop", "WeldingDetection"})
        => evse.power = "off"

\* A resumed session offers exactly the option that was selected before the
\* pause ([V2G2-741]); any other offers exactly what it would if nobody had ever
\* paused: EIM once it is authorized, otherwise what the configuration and the
\* security of the connection allow.
OfferFitsSession ==
    (/\ sess.auth = None
     /\ \/ state \in {"ServiceDetail", "PaymentServiceSelection"}
        \/ state = "ServiceDiscovery" /\ ~obj.expecting) =>
        sess.offered = IF sess.resumed THEN {paused.auth}
                       ELSE IF sess.eim THEN {"eim"}
                       ELSE {a \in config.auth : a = "pnc" => sess.tls}

\* In the states of the charging loop the station has been told, with
\* set_hlc_charging, that charging under high-level communication goes on.
HlcAnnounced ==
    (phase = "reading" /\ state \in {"ChargingStatus", "CurrentDemand"}) => evse.hlc

\* The docstring of stop_state_machine: the SECC always responds to a request,
\* even if it came in the wrong order.  So it does, except to the requests whose
\* handling raises: a CertificateUpdateReq, for which no failed response is
\* known; a ServiceDiscoveryReq that finds nothing to offer; PaymentDetailsReq
\* without sub-certificates; a ChargeParameterDiscoveryReq while the schedules
\* are still being calculated; and those that reach verify_signature without a
\* signature: CertificateInstallationReq, AuthorizationReq under Plug & Charge
\* and MeteringReceiptReq, the last two with the contract's chain.
AnsweredUnlessRaised ==
    (phase = "stopping" /\ reply = "none") =>
        \/ last \in {None, "CertificateUpdate", "ServiceDiscovery", "PaymentDetails",
                     "ChargeParameterDiscovery", "CertificateInstallation"}
        \/ last = "Authorization" /\ sess.auth = "pnc" /\ sess.chain
        \/ last = "MeteringReceipt" /\ sess.chain

\* The session as a client of the station's hardware sees it.  An AC cable needs
\* no test.
Promise == INSTANCE ChargingSession WITH
    stage <- IF phase = "dead" THEN "abandoned"
             ELSE IF phase # "reading" THEN "closed"
             ELSE IF sess.accepted THEN "authorized" ELSE "open",
    safe <- sess.ac \/ sess.isolated,
    use <- evse.power

\* The state machine implements ChargingSession: with pauses, resumptions and
\* renegotiations between AC and DC, the output goes on only in an authorized
\* session, carries the vehicle's voltage only over a cable known to be safe,
\* and is off with the end of the session, unless a read error ended it.
KeepsPromise == Promise!Spec

=============================================================================
