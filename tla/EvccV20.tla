------------------------------- MODULE EvccV20 -------------------------------
(***************************************************************************)
(* The ISO 15118-20 state machine of the vehicle                           *)
(* (iso15118/evcc/states/iso15118_20_states.py): one action per state      *)
(* class, which takes the response that the class awaits.                  *)
(***************************************************************************)
EXTENDS EvccSession

V20States ==
    {"SupportedAppProtocol", "SessionSetup", "AuthorizationSetup", "CertificateInstallation",
     "Authorization", "ServiceDiscovery", "ServiceDetail", "ServiceSelection",
     "ACChargeParameterDiscovery", "DCChargeParameterDiscovery", "ScheduleExchange",
     "PowerDelivery", "ACChargeLoop", "DCCableCheck", "DCPreCharge", "DCChargeLoop",
     "DCWeldingDetection", "SessionStop"}

V20Requests ==
    (V20States \ {"PowerDelivery"})
        \cup {"PowerDeliveryStart", "PowerDeliveryStop", "PowerDeliveryOngoing"}

still == <<vehicle, tls>>

SessionSetup ==
    /\ Awaits("SessionSetup")
    /\ Asks("AuthorizationSetup", "AuthorizationSetup")
    /\ UNCHANGED <<still, clock, pilot, full, ev>>

\* A certificate is installed if one is needed and can be; Plug & Charge is
\* selected when it is offered and the contract's key can be read.
AuthorizationSetup(certificates, oemKey, pncOffered, contractKey) ==
    /\ Awaits("AuthorizationSetup")
    /\ \/ /\ certificates /\ vehicle.install /\ oemKey
          /\ Asks("CertificateInstallation", "CertificateInstallation")
          /\ UNCHANGED ev
       \/ /\ ~(certificates /\ vehicle.install /\ oemKey)
          /\ Asks("Authorization", "Authorization")
          /\ ev' = [ev EXCEPT !.pnc = pncOffered /\ contractKey]
    /\ UNCHANGED <<still, clock, pilot, full>>

\* process_message raises NotImplementedError.
CertificateInstallation ==
    /\ Awaits("CertificateInstallation")
    /\ Aborts
    /\ UNCHANGED <<still, clock, pilot, full, ev>>

Authorization(finished) ==
    /\ Awaits("Authorization")
    /\ \/ finished /\ TimerOff /\ Asks("ServiceDiscovery", "ServiceDiscovery")
       \/ ~finished /\ WaitsAnew("Authorization")
    /\ UNCHANGED <<still, pilot, full, ev>>

\* matched: how many energy services both support.
ServiceDiscovery(matched, renegotiable) ==
    /\ Awaits("ServiceDiscovery")
    /\ \/ /\ matched = 0
          /\ Asks("SessionStop", "SessionStop")
          /\ ev' = [ev EXCEPT !.supported = renegotiable, !.stop = "terminate"]
       \/ /\ matched > 0
          /\ Asks("ServiceDetail", "ServiceDetail")
          /\ ev' = [ev EXCEPT !.supported = renegotiable, !.details = matched - 1]
    /\ UNCHANGED <<still, clock, pilot, full>>

\* The details of the next service, or the selection of the first one: it has
\* no parameter sets, one without a control mode, or one with.
ServiceDetail(parameters) ==
    /\ Awaits("ServiceDetail")
    /\ \/ /\ ev.details > 0
          /\ Asks("ServiceDetail", "ServiceDetail")
          /\ ev' = [ev EXCEPT !.details = @ - 1]
       \/ /\ ev.details = 0
          /\ \/ parameters = "none" /\ Aborts
             \/ parameters = "incomplete" /\ Asks("SessionStop", "SessionStop")
             \/ parameters = "complete" /\ Asks("ServiceSelection", "ServiceSelection")
          /\ UNCHANGED ev
    /\ UNCHANGED <<still, clock, pilot, full>>

\* service: what was selected.  For one that is neither AC nor DC no message is
\* created, which raises FaultyStateImplementationError.
ServiceSelection(service) ==
    /\ Awaits("ServiceSelection")
    /\ \/ service = "ac" /\ Asks("ACChargeParameterDiscovery", "ACChargeParameterDiscovery")
       \/ service = "dc" /\ Asks("DCChargeParameterDiscovery", "DCChargeParameterDiscovery")
       \/ service = "other" /\ Aborts
    /\ ev' = [ev EXCEPT !.ac = IF service = "other" THEN @ ELSE service = "ac"]
    /\ UNCHANGED <<still, clock, pilot, full>>

ChargeParameterDiscovery(type) ==
    /\ Awaits(type)
    /\ Asks("ScheduleExchange", "ScheduleExchange")
    /\ ev' = [ev EXCEPT !.checked = FALSE, !.precharged = FALSE]
    /\ UNCHANGED <<still, clock, pilot, full>>

ACChargeParameterDiscovery == ChargeParameterDiscovery("ACChargeParameterDiscovery")
DCChargeParameterDiscovery == ChargeParameterDiscovery("DCChargeParameterDiscovery")

\* process_..._se_params: the vehicle has a power profile or is still at it; if
\* the station wants a pause, the first PowerDeliveryReq says Stop.
Progress(profile, pause) ==
    IF ~profile THEN "PowerDeliveryOngoing"
    ELSE IF pause THEN "PowerDeliveryStop" ELSE "PowerDeliveryStart"

\* There is no timer for a station that is not ready.
ScheduleExchange(ongoing, profile, pause) ==
    /\ Awaits("ScheduleExchange")
    /\ \/ /\ ongoing
          /\ Asks("ScheduleExchange", "ScheduleExchange")
          /\ UNCHANGED <<pilot, ev>>
       \/ /\ ~ongoing
          /\ IF ev.ac THEN Asks("PowerDelivery", Progress(profile, pause))
                      ELSE Asks("DCCableCheck", "DCCableCheck")
          /\ pilot' = TRUE
          /\ ev' = [ev EXCEPT !.processing = @ \/ ~profile]
    /\ UNCHANGED <<still, clock, full>>

DCCableCheck(finished) ==
    /\ Awaits("DCCableCheck")
    /\ \/ finished /\ TimerOff /\ Asks("DCPreCharge", "DCPreCharge")
       \/ ~finished /\ Waits("DCCableCheck")
    /\ ev' = [ev EXCEPT !.checked = finished]
    /\ UNCHANGED <<still, pilot, full>>

\* pre_charge_finished_message_built_once: the first response is always
\* answered with another request; there is no timer.
DCPreCharge(reached, profile, pause) ==
    /\ Awaits("DCPreCharge")
    /\ \/ /\ reached /\ built
          /\ Asks("PowerDelivery", Progress(profile, pause))
          /\ ev' = [ev EXCEPT !.processing = ~profile, !.precharged = TRUE]
       \/ /\ ~(reached /\ built)
          /\ Repeats("DCPreCharge")
          /\ UNCHANGED ev
    /\ UNCHANGED <<still, clock, pilot, full>>

LoopV20 == IF ev.ac THEN "ACChargeLoop" ELSE "DCChargeLoop"

PowerDelivery(profile, pause) ==
    /\ Awaits("PowerDelivery")
    /\ \/ /\ ev.processing
          /\ Asks("PowerDelivery", Progress(profile, pause))
          /\ ev' = [ev EXCEPT !.processing = ~profile]
          /\ UNCHANGED pilot
       \/ /\ ~ev.processing /\ ev.stop # None
          /\ IF ev.ac THEN Asks("SessionStop", "SessionStop")
                      ELSE Asks("DCWeldingDetection", "DCWeldingDetection")
          /\ pilot' = FALSE
          /\ UNCHANGED ev
       \/ /\ ~ev.processing /\ ev.stop = None
          /\ Asks(LoopV20, LoopV20)
          /\ UNCHANGED <<pilot, ev>>
    /\ UNCHANGED <<still, clock, full>>

\* stop_v20_charging
StopV20Charging(renegotiate) ==
    /\ Asks("PowerDelivery", "PowerDeliveryStop")
    /\ ev' = [ev EXCEPT !.renegotiate = @ \/ renegotiate,
                        !.stop = IF renegotiate THEN "renegotiate" ELSE "terminate"]

\* status: the evse_status of the response, if it has one; only two of its
\* notifications are implemented.
ChargeLoop(type, status, more) ==
    /\ Awaits(type)
    /\ \/ status = "other" /\ Aborts /\ UNCHANGED <<full, ev>>
       \/ status \in {"terminate", "renegotiate"}
          /\ StopV20Charging(status = "renegotiate") /\ UNCHANGED full
       \/ /\ status = "none" /\ Continues(more)
          /\ \/ /\ more
                /\ IF type = "ACChargeLoop" THEN Asks(type, type) ELSE Repeats(type)
                /\ UNCHANGED ev
             \/ ~more /\ StopV20Charging(FALSE)
    /\ UNCHANGED <<still, clock, pilot>>

ACChargeLoop(status, more) == ChargeLoop("ACChargeLoop", status, more)
DCChargeLoop(status, more) == ChargeLoop("DCChargeLoop", status, more)

\* Whatever the response is, it is not looked at.
DCWeldingDetection(finished) ==
    /\ Awaits("DCWeldingDetection")
    /\ \/ timer = "due" /\ Quits /\ UNCHANGED <<clock, ev>>
       \/ /\ timer # "due" /\ TimerOn
          /\ \/ ev.welded /\ Asks("SessionStop", "SessionStop") /\ UNCHANGED ev
             \/ /\ ~ev.welded /\ Repeats("DCWeldingDetection")
                /\ ev' = [ev EXCEPT !.welded = finished]
    /\ UNCHANGED <<still, pilot, full>>

\* A stop that was not recorded raises AttributeError; a renegotiation goes to
\* ServiceDiscovery without a message, FaultyStateImplementationError.
SessionStop ==
    /\ Awaits("SessionStop")
    /\ IF ev.stop = None \/ (ev.supported /\ ev.renegotiate) THEN Aborts ELSE Completes
    /\ ev' = [ev EXCEPT !.renegotiate = @ /\ ~ev.supported]
    /\ UNCHANGED <<still, clock, pilot, full>>

Next ==
    \/ SessionSetup
    \/ CertificateInstallation
    \/ ACChargeParameterDiscovery
    \/ DCChargeParameterDiscovery
    \/ SessionStop
    \/ \E certificates, oemKey, pncOffered, contractKey \in BOOLEAN :
          AuthorizationSetup(certificates, oemKey, pncOffered, contractKey)
    \/ \E yes \in BOOLEAN :
          \/ Authorization(yes)
          \/ DCCableCheck(yes)
          \/ DCWeldingDetection(yes)
          \/ \E matched \in 0 .. 2 : ServiceDiscovery(matched, yes)
          \/ \E status \in {"none", "terminate", "renegotiate", "other"} :
                ACChargeLoop(status, yes) \/ DCChargeLoop(status, yes)
    \/ \E parameters \in {"none", "incomplete", "complete"} : ServiceDetail(parameters)
    \/ \E service \in {"ac", "dc", "other"} : ServiceSelection(service)
    \/ \E profile, pause \in BOOLEAN :
          \/ PowerDelivery(profile, pause)
          \/ \E yes \in BOOLEAN : \/ ScheduleExchange(yes, profile, pause)
                                  \/ DCPreCharge(yes, profile, pause)
=============================================================================
