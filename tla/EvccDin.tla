------------------------------- MODULE EvccDin -------------------------------
(***************************************************************************)
(* The DIN SPEC 70121 state machine of the vehicle                         *)
(* (iso15118/evcc/states/din_spec_states.py): one action per state class,  *)
(* which takes the response that the class awaits.                         *)
(***************************************************************************)
EXTENDS EvccSession

DinStates ==
    {"SupportedAppProtocol", "SessionSetup", "ServiceDiscovery", "ServicePaymentSelection",
     "ContractAuthentication", "ChargeParameterDiscovery", "CableCheck", "PreCharge",
     "PowerDelivery", "CurrentDemand", "WeldingDetection", "SessionStop"}

DinRequests == (DinStates \ {"PowerDelivery"}) \cup {"PowerDeliveryStart", "PowerDeliveryStop"}

still == <<vehicle, tls>>

SessionSetup ==
    /\ Awaits("SessionSetup")
    /\ Asks("ServiceDiscovery", "ServiceDiscovery")
    /\ UNCHANGED <<still, clock, pilot, full, ev>>

\* The station offers charging, external payment and the vehicle's mode.
ServiceDiscovery(fits) ==
    /\ Awaits("ServiceDiscovery")
    /\ \/ fits /\ Asks("ServicePaymentSelection", "ServicePaymentSelection")
       \/ ~fits /\ Quits
    /\ UNCHANGED <<still, clock, pilot, full, ev>>

ServicePaymentSelection ==
    /\ Awaits("ServicePaymentSelection")
    /\ Asks("ContractAuthentication", "ContractAuthentication")
    /\ UNCHANGED <<still, clock, pilot, full, ev>>

\* The timer is started by the first response, also when it is the last.
ContractAuthentication(finished) ==
    /\ Awaits("ContractAuthentication")
    /\ \/ timer = "due" /\ Quits /\ UNCHANGED clock
       \/ /\ timer # "due" /\ TimerOn
          /\ IF finished THEN Asks("ChargeParameterDiscovery", "ChargeParameterDiscovery")
                         ELSE Repeats("ContractAuthentication")
    /\ UNCHANGED <<still, pilot, full, ev>>

ChargeParameterDiscovery(finished) ==
    /\ Awaits("ChargeParameterDiscovery")
    /\ \/ /\ finished
          /\ TimerOff
          /\ Asks("CableCheck", "CableCheck")
          /\ pilot' = TRUE
          /\ ev' = [ev EXCEPT !.checked = FALSE, !.precharged = FALSE]
       \/ /\ ~finished
          /\ Waits("ChargeParameterDiscovery")
          /\ UNCHANGED <<pilot, ev>>
    /\ UNCHANGED <<still, full>>

\* safe: the station is ready and the isolation level is valid.
CableCheck(finished, safe) ==
    /\ Awaits("CableCheck")
    /\ \/ finished /\ safe /\ TimerOff /\ Asks("PreCharge", "PreCharge")
       \/ finished /\ ~safe /\ TimerOff /\ Quits
       \/ ~finished /\ Waits("CableCheck")
    /\ ev' = [ev EXCEPT !.checked = finished /\ safe]
    /\ UNCHANGED <<still, pilot, full>>

PreCharge(reached) ==
    /\ Awaits("PreCharge")
    /\ \/ reached /\ TimerOff /\ Asks("PowerDelivery", "PowerDeliveryStart")
       \/ ~reached /\ Waits("PreCharge")
    /\ ev' = [ev EXCEPT !.precharged = reached]
    /\ UNCHANGED <<still, pilot, full>>

\* Whether charging was started or stopped is asked of the controller.
PowerDelivery(more) ==
    /\ Awaits("PowerDelivery")
    /\ Continues(more)
    /\ \/ more /\ Asks("CurrentDemand", "CurrentDemand") /\ UNCHANGED pilot
       \/ ~more /\ Asks("WeldingDetection", "WeldingDetection") /\ pilot' = FALSE
    /\ UNCHANGED <<still, clock, ev>>

\* A station that is not ready makes the vehicle stop: stop_charging.
CurrentDemand(ready, more) ==
    /\ Awaits("CurrentDemand")
    /\ \/ ready /\ more /\ Continues(more) /\ Repeats("CurrentDemand")
       \/ ready /\ ~more /\ Continues(more) /\ Asks("PowerDelivery", "PowerDeliveryStop")
       \/ ~ready /\ full' = TRUE /\ Asks("PowerDelivery", "PowerDeliveryStop")
    /\ UNCHANGED <<still, clock, pilot, ev>>

WeldingDetection(finished) ==
    /\ Awaits("WeldingDetection")
    /\ \/ timer = "due" /\ Quits /\ UNCHANGED clock
       \/ /\ timer # "due" /\ TimerOn
          /\ IF finished THEN Asks("SessionStop", "SessionStop")
                         ELSE Repeats("WeldingDetection")
    /\ UNCHANGED <<still, pilot, full, ev>>

SessionStop ==
    /\ Awaits("SessionStop")
    /\ Completes
    /\ UNCHANGED <<still, clock, pilot, full, ev>>

Next ==
    \/ SessionSetup
    \/ ServicePaymentSelection
    \/ SessionStop
    \/ \E yes \in BOOLEAN :
          \/ ServiceDiscovery(yes)
          \/ ContractAuthentication(yes)
          \/ ChargeParameterDiscovery(yes)
          \/ PreCharge(yes)
          \/ PowerDelivery(yes)
          \/ WeldingDetection(yes)
          \/ \E more \in BOOLEAN : CableCheck(yes, more) \/ CurrentDemand(yes, more)
=============================================================================
