-------------------------------- MODULE EvccV2 --------------------------------
(***************************************************************************)
(* The ISO 15118-2 state machine of the vehicle                            *)
(* (iso15118/evcc/states/iso15118_2_states.py): one action per state       *)
(* class, which takes the response that the class awaits.                  *)
(***************************************************************************)
EXTENDS EvccSession

V2States ==
    {"SupportedAppProtocol", "SessionSetup", "ServiceDiscovery", "ServiceDetail",
     "PaymentServiceSelection", "CertificateInstallation", "PaymentDetails", "Authorization",
     "ChargeParameterDiscovery", "PowerDelivery", "MeteringReceipt", "ChargingStatus",
     "CableCheck", "PreCharge", "CurrentDemand", "WeldingDetection", "SessionStop"}

V2Requests ==
    (V2States \ {"PowerDelivery"})
        \cup {"PowerDeliveryStart", "PowerDeliveryStop", "PowerDeliveryRenegotiate"}

Notifications == {"none", "stop", "renegotiate"}

still == <<vehicle, tls>>

SessionSetup ==
    /\ Awaits("SessionSetup")
    /\ Asks("ServiceDiscovery", "ServiceDiscovery")
    /\ UNCHANGED <<still, clock, pilot, full, ev>>

\* select_auth_mode: external payment is selected unless Plug & Charge can be,
\* whether it was offered or not.
SelectsPnc(offered) == offered /\ tls

\* fits: charging is offered in the vehicle's energy mode.  certificates: how many
\* services for certificates are in the list; at most two, a bound of the model.
ServiceDiscovery(fits, pncOffered, certificates) ==
    LET pnc == SelectsPnc(pncOffered)
        asks == tls /\ certificates > 0 /\ pnc /\ vehicle.install
        chosen == [ev EXCEPT !.pnc = pnc, !.ac = vehicle.ac]
    IN  /\ Awaits("ServiceDiscovery")
        /\ \/ /\ ~fits
              /\ Quits
              /\ ev' = chosen
           \/ /\ fits /\ asks
              /\ Asks("ServiceDetail", "ServiceDetail")
              /\ ev' = [chosen EXCEPT !.details = certificates - 1]
           \/ /\ fits /\ ~asks
              /\ Asks("PaymentServiceSelection", "PaymentServiceSelection")
              /\ ev' = chosen
        /\ UNCHANGED <<still, clock, pilot, full>>

\* The details of one service for certificates after the other are asked for.
ServiceDetail ==
    /\ Awaits("ServiceDetail")
    /\ \/ /\ ev.details = 0
          /\ Asks("PaymentServiceSelection", "PaymentServiceSelection")
          /\ UNCHANGED ev
       \/ /\ ev.details > 0
          /\ Asks("ServiceDetail", "ServiceDetail")
          /\ ev' = [ev EXCEPT !.details = @ - 1]
    /\ UNCHANGED <<still, clock, pilot, full>>

\* readable: the keys and certificates the next request needs can be read.
PaymentServiceSelection(readable) ==
    /\ Awaits("PaymentServiceSelection")
    /\ \/ ~ev.pnc /\ Asks("Authorization", "Authorization")
       \/ ev.pnc /\ ~readable /\ Quits
       \/ /\ ev.pnc /\ readable
          /\ IF vehicle.install THEN Asks("CertificateInstallation", "CertificateInstallation")
                                ELSE Asks("PaymentDetails", "PaymentDetails")
    /\ UNCHANGED <<still, clock, pilot, full, ev>>

\* The signature is verified, the key decrypted and stored.
CertificateInstallation(valid) ==
    /\ Awaits("CertificateInstallation")
    /\ \/ valid /\ Asks("PaymentDetails", "PaymentDetails")
       \/ ~valid /\ Quits
    /\ UNCHANGED <<still, clock, pilot, full, ev>>

PaymentDetails(readable) ==
    /\ Awaits("PaymentDetails")
    /\ \/ readable /\ Asks("Authorization", "Authorization")
       \/ ~readable /\ Quits
    /\ UNCHANGED <<still, clock, pilot, full, ev>>

Authorization(finished) ==
    /\ Awaits("Authorization")
    /\ \/ finished /\ TimerOff /\ Asks("ChargeParameterDiscovery", "ChargeParameterDiscovery")
       \/ ~finished /\ WaitsAnew("Authorization")
    /\ UNCHANGED <<still, pilot, full, ev>>

ChargeParameterDiscovery(finished) ==
    /\ Awaits("ChargeParameterDiscovery")
    /\ \/ /\ finished
          /\ TimerOff
          /\ IF ev.ac THEN Asks("PowerDelivery", "PowerDeliveryStart")
                      ELSE Asks("CableCheck", "CableCheck")
          /\ pilot' = TRUE
          /\ ev' = [ev EXCEPT !.checked = FALSE, !.precharged = FALSE]
       \/ /\ ~finished
          /\ WaitsAnew("ChargeParameterDiscovery")
          /\ UNCHANGED <<pilot, ev>>
    /\ UNCHANGED <<still, full>>

\* Slip: an AC session is charged like a DC session.
LoopAlwaysDC == "CurrentDemand"

LoopV2 == IF ev.ac THEN "ChargingStatus" ELSE "CurrentDemand"

\* What was asked for is in the session: an end, a renegotiation or charging.
PowerDelivery ==
    /\ Awaits("PowerDelivery")
    /\ \/ /\ ev.stop # None /\ ev.ac
          /\ Asks("SessionStop", "SessionStop")
          /\ UNCHANGED <<pilot, ev>>
       \/ /\ ev.stop # None /\ ~ev.ac
          /\ Asks("WeldingDetection", "WeldingDetection")
          /\ pilot' = FALSE
          /\ UNCHANGED ev
       \/ /\ ev.stop = None /\ ev.renegotiate
          /\ Asks("ChargeParameterDiscovery", "ChargeParameterDiscovery")
          /\ ev' = [ev EXCEPT !.renegotiate = FALSE]
          /\ UNCHANGED pilot
       \/ /\ ev.stop = None /\ ~ev.renegotiate
          /\ Asks(LoopV2, LoopV2)
          /\ UNCHANGED <<pilot, ev>>
    /\ UNCHANGED <<still, clock, full>>

\* Told to stop, the vehicle stops the power, but not the session: the
\* PowerDeliveryRes will lead it back into the loop.
MeteringReceipt(note) ==
    /\ Awaits("MeteringReceipt")
    /\ \/ note = "stop" /\ Asks("PowerDelivery", "PowerDeliveryStop") /\ UNCHANGED ev
       \/ /\ note = "renegotiate"
          /\ Asks("PowerDelivery", "PowerDeliveryRenegotiate")
          /\ ev' = [ev EXCEPT !.renegotiate = TRUE]
       \/ note = "none" /\ Asks(LoopV2, LoopV2) /\ UNCHANGED ev
    /\ UNCHANGED <<still, clock, pilot, full>>

StopCharging ==
    /\ Asks("PowerDelivery", "PowerDeliveryStop")
    /\ ev' = [ev EXCEPT !.stop = "terminate"]

\* receipt: the station asks for a receipt; over TLS the vehicle signs one.
ChargingStatus(receipt, note, readable, more) ==
    /\ Awaits("ChargingStatus")
    /\ \/ /\ receipt /\ tls
          /\ IF readable THEN Asks("MeteringReceipt", "MeteringReceipt") ELSE Quits
          /\ UNCHANGED <<full, ev>>
       \/ /\ ~(receipt /\ tls) /\ note = "renegotiate"
          /\ Asks("PowerDelivery", "PowerDeliveryRenegotiate")
          /\ ev' = [ev EXCEPT !.renegotiate = TRUE]
          /\ UNCHANGED full
       \/ ~(receipt /\ tls) /\ note = "stop" /\ StopCharging /\ UNCHANGED full
       \/ /\ ~(receipt /\ tls) /\ note = "none" /\ Continues(more)
          /\ \/ more /\ Asks("ChargingStatus", "ChargingStatus") /\ UNCHANGED ev
             \/ ~more /\ StopCharging
    /\ UNCHANGED <<still, clock, pilot>>

\* safe: the station is ready and the isolation level is valid.
CableCheck(finished, safe) ==
    /\ Awaits("CableCheck")
    /\ \/ finished /\ safe /\ TimerOff /\ Asks("PreCharge", "PreCharge")
       \/ finished /\ ~safe /\ TimerOff /\ Quits
       \/ ~finished /\ WaitsAnew("CableCheck")
    /\ ev' = [ev EXCEPT !.checked = finished /\ safe]
    /\ UNCHANGED <<still, pilot, full>>

PreCharge(reached) ==
    /\ Awaits("PreCharge")
    /\ \/ reached /\ TimerOff /\ Asks("PowerDelivery", "PowerDeliveryStart")
       \/ ~reached /\ WaitsAnew("PreCharge")
    /\ ev' = [ev EXCEPT !.precharged = reached]
    /\ UNCHANGED <<still, pilot, full>>

\* A notification to renegotiate is not looked at.
CurrentDemand(note, more) ==
    /\ Awaits("CurrentDemand")
    /\ \/ note = "stop" /\ StopCharging /\ UNCHANGED full
       \/ /\ note # "stop" /\ Continues(more)
          /\ \/ more /\ Asks("CurrentDemand", "CurrentDemand") /\ UNCHANGED ev
             \/ ~more /\ StopCharging
    /\ UNCHANGED <<still, clock, pilot>>

WeldingDetection(finished) ==
    /\ Awaits("WeldingDetection")
    /\ \/ timer = "due" /\ Quits /\ UNCHANGED clock
       \/ /\ timer # "due" /\ TimerOn
          /\ IF finished THEN Asks("SessionStop", "SessionStop")
                         ELSE Repeats("WeldingDetection")
    /\ UNCHANGED <<still, pilot, full, ev>>

SessionStop ==
    /\ Awaits("SessionStop")
    /\ Completes
    /\ UNCHANGED <<still, clock, pilot, full, ev>>

Next ==
    \/ SessionSetup
    \/ ServiceDetail
    \/ PowerDelivery
    \/ SessionStop
    \/ \E yes \in BOOLEAN :
          \/ PaymentServiceSelection(yes)
          \/ CertificateInstallation(yes)
          \/ PaymentDetails(yes)
          \/ Authorization(yes)
          \/ ChargeParameterDiscovery(yes)
          \/ PreCharge(yes)
          \/ WeldingDetection(yes)
          \/ \E safe \in BOOLEAN : CableCheck(yes, safe)
          \/ \E pnc \in BOOLEAN, certificates \in 0 .. 2 : ServiceDiscovery(yes, pnc, certificates)
    \/ \E note \in Notifications :
          \/ MeteringReceipt(note)
          \/ \E more \in BOOLEAN :
                \/ CurrentDemand(note, more)
                \/ \E receipt, readable \in BOOLEAN : ChargingStatus(receipt, note, readable, more)
=============================================================================
