------------------------------ MODULE EvccProofs ------------------------------
(***************************************************************************)
(* Proofs about the vehicle, for every fleet, every number of requests,    *)
(* cycles, attempts and late datagrams, and a station that answers         *)
(* anything: the discovery stays within its requests, the connection is as *)
(* secure as configured, and control pilot, demand and timer follow the    *)
(* session.                                                                *)
(*                                                                         *)
(* The handler owns the discovery and the choice of the security, the      *)
(* state machines the rest; the two parts of the invariant are proved      *)
(* apart, one lemma per protocol for the state machines.                   *)
(***************************************************************************)
EXTENDS Evcc, TLAPS

USE HandlerConstants, NoneIsNoProtocol

\* The states after the parameters were agreed for the first time: only there
\* may the control pilot be set.
Energized ==
    {"ChargeParameterDiscovery", "CableCheck", "PreCharge", "PowerDelivery", "CurrentDemand",
     "MeteringReceipt", "ChargingStatus", "SessionStop", "DCCableCheck", "DCPreCharge",
     "ACChargeLoop", "DCChargeLoop"}

PilotKept ==
    /\ pilot => evState \in Energized
    /\ evPhase \in {"none", "ended"} => ~pilot

\* What the class of the state says about the cable.  The flag ac keeps its
\* first value in DIN SPEC 70121, where it says nothing.
PreparedKept ==
    evPhase = "waiting" =>
        /\ evState \in {"PreCharge", "DCPreCharge"} => ev.checked
        /\ evState \in {"CurrentDemand", "DCChargeLoop"} => ev.checked /\ ev.precharged
        /\ evState \in {"ChargingStatus", "ACChargeLoop"} => protocol # "din" /\ ev.ac
        /\ evState \in {"PowerDelivery", "MeteringReceipt"} =>
              (ev.checked /\ ev.precharged) \/ (protocol # "din" /\ ev.ac)

\* The states that wait for a station which is not ready.
Waiting ==
    {"ContractAuthentication", "Authorization", "ChargeParameterDiscovery", "CableCheck",
     "PreCharge", "WeldingDetection", "DCCableCheck", "DCWeldingDetection"}

\* A timer runs only in one of them, and in a SessionStop that follows the
\* welding detection.
TimerOwned ==
    (evPhase = "waiting" /\ timer # "off") =>
        \/ evState = "SessionStop"
        \/ protocol = "din" /\ evState = "ChargeParameterDiscovery"
        \/ evState \in Waiting /\ timerOf = evState

SessionInv ==
    /\ EvTypeOK(States, Requests)
    /\ PilotKept
    /\ PreparedKept
    /\ TimerOwned

\* What was asked and what may still be asked in a cycle; a handler that has
\* given up in a cycle has reset the one and not the other, and asks no more.
Budget ==
    /\ asked <= MaxRequests
    /\ hPhase # "idle" => asked + retries <= MaxRequests

\* A session exists while the handler waits for its notification, and was begun
\* as the configuration allows; DIN SPEC 70121 is given up for TLS before it.
SessionOwned ==
    /\ evPhase # "none" <=> hPhase = "session"
    /\ hPhase = "session" =>
          /\ vehicle.enforceTls => tls
          /\ tls => vehicle.useTls /\ "din" \notin supported
          /\ protocol \in supported \cup {None}

HandlerInv ==
    /\ HandlerTypeOK
    /\ Budget
    /\ SessionOwned

IInv == SessionInv /\ HandlerInv

\* What a step of a state machine leaves to the handler.
WithinSession ==
    /\ evPhase = "waiting"
    /\ evPhase' \in {"waiting", "stopping"}
    /\ UNCHANGED <<vehicle, tls>>

\* EvTypeOK with its sets spelled out.
StateNames ==
    {"SupportedAppProtocol", "SessionSetup", "ServiceDiscovery", "ServicePaymentSelection",
     "ContractAuthentication", "ChargeParameterDiscovery", "CableCheck", "PreCharge",
     "PowerDelivery", "CurrentDemand", "WeldingDetection", "SessionStop", "ServiceDetail",
     "PaymentServiceSelection", "CertificateInstallation", "PaymentDetails", "Authorization",
     "MeteringReceipt", "ChargingStatus", "AuthorizationSetup", "ServiceSelection",
     "ACChargeParameterDiscovery", "DCChargeParameterDiscovery", "ScheduleExchange",
     "ACChargeLoop", "DCCableCheck", "DCPreCharge", "DCChargeLoop", "DCWeldingDetection"}

RequestNames ==
    (StateNames \ {"PowerDelivery"})
        \cup {"PowerDeliveryStart", "PowerDeliveryStop", "PowerDeliveryRenegotiate",
              "PowerDeliveryOngoing"}

Typed ==
    /\ vehicle \in Vehicle
    /\ evPhase \in {"none", "waiting", "stopping", "ended", "dead"}
    /\ evState \in StateNames
    /\ request \in RequestNames \cup {None}
    /\ timer \in {"off", "on", "due"}
    /\ timerOf \in StateNames \cup {None}
    /\ built \in BOOLEAN /\ tls \in BOOLEAN /\ pilot \in BOOLEAN /\ full \in BOOLEAN
    /\ outcome \in {"success", "failure"}
    /\ ev \in VehicleSession

LEMMA Names ==
    /\ States = StateNames
    /\ Requests = RequestNames
  BY DEF States, Requests, StateNames, RequestNames, Din!DinStates, Din!DinRequests,
     V2!V2States, V2!V2Requests, V20!V20States, V20!V20Requests

\* The members of the two sets, one by one.
LEMMA Members ==
    /\ "SupportedAppProtocol" \in StateNames /\ "SupportedAppProtocol" \in RequestNames
    /\ "SessionSetup" \in StateNames /\ "SessionSetup" \in RequestNames
    /\ "ServiceDiscovery" \in StateNames /\ "ServiceDiscovery" \in RequestNames
    /\ "ServicePaymentSelection" \in StateNames /\ "ServicePaymentSelection" \in RequestNames
    /\ "ContractAuthentication" \in StateNames /\ "ContractAuthentication" \in RequestNames
    /\ "ChargeParameterDiscovery" \in StateNames /\ "ChargeParameterDiscovery" \in RequestNames
    /\ "CableCheck" \in StateNames /\ "CableCheck" \in RequestNames
    /\ "PreCharge" \in StateNames /\ "PreCharge" \in RequestNames
    /\ "PowerDelivery" \in StateNames
    /\ "CurrentDemand" \in StateNames /\ "CurrentDemand" \in RequestNames
    /\ "WeldingDetection" \in StateNames /\ "WeldingDetection" \in RequestNames
    /\ "SessionStop" \in StateNames /\ "SessionStop" \in RequestNames
    /\ "ServiceDetail" \in StateNames /\ "ServiceDetail" \in RequestNames
    /\ "PaymentServiceSelection" \in StateNames /\ "PaymentServiceSelection" \in RequestNames
    /\ "CertificateInstallation" \in StateNames /\ "CertificateInstallation" \in RequestNames
    /\ "PaymentDetails" \in StateNames /\ "PaymentDetails" \in RequestNames
    /\ "Authorization" \in StateNames /\ "Authorization" \in RequestNames
    /\ "MeteringReceipt" \in StateNames /\ "MeteringReceipt" \in RequestNames
    /\ "ChargingStatus" \in StateNames /\ "ChargingStatus" \in RequestNames
    /\ "AuthorizationSetup" \in StateNames /\ "AuthorizationSetup" \in RequestNames
    /\ "ServiceSelection" \in StateNames /\ "ServiceSelection" \in RequestNames
    /\ "ACChargeParameterDiscovery" \in StateNames /\ "ACChargeParameterDiscovery" \in RequestNames
    /\ "DCChargeParameterDiscovery" \in StateNames /\ "DCChargeParameterDiscovery" \in RequestNames
    /\ "ScheduleExchange" \in StateNames /\ "ScheduleExchange" \in RequestNames
    /\ "ACChargeLoop" \in StateNames /\ "ACChargeLoop" \in RequestNames
    /\ "DCCableCheck" \in StateNames /\ "DCCableCheck" \in RequestNames
    /\ "DCPreCharge" \in StateNames /\ "DCPreCharge" \in RequestNames
    /\ "DCChargeLoop" \in StateNames /\ "DCChargeLoop" \in RequestNames
    /\ "DCWeldingDetection" \in StateNames /\ "DCWeldingDetection" \in RequestNames
    /\ "PowerDeliveryStart" \in RequestNames
    /\ "PowerDeliveryStop" \in RequestNames
    /\ "PowerDeliveryRenegotiate" \in RequestNames
    /\ "PowerDeliveryOngoing" \in RequestNames
  BY DEF StateNames, RequestNames

LEMMA Unfolded == EvTypeOK(States, Requests) => Typed
  BY Names DEF EvTypeOK, Typed

LEMMA Folded == Typed' => EvTypeOK(States, Requests)'
  BY Names DEF EvTypeOK, Typed

\* A step of the DIN SPEC 70121 machine keeps the invariant of the session.
LEMMA DinStep ==
    ASSUME SessionInv, protocol = "din", protocol' = protocol, Din!Next
    PROVE  SessionInv' /\ WithinSession
<1>types. Typed
  BY Unfolded DEF SessionInv
<1>inv. PilotKept /\ PreparedKept /\ TimerOwned
  BY DEF SessionInv
<1>sessionSetup. ASSUME Din!SessionSetup PROVE SessionInv' /\ WithinSession
  <2>. USE <1>sessionSetup DEF Din!SessionSetup, Din!Awaits, Din!Asks, Din!still, Din!clock
  <2>1. WithinSession
    BY DEF WithinSession
  <2>2. ev' \in VehicleSession
    BY <1>types DEF Typed, VehicleSession
  <2>3. Typed'
    BY <1>types, <2>2, Members DEF Typed
  <2>4. PilotKept'
    BY <1>types, <1>inv DEF PilotKept, Energized
  <2>5. PreparedKept'
    BY <1>types, <1>inv DEF PreparedKept, Typed, VehicleSession
  <2>6. TimerOwned'
    BY <1>types, <1>inv DEF TimerOwned, Waiting, Typed
  <2>. QED
    BY <2>1, <2>3, <2>4, <2>5, <2>6, Folded DEF SessionInv
<1>servicePaymentSelection. ASSUME Din!ServicePaymentSelection
                            PROVE  SessionInv' /\ WithinSession
  <2>. USE <1>servicePaymentSelection DEF Din!ServicePaymentSelection, Din!Awaits, Din!Asks,
      Din!still, Din!clock
  <2>1. WithinSession
    BY DEF WithinSession
  <2>2. ev' \in VehicleSession
    BY <1>types DEF Typed, VehicleSession
  <2>3. Typed'
    BY <1>types, <2>2, Members DEF Typed
  <2>4. PilotKept'
    BY <1>types, <1>inv DEF PilotKept, Energized
  <2>5. PreparedKept'
    BY <1>types, <1>inv DEF PreparedKept, Typed, VehicleSession
  <2>6. TimerOwned'
    BY <1>types, <1>inv DEF TimerOwned, Waiting, Typed
  <2>. QED
    BY <2>1, <2>3, <2>4, <2>5, <2>6, Folded DEF SessionInv
<1>sessionStop. ASSUME Din!SessionStop PROVE SessionInv' /\ WithinSession
  <2>. USE <1>sessionStop DEF Din!SessionStop, Din!Awaits, Din!Completes, Din!Leaves,
      Din!still, Din!clock
  <2>1. WithinSession
    BY DEF WithinSession
  <2>2. ev' \in VehicleSession
    BY <1>types DEF Typed, VehicleSession
  <2>3. Typed'
    BY <1>types, <2>2, Members DEF Typed
  <2>4. PilotKept'
    BY <1>types, <1>inv DEF PilotKept, Energized
  <2>5. PreparedKept'
    BY <1>types, <1>inv DEF PreparedKept, Typed, VehicleSession
  <2>6. TimerOwned'
    BY <1>types, <1>inv DEF TimerOwned, Waiting, Typed
  <2>. QED
    BY <2>1, <2>3, <2>4, <2>5, <2>6, Folded DEF SessionInv
<1>serviceDiscovery. ASSUME NEW yes \in BOOLEAN, Din!ServiceDiscovery(yes)
                     PROVE  SessionInv' /\ WithinSession
  <2>. USE <1>serviceDiscovery DEF Din!ServiceDiscovery, Din!Awaits, Din!Asks, Din!Quits,
      Din!Leaves, Din!still, Din!clock
  <2>1. WithinSession
    BY DEF WithinSession
  <2>2. ev' \in VehicleSession
    BY <1>types DEF Typed, VehicleSession
  <2>3. Typed'
    BY <1>types, <2>2, Members DEF Typed
  <2>4. PilotKept'
    BY <1>types, <1>inv DEF PilotKept, Energized
  <2>5. PreparedKept'
    BY <1>types, <1>inv DEF PreparedKept, Typed, VehicleSession
  <2>6. TimerOwned'
    BY <1>types, <1>inv DEF TimerOwned, Waiting, Typed
  <2>. QED
    BY <2>1, <2>3, <2>4, <2>5, <2>6, Folded DEF SessionInv
<1>contractAuthentication. ASSUME NEW yes \in BOOLEAN, Din!ContractAuthentication(yes)
                           PROVE  SessionInv' /\ WithinSession
  <2>. USE <1>contractAuthentication DEF Din!ContractAuthentication, Din!Awaits, Din!Quits,
      Din!Leaves, Din!clock, Din!TimerOn, Din!Asks, Din!Repeats, Din!still
  <2>1. WithinSession
    BY DEF WithinSession
  <2>2. ev' \in VehicleSession
    BY <1>types DEF Typed, VehicleSession
  <2>3. Typed'
    BY <1>types, <2>2, Members DEF Typed
  <2>4. PilotKept'
    BY <1>types, <1>inv DEF PilotKept, Energized
  <2>5. PreparedKept'
    BY <1>types, <1>inv DEF PreparedKept, Typed, VehicleSession
  <2>6. TimerOwned'
    BY <1>types, <1>inv DEF TimerOwned, Waiting, Typed
  <2>. QED
    BY <2>1, <2>3, <2>4, <2>5, <2>6, Folded DEF SessionInv
<1>chargeParameterDiscovery. ASSUME NEW yes \in BOOLEAN, Din!ChargeParameterDiscovery(yes)
                             PROVE  SessionInv' /\ WithinSession
  <2>. USE <1>chargeParameterDiscovery DEF Din!ChargeParameterDiscovery, Din!Awaits,
      Din!TimerOff, Din!Asks, Din!Waits, Din!Quits, Din!Leaves, Din!clock, Din!TimerOn,
      Din!Repeats, Din!still
  <2>1. WithinSession
    BY DEF WithinSession
  <2>2. ev' \in VehicleSession
    BY <1>types DEF Typed, VehicleSession
  <2>3. Typed'
    BY <1>types, <2>2, Members DEF Typed
  <2>4. PilotKept'
    BY <1>types, <1>inv DEF PilotKept, Energized
  <2>5. PreparedKept'
    BY <1>types, <1>inv DEF PreparedKept, Typed, VehicleSession
  <2>6. TimerOwned'
    BY <1>types, <1>inv DEF TimerOwned, Waiting, Typed
  <2>. QED
    BY <2>1, <2>3, <2>4, <2>5, <2>6, Folded DEF SessionInv
<1>preCharge. ASSUME NEW yes \in BOOLEAN, Din!PreCharge(yes)
              PROVE  SessionInv' /\ WithinSession
  <2>. USE <1>preCharge DEF Din!PreCharge, Din!Awaits, Din!TimerOff, Din!Asks, Din!Waits,
      Din!Quits, Din!Leaves, Din!clock, Din!TimerOn, Din!Repeats, Din!still
  <2>1. WithinSession
    BY DEF WithinSession
  <2>2. ev' \in VehicleSession
    BY <1>types DEF Typed, VehicleSession
  <2>3. Typed'
    BY <1>types, <2>2, Members DEF Typed
  <2>4. PilotKept'
    BY <1>types, <1>inv DEF PilotKept, Energized
  <2>5. PreparedKept'
    BY <1>types, <1>inv DEF PreparedKept, Typed, VehicleSession
  <2>6. TimerOwned'
    BY <1>types, <1>inv DEF TimerOwned, Waiting, Typed
  <2>. QED
    BY <2>1, <2>3, <2>4, <2>5, <2>6, Folded DEF SessionInv
<1>powerDelivery. ASSUME NEW yes \in BOOLEAN, Din!PowerDelivery(yes)
                  PROVE  SessionInv' /\ WithinSession
  <2>. USE <1>powerDelivery DEF Din!PowerDelivery, Din!Awaits, Din!Continues, Din!Asks,
      Din!still, Din!clock
  <2>1. WithinSession
    BY DEF WithinSession
  <2>2. ev' \in VehicleSession
    BY <1>types DEF Typed, VehicleSession
  <2>3. Typed'
    BY <1>types, <2>2, Members DEF Typed
  <2>4. PilotKept'
    BY <1>types, <1>inv DEF PilotKept, Energized
  <2>5. PreparedKept'
    BY <1>types, <1>inv DEF PreparedKept, Typed, VehicleSession
  <2>6. TimerOwned'
    BY <1>types, <1>inv DEF TimerOwned, Waiting, Typed
  <2>. QED
    BY <2>1, <2>3, <2>4, <2>5, <2>6, Folded DEF SessionInv
<1>weldingDetection. ASSUME NEW yes \in BOOLEAN, Din!WeldingDetection(yes)
                     PROVE  SessionInv' /\ WithinSession
  <2>. USE <1>weldingDetection DEF Din!WeldingDetection, Din!Awaits, Din!Quits, Din!Leaves,
      Din!clock, Din!TimerOn, Din!Asks, Din!Repeats, Din!still
  <2>1. WithinSession
    BY DEF WithinSession
  <2>2. ev' \in VehicleSession
    BY <1>types DEF Typed, VehicleSession
  <2>3. Typed'
    BY <1>types, <2>2, Members DEF Typed
  <2>4. PilotKept'
    BY <1>types, <1>inv DEF PilotKept, Energized
  <2>5. PreparedKept'
    BY <1>types, <1>inv DEF PreparedKept, Typed, VehicleSession
  <2>6. TimerOwned'
    BY <1>types, <1>inv DEF TimerOwned, Waiting, Typed
  <2>. QED
    BY <2>1, <2>3, <2>4, <2>5, <2>6, Folded DEF SessionInv
<1>cableCheck. ASSUME NEW yes \in BOOLEAN, NEW more \in BOOLEAN, Din!CableCheck(yes, more)
               PROVE  SessionInv' /\ WithinSession
  <2>. USE <1>cableCheck DEF Din!CableCheck, Din!Awaits, Din!TimerOff, Din!Asks, Din!Quits,
      Din!Leaves, Din!Waits, Din!clock, Din!TimerOn, Din!Repeats, Din!still
  <2>1. WithinSession
    BY DEF WithinSession
  <2>2. ev' \in VehicleSession
    BY <1>types DEF Typed, VehicleSession
  <2>3. Typed'
    BY <1>types, <2>2, Members DEF Typed
  <2>4. PilotKept'
    BY <1>types, <1>inv DEF PilotKept, Energized
  <2>5. PreparedKept'
    BY <1>types, <1>inv DEF PreparedKept, Typed, VehicleSession
  <2>6. TimerOwned'
    BY <1>types, <1>inv DEF TimerOwned, Waiting, Typed
  <2>. QED
    BY <2>1, <2>3, <2>4, <2>5, <2>6, Folded DEF SessionInv
<1>currentDemand. ASSUME NEW yes \in BOOLEAN, NEW more \in BOOLEAN,
                         Din!CurrentDemand(yes, more)
                  PROVE  SessionInv' /\ WithinSession
  <2>. USE <1>currentDemand DEF Din!CurrentDemand, Din!Awaits, Din!Continues, Din!Repeats,
      Din!Asks, Din!still, Din!clock
  <2>1. WithinSession
    BY DEF WithinSession
  <2>2. ev' \in VehicleSession
    BY <1>types DEF Typed, VehicleSession
  <2>3. Typed'
    BY <1>types, <2>2, Members DEF Typed
  <2>4. PilotKept'
    BY <1>types, <1>inv DEF PilotKept, Energized
  <2>5. PreparedKept'
    BY <1>types, <1>inv DEF PreparedKept, Typed, VehicleSession
  <2>6. TimerOwned'
    BY <1>types, <1>inv DEF TimerOwned, Waiting, Typed
  <2>. QED
    BY <2>1, <2>3, <2>4, <2>5, <2>6, Folded DEF SessionInv
<1>. QED
  BY <1>sessionSetup, <1>servicePaymentSelection, <1>sessionStop, <1>serviceDiscovery,
      <1>contractAuthentication, <1>chargeParameterDiscovery, <1>preCharge,
      <1>powerDelivery, <1>weldingDetection, <1>cableCheck, <1>currentDemand
  DEF Din!Next

\* A step of the ISO 15118-2 machine keeps the invariant of the session.
LEMMA V2Step ==
    ASSUME SessionInv, protocol = "v2", protocol' = protocol, V2!Next
    PROVE  SessionInv' /\ WithinSession
<1>types. Typed
  BY Unfolded DEF SessionInv
<1>inv. PilotKept /\ PreparedKept /\ TimerOwned
  BY DEF SessionInv
<1>sessionSetup. ASSUME V2!SessionSetup PROVE SessionInv' /\ WithinSession
  <2>. USE <1>sessionSetup DEF V2!SessionSetup, V2!Awaits, V2!Asks, V2!still, V2!clock
  <2>1. WithinSession
    BY DEF WithinSession
  <2>2. ev' \in VehicleSession
    BY <1>types DEF Typed, VehicleSession
  <2>3. Typed'
    BY <1>types, <2>2, Members DEF Typed
  <2>4. PilotKept'
    BY <1>types, <1>inv DEF PilotKept, Energized
  <2>5. PreparedKept'
    BY <1>types, <1>inv DEF PreparedKept, Typed, VehicleSession
  <2>6. TimerOwned'
    BY <1>types, <1>inv DEF TimerOwned, Waiting, Typed
  <2>. QED
    BY <2>1, <2>3, <2>4, <2>5, <2>6, Folded DEF SessionInv
<1>serviceDetail. ASSUME V2!ServiceDetail PROVE SessionInv' /\ WithinSession
  <2>. USE <1>serviceDetail DEF V2!ServiceDetail, V2!Awaits, V2!Asks, V2!still, V2!clock
  <2>1. WithinSession
    BY DEF WithinSession
  <2>2. ev' \in VehicleSession
    BY <1>types DEF Typed, VehicleSession
  <2>3. Typed'
    BY <1>types, <2>2, Members DEF Typed
  <2>4. PilotKept'
    BY <1>types, <1>inv DEF PilotKept, Energized
  <2>5. PreparedKept'
    BY <1>types, <1>inv DEF PreparedKept, Typed, VehicleSession
  <2>6. TimerOwned'
    BY <1>types, <1>inv DEF TimerOwned, Waiting, Typed
  <2>. QED
    BY <2>1, <2>3, <2>4, <2>5, <2>6, Folded DEF SessionInv
<1>powerDelivery. ASSUME V2!PowerDelivery PROVE SessionInv' /\ WithinSession
  <2>. USE <1>powerDelivery DEF V2!PowerDelivery, V2!Awaits, V2!Asks, V2!LoopV2, V2!still,
      V2!clock
  <2>1. WithinSession
    BY DEF WithinSession
  <2>2. ev' \in VehicleSession
    BY <1>types DEF Typed, VehicleSession
  <2>3. Typed'
    BY <1>types, <2>2, Members DEF Typed
  <2>4. PilotKept'
    BY <1>types, <1>inv DEF PilotKept, Energized
  <2>5. PreparedKept'
    BY <1>types, <1>inv DEF PreparedKept, Typed, VehicleSession
  <2>6. TimerOwned'
    BY <1>types, <1>inv DEF TimerOwned, Waiting, Typed
  <2>. QED
    BY <2>1, <2>3, <2>4, <2>5, <2>6, Folded DEF SessionInv
<1>sessionStop. ASSUME V2!SessionStop PROVE SessionInv' /\ WithinSession
  <2>. USE <1>sessionStop DEF V2!SessionStop, V2!Awaits, V2!Completes, V2!Leaves, V2!still,
      V2!clock
  <2>1. WithinSession
    BY DEF WithinSession
  <2>2. ev' \in VehicleSession
    BY <1>types DEF Typed, VehicleSession
  <2>3. Typed'
    BY <1>types, <2>2, Members DEF Typed
  <2>4. PilotKept'
    BY <1>types, <1>inv DEF PilotKept, Energized
  <2>5. PreparedKept'
    BY <1>types, <1>inv DEF PreparedKept, Typed, VehicleSession
  <2>6. TimerOwned'
    BY <1>types, <1>inv DEF TimerOwned, Waiting, Typed
  <2>. QED
    BY <2>1, <2>3, <2>4, <2>5, <2>6, Folded DEF SessionInv
<1>paymentServiceSelection. ASSUME NEW yes \in BOOLEAN, V2!PaymentServiceSelection(yes)
                            PROVE  SessionInv' /\ WithinSession
  <2>. USE <1>paymentServiceSelection DEF V2!PaymentServiceSelection, V2!Awaits, V2!Asks,
      V2!Quits, V2!Leaves, V2!still, V2!clock
  <2>1. WithinSession
    BY DEF WithinSession
  <2>2. ev' \in VehicleSession
    BY <1>types DEF Typed, VehicleSession
  <2>3. Typed'
    BY <1>types, <2>2, Members DEF Typed
  <2>4. PilotKept'
    BY <1>types, <1>inv DEF PilotKept, Energized
  <2>5. PreparedKept'
    BY <1>types, <1>inv DEF PreparedKept, Typed, VehicleSession
  <2>6. TimerOwned'
    BY <1>types, <1>inv DEF TimerOwned, Waiting, Typed
  <2>. QED
    BY <2>1, <2>3, <2>4, <2>5, <2>6, Folded DEF SessionInv
<1>certificateInstallation. ASSUME NEW yes \in BOOLEAN, V2!CertificateInstallation(yes)
                            PROVE  SessionInv' /\ WithinSession
  <2>. USE <1>certificateInstallation DEF V2!CertificateInstallation, V2!Awaits, V2!Asks,
      V2!Quits, V2!Leaves, V2!still, V2!clock
  <2>1. WithinSession
    BY DEF WithinSession
  <2>2. ev' \in VehicleSession
    BY <1>types DEF Typed, VehicleSession
  <2>3. Typed'
    BY <1>types, <2>2, Members DEF Typed
  <2>4. PilotKept'
    BY <1>types, <1>inv DEF PilotKept, Energized
  <2>5. PreparedKept'
    BY <1>types, <1>inv DEF PreparedKept, Typed, VehicleSession
  <2>6. TimerOwned'
    BY <1>types, <1>inv DEF TimerOwned, Waiting, Typed
  <2>. QED
    BY <2>1, <2>3, <2>4, <2>5, <2>6, Folded DEF SessionInv
<1>paymentDetails. ASSUME NEW yes \in BOOLEAN, V2!PaymentDetails(yes)
                   PROVE  SessionInv' /\ WithinSession
  <2>. USE <1>paymentDetails DEF V2!PaymentDetails, V2!Awaits, V2!Asks, V2!Quits, V2!Leaves,
      V2!still, V2!clock
  <2>1. WithinSession
    BY DEF WithinSession
  <2>2. ev' \in VehicleSession
    BY <1>types DEF Typed, VehicleSession
  <2>3. Typed'
    BY <1>types, <2>2, Members DEF Typed
  <2>4. PilotKept'
    BY <1>types, <1>inv DEF PilotKept, Energized
  <2>5. PreparedKept'
    BY <1>types, <1>inv DEF PreparedKept, Typed, VehicleSession
  <2>6. TimerOwned'
    BY <1>types, <1>inv DEF TimerOwned, Waiting, Typed
  <2>. QED
    BY <2>1, <2>3, <2>4, <2>5, <2>6, Folded DEF SessionInv
<1>authorization. ASSUME NEW yes \in BOOLEAN, V2!Authorization(yes)
                  PROVE  SessionInv' /\ WithinSession
  <2>. USE <1>authorization DEF V2!Authorization, V2!Awaits, V2!TimerOff, V2!Asks,
      V2!WaitsAnew, V2!Quits, V2!Leaves, V2!clock, V2!TimerOn, V2!still
  <2>1. WithinSession
    BY DEF WithinSession
  <2>2. ev' \in VehicleSession
    BY <1>types DEF Typed, VehicleSession
  <2>3. Typed'
    BY <1>types, <2>2, Members DEF Typed
  <2>4. PilotKept'
    BY <1>types, <1>inv DEF PilotKept, Energized
  <2>5. PreparedKept'
    BY <1>types, <1>inv DEF PreparedKept, Typed, VehicleSession
  <2>6. TimerOwned'
    BY <1>types, <1>inv DEF TimerOwned, Waiting, Typed
  <2>. QED
    BY <2>1, <2>3, <2>4, <2>5, <2>6, Folded DEF SessionInv
<1>chargeParameterDiscovery. ASSUME NEW yes \in BOOLEAN, V2!ChargeParameterDiscovery(yes)
                             PROVE  SessionInv' /\ WithinSession
  <2>. USE <1>chargeParameterDiscovery DEF V2!ChargeParameterDiscovery, V2!Awaits,
      V2!TimerOff, V2!Asks, V2!WaitsAnew, V2!Quits, V2!Leaves, V2!clock, V2!TimerOn,
      V2!still
  <2>1. WithinSession
    BY DEF WithinSession
  <2>2. ev' \in VehicleSession
    BY <1>types DEF Typed, VehicleSession
  <2>3. Typed'
    BY <1>types, <2>2, Members DEF Typed
  <2>4. PilotKept'
    BY <1>types, <1>inv DEF PilotKept, Energized
  <2>5. PreparedKept'
    BY <1>types, <1>inv DEF PreparedKept, Typed, VehicleSession
  <2>6. TimerOwned'
    BY <1>types, <1>inv DEF TimerOwned, Waiting, Typed
  <2>. QED
    BY <2>1, <2>3, <2>4, <2>5, <2>6, Folded DEF SessionInv
<1>preCharge. ASSUME NEW yes \in BOOLEAN, V2!PreCharge(yes)
              PROVE  SessionInv' /\ WithinSession
  <2>. USE <1>preCharge DEF V2!PreCharge, V2!Awaits, V2!TimerOff, V2!Asks, V2!WaitsAnew,
      V2!Quits, V2!Leaves, V2!clock, V2!TimerOn, V2!still
  <2>1. WithinSession
    BY DEF WithinSession
  <2>2. ev' \in VehicleSession
    BY <1>types DEF Typed, VehicleSession
  <2>3. Typed'
    BY <1>types, <2>2, Members DEF Typed
  <2>4. PilotKept'
    BY <1>types, <1>inv DEF PilotKept, Energized
  <2>5. PreparedKept'
    BY <1>types, <1>inv DEF PreparedKept, Typed, VehicleSession
  <2>6. TimerOwned'
    BY <1>types, <1>inv DEF TimerOwned, Waiting, Typed
  <2>. QED
    BY <2>1, <2>3, <2>4, <2>5, <2>6, Folded DEF SessionInv
<1>weldingDetection. ASSUME NEW yes \in BOOLEAN, V2!WeldingDetection(yes)
                     PROVE  SessionInv' /\ WithinSession
  <2>. USE <1>weldingDetection DEF V2!WeldingDetection, V2!Awaits, V2!Quits, V2!Leaves,
      V2!clock, V2!TimerOn, V2!Asks, V2!Repeats, V2!still
  <2>1. WithinSession
    BY DEF WithinSession
  <2>2. ev' \in VehicleSession
    BY <1>types DEF Typed, VehicleSession
  <2>3. Typed'
    BY <1>types, <2>2, Members DEF Typed
  <2>4. PilotKept'
    BY <1>types, <1>inv DEF PilotKept, Energized
  <2>5. PreparedKept'
    BY <1>types, <1>inv DEF PreparedKept, Typed, VehicleSession
  <2>6. TimerOwned'
    BY <1>types, <1>inv DEF TimerOwned, Waiting, Typed
  <2>. QED
    BY <2>1, <2>3, <2>4, <2>5, <2>6, Folded DEF SessionInv
<1>cableCheck. ASSUME NEW yes \in BOOLEAN, NEW safe \in BOOLEAN, V2!CableCheck(yes, safe)
               PROVE  SessionInv' /\ WithinSession
  <2>. USE <1>cableCheck DEF V2!CableCheck, V2!Awaits, V2!TimerOff, V2!Asks, V2!Quits,
      V2!Leaves, V2!WaitsAnew, V2!clock, V2!TimerOn, V2!still
  <2>1. WithinSession
    BY DEF WithinSession
  <2>2. ev' \in VehicleSession
    BY <1>types DEF Typed, VehicleSession
  <2>3. Typed'
    BY <1>types, <2>2, Members DEF Typed
  <2>4. PilotKept'
    BY <1>types, <1>inv DEF PilotKept, Energized
  <2>5. PreparedKept'
    BY <1>types, <1>inv DEF PreparedKept, Typed, VehicleSession
  <2>6. TimerOwned'
    BY <1>types, <1>inv DEF TimerOwned, Waiting, Typed
  <2>. QED
    BY <2>1, <2>3, <2>4, <2>5, <2>6, Folded DEF SessionInv
<1>serviceDiscovery. ASSUME NEW yes \in BOOLEAN, NEW pnc \in BOOLEAN,
                            NEW certificates \in 0 .. 2,
                            V2!ServiceDiscovery(yes, pnc, certificates)
                     PROVE  SessionInv' /\ WithinSession
  <2>. USE <1>serviceDiscovery DEF V2!ServiceDiscovery, V2!SelectsPnc, V2!Awaits, V2!Quits,
      V2!Leaves, V2!Asks, V2!still, V2!clock
  <2>1. WithinSession
    BY DEF WithinSession
  <2>2. ev' \in VehicleSession
    <3>. DEFINE chosen == [ev EXCEPT !.pnc = V2!SelectsPnc(pnc), !.ac = vehicle.ac]
    <3>1. V2!SelectsPnc(pnc) \in BOOLEAN /\ vehicle.ac \in BOOLEAN
      BY <1>types DEF Typed, Vehicle
    <3>2. chosen \in VehicleSession
      BY <1>types, <3>1 DEF Typed, VehicleSession
    <3>3. ASSUME NEW n \in 0 .. 1 PROVE [chosen EXCEPT !.details = n] \in VehicleSession
      BY <3>2 DEF VehicleSession
    <3>4. ev' = chosen \/ (certificates > 0 /\ ev' = [chosen EXCEPT !.details = certificates - 1])
      OBVIOUS
    <3>5. certificates > 0 => certificates - 1 \in 0 .. 1
      OBVIOUS
    <3>. HIDE DEF chosen
    <3>. QED
      BY <3>2, <3>3, <3>4, <3>5
  <2>3. Typed'
    BY <1>types, <2>2, Members DEF Typed
  <2>4. PilotKept'
    BY <1>types, <1>inv DEF PilotKept, Energized
  <2>5. PreparedKept'
    BY <1>types, <1>inv DEF PreparedKept, Typed, VehicleSession
  <2>6. TimerOwned'
    BY <1>types, <1>inv DEF TimerOwned, Waiting, Typed
  <2>. QED
    BY <2>1, <2>3, <2>4, <2>5, <2>6, Folded DEF SessionInv
<1>meteringReceipt. ASSUME NEW note \in V2!Notifications, V2!MeteringReceipt(note)
                    PROVE  SessionInv' /\ WithinSession
  <2>. USE <1>meteringReceipt DEF V2!MeteringReceipt, V2!Awaits, V2!Asks, V2!LoopV2,
      V2!still, V2!clock
  <2>1. WithinSession
    BY DEF WithinSession
  <2>2. ev' \in VehicleSession
    BY <1>types DEF Typed, VehicleSession
  <2>3. Typed'
    BY <1>types, <2>2, Members DEF Typed
  <2>4. PilotKept'
    BY <1>types, <1>inv DEF PilotKept, Energized
  <2>5. PreparedKept'
    BY <1>types, <1>inv DEF PreparedKept, Typed, VehicleSession
  <2>6. TimerOwned'
    BY <1>types, <1>inv DEF TimerOwned, Waiting, Typed
  <2>. QED
    BY <2>1, <2>3, <2>4, <2>5, <2>6, Folded DEF SessionInv
<1>currentDemand. ASSUME NEW note \in V2!Notifications, NEW more \in BOOLEAN,
                         V2!CurrentDemand(note, more)
                  PROVE  SessionInv' /\ WithinSession
  <2>. USE <1>currentDemand DEF V2!CurrentDemand, V2!Awaits, V2!StopCharging, V2!Asks,
      V2!Continues, V2!still, V2!clock
  <2>1. WithinSession
    BY DEF WithinSession
  <2>2. ev' \in VehicleSession
    BY <1>types DEF Typed, VehicleSession
  <2>3. Typed'
    BY <1>types, <2>2, Members DEF Typed
  <2>4. PilotKept'
    BY <1>types, <1>inv DEF PilotKept, Energized
  <2>5. PreparedKept'
    BY <1>types, <1>inv DEF PreparedKept, Typed, VehicleSession
  <2>6. TimerOwned'
    BY <1>types, <1>inv DEF TimerOwned, Waiting, Typed
  <2>. QED
    BY <2>1, <2>3, <2>4, <2>5, <2>6, Folded DEF SessionInv
<1>chargingStatus. ASSUME NEW receipt \in BOOLEAN, NEW note \in V2!Notifications,
                          NEW readable \in BOOLEAN, NEW more \in BOOLEAN,
                          V2!ChargingStatus(receipt, note, readable, more)
                   PROVE  SessionInv' /\ WithinSession
  <2>. USE <1>chargingStatus DEF V2!ChargingStatus, V2!Awaits, V2!Asks, V2!Quits, V2!Leaves,
      V2!StopCharging, V2!Continues, V2!still, V2!clock
  <2>1. WithinSession
    BY DEF WithinSession
  <2>2. ev' \in VehicleSession
    BY <1>types DEF Typed, VehicleSession
  <2>3. Typed'
    BY <1>types, <2>2, Members DEF Typed
  <2>4. PilotKept'
    BY <1>types, <1>inv DEF PilotKept, Energized
  <2>5. PreparedKept'
    BY <1>types, <1>inv DEF PreparedKept, Typed, VehicleSession
  <2>6. TimerOwned'
    BY <1>types, <1>inv DEF TimerOwned, Waiting, Typed
  <2>. QED
    BY <2>1, <2>3, <2>4, <2>5, <2>6, Folded DEF SessionInv
<1>. QED
  BY <1>sessionSetup, <1>serviceDetail, <1>powerDelivery, <1>sessionStop,
      <1>paymentServiceSelection, <1>certificateInstallation, <1>paymentDetails,
      <1>authorization, <1>chargeParameterDiscovery, <1>preCharge, <1>weldingDetection,
      <1>cableCheck, <1>serviceDiscovery, <1>meteringReceipt, <1>currentDemand,
      <1>chargingStatus
  DEF V2!Next

\* A step of the ISO 15118-20 machine keeps the invariant of the session.
LEMMA V20Step ==
    ASSUME SessionInv, protocol = "v20", protocol' = protocol, V20!Next
    PROVE  SessionInv' /\ WithinSession
<1>types. Typed
  BY Unfolded DEF SessionInv
<1>inv. PilotKept /\ PreparedKept /\ TimerOwned
  BY DEF SessionInv
<1>sessionSetup. ASSUME V20!SessionSetup PROVE SessionInv' /\ WithinSession
  <2>. USE <1>sessionSetup DEF V20!SessionSetup, V20!Awaits, V20!Asks, V20!still, V20!clock
  <2>1. WithinSession
    BY DEF WithinSession
  <2>2. ev' \in VehicleSession
    BY <1>types DEF Typed, VehicleSession
  <2>3. Typed'
    BY <1>types, <2>2, Members DEF Typed
  <2>4. PilotKept'
    BY <1>types, <1>inv DEF PilotKept, Energized
  <2>5. PreparedKept'
    BY <1>types, <1>inv DEF PreparedKept, Typed, VehicleSession
  <2>6. TimerOwned'
    BY <1>types, <1>inv DEF TimerOwned, Waiting, Typed
  <2>. QED
    BY <2>1, <2>3, <2>4, <2>5, <2>6, Folded DEF SessionInv
<1>certificateInstallation. ASSUME V20!CertificateInstallation
                            PROVE  SessionInv' /\ WithinSession
  <2>. USE <1>certificateInstallation DEF V20!CertificateInstallation, V20!Awaits,
      V20!Aborts, V20!Leaves, V20!still, V20!clock
  <2>1. WithinSession
    BY DEF WithinSession
  <2>2. ev' \in VehicleSession
    BY <1>types DEF Typed, VehicleSession
  <2>3. Typed'
    BY <1>types, <2>2, Members DEF Typed
  <2>4. PilotKept'
    BY <1>types, <1>inv DEF PilotKept, Energized
  <2>5. PreparedKept'
    BY <1>types, <1>inv DEF PreparedKept, Typed, VehicleSession
  <2>6. TimerOwned'
    BY <1>types, <1>inv DEF TimerOwned, Waiting, Typed
  <2>. QED
    BY <2>1, <2>3, <2>4, <2>5, <2>6, Folded DEF SessionInv
<1>aCChargeParameterDiscovery. ASSUME V20!ACChargeParameterDiscovery
                               PROVE  SessionInv' /\ WithinSession
  <2>. USE <1>aCChargeParameterDiscovery DEF V20!ACChargeParameterDiscovery,
      V20!ChargeParameterDiscovery, V20!Awaits, V20!Asks, V20!still, V20!clock
  <2>1. WithinSession
    BY DEF WithinSession
  <2>2. ev' \in VehicleSession
    BY <1>types DEF Typed, VehicleSession
  <2>3. Typed'
    BY <1>types, <2>2, Members DEF Typed
  <2>4. PilotKept'
    BY <1>types, <1>inv DEF PilotKept, Energized
  <2>5. PreparedKept'
    BY <1>types, <1>inv DEF PreparedKept, Typed, VehicleSession
  <2>6. TimerOwned'
    BY <1>types, <1>inv DEF TimerOwned, Waiting, Typed
  <2>. QED
    BY <2>1, <2>3, <2>4, <2>5, <2>6, Folded DEF SessionInv
<1>dCChargeParameterDiscovery. ASSUME V20!DCChargeParameterDiscovery
                               PROVE  SessionInv' /\ WithinSession
  <2>. USE <1>dCChargeParameterDiscovery DEF V20!DCChargeParameterDiscovery,
      V20!ChargeParameterDiscovery, V20!Awaits, V20!Asks, V20!still, V20!clock
  <2>1. WithinSession
    BY DEF WithinSession
  <2>2. ev' \in VehicleSession
    BY <1>types DEF Typed, VehicleSession
  <2>3. Typed'
    BY <1>types, <2>2, Members DEF Typed
  <2>4. PilotKept'
    BY <1>types, <1>inv DEF PilotKept, Energized
  <2>5. PreparedKept'
    BY <1>types, <1>inv DEF PreparedKept, Typed, VehicleSession
  <2>6. TimerOwned'
    BY <1>types, <1>inv DEF TimerOwned, Waiting, Typed
  <2>. QED
    BY <2>1, <2>3, <2>4, <2>5, <2>6, Folded DEF SessionInv
<1>sessionStop. ASSUME V20!SessionStop PROVE SessionInv' /\ WithinSession
  <2>. USE <1>sessionStop DEF V20!SessionStop, V20!Awaits, V20!Aborts, V20!Leaves,
      V20!Completes, V20!still, V20!clock
  <2>1. WithinSession
    BY DEF WithinSession
  <2>2. ev' \in VehicleSession
    BY <1>types DEF Typed, VehicleSession
  <2>3. Typed'
    BY <1>types, <2>2, Members DEF Typed
  <2>4. PilotKept'
    BY <1>types, <1>inv DEF PilotKept, Energized
  <2>5. PreparedKept'
    BY <1>types, <1>inv DEF PreparedKept, Typed, VehicleSession
  <2>6. TimerOwned'
    BY <1>types, <1>inv DEF TimerOwned, Waiting, Typed
  <2>. QED
    BY <2>1, <2>3, <2>4, <2>5, <2>6, Folded DEF SessionInv
<1>authorizationSetup. ASSUME NEW certificates \in BOOLEAN, NEW oemKey \in BOOLEAN,
                              NEW pncOffered \in BOOLEAN, NEW contractKey \in BOOLEAN,
                              V20!AuthorizationSetup(certificates, oemKey, pncOffered, contractKey)
                       PROVE  SessionInv' /\ WithinSession
  <2>. USE <1>authorizationSetup DEF V20!AuthorizationSetup, V20!Awaits, V20!Asks,
      V20!still, V20!clock
  <2>1. WithinSession
    BY DEF WithinSession
  <2>2. ev' \in VehicleSession
    BY <1>types DEF Typed, VehicleSession
  <2>3. Typed'
    BY <1>types, <2>2, Members DEF Typed
  <2>4. PilotKept'
    BY <1>types, <1>inv DEF PilotKept, Energized
  <2>5. PreparedKept'
    BY <1>types, <1>inv DEF PreparedKept, Typed, VehicleSession
  <2>6. TimerOwned'
    BY <1>types, <1>inv DEF TimerOwned, Waiting, Typed
  <2>. QED
    BY <2>1, <2>3, <2>4, <2>5, <2>6, Folded DEF SessionInv
<1>authorization. ASSUME NEW yes \in BOOLEAN, V20!Authorization(yes)
                  PROVE  SessionInv' /\ WithinSession
  <2>. USE <1>authorization DEF V20!Authorization, V20!Awaits, V20!TimerOff, V20!Asks,
      V20!WaitsAnew, V20!Quits, V20!Leaves, V20!clock, V20!TimerOn, V20!still
  <2>1. WithinSession
    BY DEF WithinSession
  <2>2. ev' \in VehicleSession
    BY <1>types DEF Typed, VehicleSession
  <2>3. Typed'
    BY <1>types, <2>2, Members DEF Typed
  <2>4. PilotKept'
    BY <1>types, <1>inv DEF PilotKept, Energized
  <2>5. PreparedKept'
    BY <1>types, <1>inv DEF PreparedKept, Typed, VehicleSession
  <2>6. TimerOwned'
    BY <1>types, <1>inv DEF TimerOwned, Waiting, Typed
  <2>. QED
    BY <2>1, <2>3, <2>4, <2>5, <2>6, Folded DEF SessionInv
<1>dCCableCheck. ASSUME NEW yes \in BOOLEAN, V20!DCCableCheck(yes)
                 PROVE  SessionInv' /\ WithinSession
  <2>. USE <1>dCCableCheck DEF V20!DCCableCheck, V20!Awaits, V20!TimerOff, V20!Asks,
      V20!Waits, V20!Quits, V20!Leaves, V20!clock, V20!TimerOn, V20!Repeats, V20!still
  <2>1. WithinSession
    BY DEF WithinSession
  <2>2. ev' \in VehicleSession
    BY <1>types DEF Typed, VehicleSession
  <2>3. Typed'
    BY <1>types, <2>2, Members DEF Typed
  <2>4. PilotKept'
    BY <1>types, <1>inv DEF PilotKept, Energized
  <2>5. PreparedKept'
    BY <1>types, <1>inv DEF PreparedKept, Typed, VehicleSession
  <2>6. TimerOwned'
    BY <1>types, <1>inv DEF TimerOwned, Waiting, Typed
  <2>. QED
    BY <2>1, <2>3, <2>4, <2>5, <2>6, Folded DEF SessionInv
<1>dCWeldingDetection. ASSUME NEW yes \in BOOLEAN, V20!DCWeldingDetection(yes)
                       PROVE  SessionInv' /\ WithinSession
  <2>. USE <1>dCWeldingDetection DEF V20!DCWeldingDetection, V20!Awaits, V20!Quits,
      V20!Leaves, V20!clock, V20!TimerOn, V20!Asks, V20!Repeats, V20!still
  <2>1. WithinSession
    BY DEF WithinSession
  <2>2. ev' \in VehicleSession
    BY <1>types DEF Typed, VehicleSession
  <2>3. Typed'
    BY <1>types, <2>2, Members DEF Typed
  <2>4. PilotKept'
    BY <1>types, <1>inv DEF PilotKept, Energized
  <2>5. PreparedKept'
    BY <1>types, <1>inv DEF PreparedKept, Typed, VehicleSession
  <2>6. TimerOwned'
    BY <1>types, <1>inv DEF TimerOwned, Waiting, Typed
  <2>. QED
    BY <2>1, <2>3, <2>4, <2>5, <2>6, Folded DEF SessionInv
<1>serviceDiscovery. ASSUME NEW matched \in 0 .. 2, NEW yes \in BOOLEAN,
                            V20!ServiceDiscovery(matched, yes)
                     PROVE  SessionInv' /\ WithinSession
  <2>. USE <1>serviceDiscovery DEF V20!ServiceDiscovery, V20!Awaits, V20!Asks, V20!still,
      V20!clock
  <2>1. WithinSession
    BY DEF WithinSession
  <2>2. ev' \in VehicleSession
    <3>1. CASE matched = 0
      <4>1. ev' = [ev EXCEPT !.supported = yes, !.stop = "terminate"]
        BY <3>1
      <4>. QED
        BY <1>types, <4>1 DEF Typed, VehicleSession
    <3>2. CASE matched \in 1 .. 2
      <4>1. ev' = [ev EXCEPT !.supported = yes, !.details = matched - 1]
        BY <3>2
      <4>2. matched - 1 \in 0 .. 1
        BY <3>2
      <4>. QED
        BY <1>types, <4>1, <4>2 DEF Typed, VehicleSession
    <3>. QED
      BY <3>1, <3>2
  <2>3. Typed'
    BY <1>types, <2>2, Members DEF Typed
  <2>4. PilotKept'
    BY <1>types, <1>inv DEF PilotKept, Energized
  <2>5. PreparedKept'
    BY <1>types, <1>inv DEF PreparedKept, Typed, VehicleSession
  <2>6. TimerOwned'
    BY <1>types, <1>inv DEF TimerOwned, Waiting, Typed
  <2>. QED
    BY <2>1, <2>3, <2>4, <2>5, <2>6, Folded DEF SessionInv
<1>aCChargeLoop. ASSUME NEW status \in {"none", "terminate", "renegotiate", "other"},
                        NEW yes \in BOOLEAN, V20!ACChargeLoop(status, yes)
                 PROVE  SessionInv' /\ WithinSession
  <2>. USE <1>aCChargeLoop DEF V20!ACChargeLoop, V20!ChargeLoop, V20!Awaits, V20!Aborts,
      V20!Leaves, V20!StopV20Charging, V20!Asks, V20!Continues, V20!Repeats, V20!still,
      V20!clock
  <2>1. WithinSession
    BY DEF WithinSession
  <2>2. ev' \in VehicleSession
    BY <1>types DEF Typed, VehicleSession
  <2>3. Typed'
    BY <1>types, <2>2, Members DEF Typed
  <2>4. PilotKept'
    BY <1>types, <1>inv DEF PilotKept, Energized
  <2>5. PreparedKept'
    BY <1>types, <1>inv DEF PreparedKept, Typed, VehicleSession
  <2>6. TimerOwned'
    BY <1>types, <1>inv DEF TimerOwned, Waiting, Typed
  <2>. QED
    BY <2>1, <2>3, <2>4, <2>5, <2>6, Folded DEF SessionInv
<1>dCChargeLoop. ASSUME NEW status \in {"none", "terminate", "renegotiate", "other"},
                        NEW yes \in BOOLEAN, V20!DCChargeLoop(status, yes)
                 PROVE  SessionInv' /\ WithinSession
  <2>. USE <1>dCChargeLoop DEF V20!DCChargeLoop, V20!ChargeLoop, V20!Awaits, V20!Aborts,
      V20!Leaves, V20!StopV20Charging, V20!Asks, V20!Continues, V20!Repeats, V20!still,
      V20!clock
  <2>1. WithinSession
    BY DEF WithinSession
  <2>2. ev' \in VehicleSession
    BY <1>types DEF Typed, VehicleSession
  <2>3. Typed'
    BY <1>types, <2>2, Members DEF Typed
  <2>4. PilotKept'
    BY <1>types, <1>inv DEF PilotKept, Energized
  <2>5. PreparedKept'
    BY <1>types, <1>inv DEF PreparedKept, Typed, VehicleSession
  <2>6. TimerOwned'
    BY <1>types, <1>inv DEF TimerOwned, Waiting, Typed
  <2>. QED
    BY <2>1, <2>3, <2>4, <2>5, <2>6, Folded DEF SessionInv
<1>serviceDetail. ASSUME NEW parameters \in {"none", "incomplete", "complete"},
                         V20!ServiceDetail(parameters)
                  PROVE  SessionInv' /\ WithinSession
  <2>. USE <1>serviceDetail DEF V20!ServiceDetail, V20!Awaits, V20!Asks, V20!Aborts,
      V20!Leaves, V20!still, V20!clock
  <2>1. WithinSession
    BY DEF WithinSession
  <2>2. ev' \in VehicleSession
    BY <1>types DEF Typed, VehicleSession
  <2>3. Typed'
    BY <1>types, <2>2, Members DEF Typed
  <2>4. PilotKept'
    BY <1>types, <1>inv DEF PilotKept, Energized
  <2>5. PreparedKept'
    BY <1>types, <1>inv DEF PreparedKept, Typed, VehicleSession
  <2>6. TimerOwned'
    BY <1>types, <1>inv DEF TimerOwned, Waiting, Typed
  <2>. QED
    BY <2>1, <2>3, <2>4, <2>5, <2>6, Folded DEF SessionInv
<1>serviceSelection. ASSUME NEW service \in {"ac", "dc", "other"},
                            V20!ServiceSelection(service)
                     PROVE  SessionInv' /\ WithinSession
  <2>. USE <1>serviceSelection DEF V20!ServiceSelection, V20!Awaits, V20!Asks, V20!Aborts,
      V20!Leaves, V20!still, V20!clock
  <2>1. WithinSession
    BY DEF WithinSession
  <2>2. ev' \in VehicleSession
    BY <1>types DEF Typed, VehicleSession
  <2>3. Typed'
    BY <1>types, <2>2, Members DEF Typed
  <2>4. PilotKept'
    BY <1>types, <1>inv DEF PilotKept, Energized
  <2>5. PreparedKept'
    BY <1>types, <1>inv DEF PreparedKept, Typed, VehicleSession
  <2>6. TimerOwned'
    BY <1>types, <1>inv DEF TimerOwned, Waiting, Typed
  <2>. QED
    BY <2>1, <2>3, <2>4, <2>5, <2>6, Folded DEF SessionInv
<1>powerDelivery. ASSUME NEW profile \in BOOLEAN, NEW pause \in BOOLEAN,
                         V20!PowerDelivery(profile, pause)
                  PROVE  SessionInv' /\ WithinSession
  <2>. USE <1>powerDelivery DEF V20!PowerDelivery, V20!Awaits, V20!Asks, V20!Progress,
      V20!LoopV20, V20!still, V20!clock
  <2>1. WithinSession
    BY DEF WithinSession
  <2>2. ev' \in VehicleSession
    BY <1>types DEF Typed, VehicleSession
  <2>3. Typed'
    BY <1>types, <2>2, Members DEF Typed
  <2>4. PilotKept'
    BY <1>types, <1>inv DEF PilotKept, Energized
  <2>5. PreparedKept'
    BY <1>types, <1>inv DEF PreparedKept, Typed, VehicleSession
  <2>6. TimerOwned'
    BY <1>types, <1>inv DEF TimerOwned, Waiting, Typed
  <2>. QED
    BY <2>1, <2>3, <2>4, <2>5, <2>6, Folded DEF SessionInv
<1>scheduleExchange. ASSUME NEW yes \in BOOLEAN, NEW profile \in BOOLEAN,
                            NEW pause \in BOOLEAN, V20!ScheduleExchange(yes, profile, pause)
                     PROVE  SessionInv' /\ WithinSession
  <2>. USE <1>scheduleExchange DEF V20!ScheduleExchange, V20!Awaits, V20!Asks, V20!Progress,
      V20!still, V20!clock
  <2>1. WithinSession
    BY DEF WithinSession
  <2>2. ev' \in VehicleSession
    BY <1>types DEF Typed, VehicleSession
  <2>3. Typed'
    BY <1>types, <2>2, Members DEF Typed
  <2>4. PilotKept'
    BY <1>types, <1>inv DEF PilotKept, Energized
  <2>5. PreparedKept'
    BY <1>types, <1>inv DEF PreparedKept, Typed, VehicleSession
  <2>6. TimerOwned'
    BY <1>types, <1>inv DEF TimerOwned, Waiting, Typed
  <2>. QED
    BY <2>1, <2>3, <2>4, <2>5, <2>6, Folded DEF SessionInv
<1>dCPreCharge. ASSUME NEW yes \in BOOLEAN, NEW profile \in BOOLEAN, NEW pause \in BOOLEAN,
                       V20!DCPreCharge(yes, profile, pause)
                PROVE  SessionInv' /\ WithinSession
  <2>. USE <1>dCPreCharge DEF V20!DCPreCharge, V20!Awaits, V20!Asks, V20!Progress,
      V20!Repeats, V20!still, V20!clock
  <2>1. WithinSession
    BY DEF WithinSession
  <2>2. ev' \in VehicleSession
    BY <1>types DEF Typed, VehicleSession
  <2>3. Typed'
    BY <1>types, <2>2, Members DEF Typed
  <2>4. PilotKept'
    BY <1>types, <1>inv DEF PilotKept, Energized
  <2>5. PreparedKept'
    BY <1>types, <1>inv DEF PreparedKept, Typed, VehicleSession
  <2>6. TimerOwned'
    BY <1>types, <1>inv DEF TimerOwned, Waiting, Typed
  <2>. QED
    BY <2>1, <2>3, <2>4, <2>5, <2>6, Folded DEF SessionInv
<1>. QED
  BY <1>sessionSetup, <1>certificateInstallation, <1>aCChargeParameterDiscovery,
      <1>dCChargeParameterDiscovery, <1>sessionStop, <1>authorizationSetup,
      <1>authorization, <1>dCCableCheck, <1>dCWeldingDetection, <1>serviceDiscovery,
      <1>aCChargeLoop, <1>dCChargeLoop, <1>serviceDetail, <1>serviceSelection,
      <1>powerDelivery, <1>scheduleExchange, <1>dCPreCharge
  DEF V20!Next

-----------------------------------------------------------------------------
(* The steps that the protocols share, and those of the handler *)

\* The end of a wait without a next request.
LEMMA LeavesKeeps ==
    ASSUME SessionInv, evPhase = "waiting", NEW result \in {"success", "failure"},
           Leaves(result), request' \in {request, None},
           UNCHANGED <<vehicle, clock, tls, pilot, full, ev>>
    PROVE  SessionInv' /\ WithinSession
<1>1. Typed
  BY Unfolded DEF SessionInv
<1>2. Typed'
  BY <1>1 DEF Leaves, Typed, clock
<1>3. PilotKept' /\ PreparedKept' /\ TimerOwned'
  BY DEF SessionInv, PilotKept, PreparedKept, TimerOwned, Leaves
<1>. QED
  BY <1>2, <1>3, Folded DEF SessionInv, WithinSession, Leaves

LEMMA SharedStep ==
    ASSUME SessionInv, protocol' = protocol, Refused \/ Broken
    PROVE  SessionInv' /\ WithinSession
  BY LeavesKeeps DEF Refused, Broken, Quits, Aborts

LEMMA StoppedStep ==
    ASSUME SessionInv, Stopped PROVE SessionInv'
<1>1. Typed
  BY Unfolded DEF SessionInv
<1>2. Typed'
  BY <1>1 DEF Stopped, PilotAtEnd, Typed, clock
<1>3. PilotKept' /\ PreparedKept' /\ TimerOwned'
  BY DEF PilotKept, PreparedKept, TimerOwned, Stopped, PilotAtEnd
<1>. QED
  BY <1>2, <1>3, Folded DEF SessionInv

LEMMA ReadErrorStep ==
    ASSUME SessionInv, ReadError PROVE SessionInv'
<1>1. Typed
  BY Unfolded DEF SessionInv
<1>2. Typed'
  BY <1>1 DEF ReadError, Typed, clock
<1>3. PilotKept' /\ PreparedKept' /\ TimerOwned'
  BY DEF SessionInv, PilotKept, PreparedKept, TimerOwned, ReadError
<1>. QED
  BY <1>2, <1>3, Folded DEF SessionInv

LEMMA ElapseStep ==
    ASSUME SessionInv, protocol' = protocol, Elapse
    PROVE  SessionInv' /\ WithinSession
<1>1. Typed
  BY Unfolded DEF SessionInv
<1>2. Typed'
  BY <1>1 DEF Elapse, Typed
<1>3. PilotKept' /\ PreparedKept' /\ TimerOwned'
  BY DEF SessionInv, PilotKept, PreparedKept, TimerOwned, Elapse
<1>. QED
  BY <1>2, <1>3, Folded DEF SessionInv, WithinSession, Elapse

LEMMA SapStep ==
    ASSUME SessionInv, NEW p \in Protocols, SupportedAppProtocol(p)
    PROVE  SessionInv' /\ WithinSession
<1>1. Typed
  BY Unfolded DEF SessionInv
<1>2. CASE p \in supported
  <2>1. Typed'
    BY <1>1, <1>2, Members DEF SupportedAppProtocol, Asks, Typed, clock
  <2>2. PilotKept' /\ PreparedKept' /\ TimerOwned'
    BY <1>2 DEF SessionInv, PilotKept, PreparedKept, TimerOwned, SupportedAppProtocol, Awaits,
       Asks, clock, Energized, Waiting
  <2>. QED
    BY <1>2, <2>1, <2>2, Folded DEF SessionInv, WithinSession, SupportedAppProtocol, Awaits, Asks
<1>3. CASE p \notin supported
  BY <1>3, LeavesKeeps DEF SupportedAppProtocol, Awaits, Quits
<1>. QED
  BY <1>2, <1>3

LEMMA BeginsStep ==
    ASSUME SessionInv, evPhase = "none", NEW isTls \in BOOLEAN, Begins(isTls)
    PROVE  SessionInv'
<1>1. Typed
  BY Unfolded DEF SessionInv
<1>2. NewVehicleSession \in VehicleSession
  BY DEF NewVehicleSession, VehicleSession
<1>3. Typed'
  BY <1>1, <1>2, Members DEF Begins, Typed
<1>4. PilotKept' /\ PreparedKept' /\ TimerOwned'
  BY DEF SessionInv, PilotKept, PreparedKept, TimerOwned, Begins
<1>. QED
  BY <1>3, <1>4, Folded DEF SessionInv

\* The invariant of the session concerns the handler in the protocol only.
LEMMA SessionRests ==
    ASSUME SessionInv, UNCHANGED evVars, protocol' = protocol
    PROVE  SessionInv'
<1>1. Typed
  BY Unfolded DEF SessionInv
<1>2. Typed'
  BY <1>1 DEF Typed, evVars, clock
<1>3. PilotKept' /\ PreparedKept' /\ TimerOwned'
  BY DEF SessionInv, PilotKept, PreparedKept, TimerOwned, evVars, clock
<1>. QED
  BY <1>2, <1>3, Folded DEF SessionInv

\* A step of a session leaves the handler waiting for its notification.
LEMMA HandlerRests ==
    ASSUME HandlerInv, WithinSession, UNCHANGED hVars
    PROVE  HandlerInv'
  BY DEF HandlerInv, HandlerTypeOK, Budget, SessionOwned, WithinSession, hVars, counters

\* The counters of the discovery.
CountersOK ==
    /\ retries \in 0 .. MaxRequests
    /\ cycles \in 0 .. MaxCycles
    /\ attempts \in 0 .. MaxAttempts
    /\ asked \in Nat
    /\ Budget

LEMMA CycleKeeps ==
    ASSUME NEW left \in 0 .. MaxCycles, Cycle(left), attempts' \in 0 .. MaxAttempts
    PROVE  CountersOK' /\ hPhase' \in {"discovering", "polling"}
<1>1. CASE hPhase' = "discovering" /\ retries' = MaxRequests - 1 /\ asked' = 1
  BY <1>1 DEF Cycle, CountersOK, Budget
<1>2. CASE hPhase' = "polling" /\ retries' = MaxRequests /\ asked' = 0
  BY <1>2 DEF Cycle, CountersOK, Budget
<1>. QED
  BY <1>1, <1>2, Zenon DEF Cycle

LEMMA SdpFailedKeeps ==
    ASSUME CountersOK, NEW r \in 0 .. MaxRequests, SdpFailed(r)
    PROVE  CountersOK' /\ hPhase' \in {"discovering", "polling", "idle"}
<1>1. CASE Restarts
  <2>1. attempts' \in 0 .. MaxAttempts /\ MaxCycles - 1 \in 0 .. MaxCycles
    BY <1>1 DEF SdpFailed, Restarts, CountersOK
  <2>. QED
    BY <1>1, <2>1, CycleKeeps DEF SdpFailed
<1>2. CASE ~Restarts
  BY <1>2 DEF SdpFailed, CountersOK, Budget
<1>. QED
  BY <1>1, <1>2

LEMMA RestartKeeps ==
    ASSUME CountersOK, Restart
    PROVE  CountersOK' /\ hPhase' \in {"discovering", "polling", "idle"}
<1>1. CASE cycles > 0
  <2>1. cycles - 1 \in 0 .. MaxCycles /\ attempts' \in 0 .. MaxAttempts
    BY <1>1 DEF Restart, CountersOK
  <2>. QED
    BY <1>1, <2>1, CycleKeeps DEF Restart, CountersOK
<1>2. CASE cycles = 0
  BY <1>2, SdpFailedKeeps DEF Restart, CountersOK
<1>. QED
  BY <1>1, <1>2 DEF CountersOK

LEMMA RetryKeeps ==
    ASSUME CountersOK, hPhase # "idle", Retry
    PROVE  CountersOK' /\ hPhase' \in {"discovering", "polling", "idle"}
<1>1. CASE retries > 0
  <2>1. CASE started
    BY <1>1, <2>1 DEF Retry, CountersOK, Budget
  <2>2. CASE ~started
    BY <1>1, <2>2 DEF Retry, CountersOK, Budget, counters
  <2>. QED
    BY <2>1, <2>2
<1>2. CASE retries = 0
  <2>1. MaxRequests \in 0 .. MaxRequests
    OBVIOUS
  <2>. QED
    BY <1>2, <2>1, SdpFailedKeeps DEF Retry
<1>. QED
  BY <1>1, <1>2 DEF CountersOK

\* A datagram is taken from the queue.
LEMMA ArrivesKeeps ==
    ASSUME HandlerInv, NEW kinds, Arrives(kinds)
    PROVE  /\ backlog' \in Seq(Datagrams) /\ Len(backlog') <= Backlog
           /\ hPhase = "discovering" /\ evPhase = "none"
  BY DEF HandlerInv, HandlerTypeOK, SessionOwned, Arrives

\* Where a step of the handler without a session leads.
LEMMA Undisturbed ==
    ASSUME HandlerInv, CountersOK', evPhase' = "none",
           hPhase' \in {"discovering", "polling", "idle", "over", "crashed"},
           backlog' \in Seq(Datagrams) /\ Len(backlog') <= Backlog,
           supported' \subseteq Protocols, protocol' = protocol, started' = started
    PROVE  HandlerInv'
  BY DEF HandlerInv, HandlerTypeOK, Budget, SessionOwned, CountersOK

LEMMA InitIInv == Init => IInv
<1>. SUFFICES ASSUME Init PROVE IInv
  OBVIOUS
<1>1. NewVehicleSession \in VehicleSession
  BY DEF NewVehicleSession, VehicleSession
<1>2. Typed
  BY <1>1, VehicleConstants, Members DEF Init, InitEv, Typed
<1>3. EvTypeOK(States, Requests)
  BY <1>2, Names DEF EvTypeOK, Typed
<1>4. SessionInv
  BY <1>3 DEF Init, InitEv, SessionInv, PilotKept, PreparedKept, TimerOwned
<1>5. HandlerInv
  BY DEF Init, InitEv, InitHandler, HandlerInv, HandlerTypeOK, Budget, SessionOwned, Datagrams
<1>. QED
  BY <1>4, <1>5 DEF IInv

LEMMA NextIInv == IInv /\ [Next]_vars => IInv'
<1>. SUFFICES ASSUME IInv, [Next]_vars PROVE IInv'
  OBVIOUS
<1>inv. SessionInv /\ HandlerInv
  BY DEF IInv
<1>counters. CountersOK
  BY <1>inv DEF HandlerInv, HandlerTypeOK, CountersOK
<1>queue. /\ backlog \in Seq(Datagrams) /\ Len(backlog) <= Backlog
          /\ supported \subseteq Protocols
          /\ evPhase # "none" <=> hPhase = "session"
          /\ started \in BOOLEAN
  BY <1>inv DEF HandlerInv, HandlerTypeOK, SessionOwned
<1>start. ASSUME Start PROVE IInv'
  <2>1. evPhase = "none" /\ UNCHANGED <<started, backlog, supported, protocol, evVars>>
    BY <1>start, <1>queue DEF Start
  <2>2. CountersOK' /\ hPhase' \in {"discovering", "polling", "idle"}
    BY <1>start, <1>counters, RestartKeeps DEF Start
  <2>3. HandlerInv'
    BY <1>inv, <1>queue, <2>1, <2>2, Undisturbed DEF evVars
  <2>. QED
    BY <1>inv, <2>1, <2>3, SessionRests DEF IInv
<1>timeout. ASSUME SdpTimeout PROVE IInv'
  <2>1. evPhase = "none" /\ UNCHANGED <<started, backlog, supported, protocol, evVars>>
    BY <1>timeout, <1>queue DEF SdpTimeout
  <2>2. CountersOK' /\ hPhase' \in {"discovering", "polling", "idle"}
    BY <1>timeout, <1>counters, RetryKeeps DEF SdpTimeout
  <2>3. HandlerInv'
    BY <1>inv, <1>queue, <2>1, <2>2, Undisturbed DEF evVars
  <2>. QED
    BY <1>inv, <2>1, <2>3, SessionRests DEF IInv
<1>bad. ASSUME BadResponse PROVE IInv'
  <2>1. evPhase = "none" /\ UNCHANGED <<started, supported, protocol, evVars>>
        /\ backlog' \in Seq(Datagrams) /\ Len(backlog') <= Backlog
    BY <1>bad, <1>inv, ArrivesKeeps DEF BadResponse
  <2>2. CountersOK' /\ hPhase' \in {"discovering", "polling", "idle"}
    BY <1>bad, <1>counters, RestartKeeps DEF BadResponse
  <2>3. HandlerInv'
    BY <1>inv, <1>queue, <2>1, <2>2, Undisturbed DEF evVars
  <2>. QED
    BY <1>inv, <2>1, <2>3, SessionRests DEF IInv
<1>undecodable. ASSUME Undecodable \/ Wireless PROVE IInv'
  <2>1. evPhase = "none" /\ UNCHANGED <<counters, started, supported, protocol, evVars>>
        /\ backlog' \in Seq(Datagrams) /\ Len(backlog') <= Backlog
        /\ hPhase = "discovering" /\ hPhase' \in {"idle", "crashed"}
    BY <1>undecodable, <1>inv, ArrivesKeeps DEF Undecodable, Wireless
  <2>2. CountersOK'
    BY <1>counters, <2>1 DEF CountersOK, Budget, counters
  <2>3. HandlerInv'
    BY <1>inv, <1>queue, <2>1, <2>2, Undisturbed DEF evVars
  <2>. QED
    BY <1>inv, <2>1, <2>3, SessionRests DEF IInv
<1>response. ASSUME NEW isTls \in BOOLEAN, NEW connects \in {"yes", "no", "breaks"},
                    Response(isTls, connects)
             PROVE  IInv'
  <2>1. evPhase = "none" /\ UNCHANGED <<counters, started>>
        /\ backlog' \in Seq(Datagrams) /\ Len(backlog') <= Backlog
        /\ hPhase = "discovering"
    BY <1>response, <1>inv, ArrivesKeeps DEF Response
  <2>2. supported' \subseteq Protocols
    BY <1>response, <1>queue DEF Response, Offered
  <2>3. CASE hPhase' \in {"idle", "crashed"}
    <3>1. protocol' = protocol /\ UNCHANGED evVars
      BY <1>response, <2>3 DEF Response
    <3>2. CountersOK'
      BY <1>counters, <2>1, <2>3 DEF CountersOK, Budget, counters
    <3>3. HandlerInv'
      BY <1>inv, <2>1, <2>2, <2>3, <3>1, <3>2, Undisturbed DEF evVars
    <3>. QED
      BY <1>inv, <3>1, <3>3, SessionRests DEF IInv
  <2>4. CASE hPhase' = "session"
    <3>1. /\ ~Mismatch(isTls) /\ supported' = Offered(isTls) /\ protocol' = None
          /\ Begins(isTls)
      BY <1>response, <2>4 DEF Response
    <3>2. SessionInv'
      BY <1>inv, <2>1, <3>1, BeginsStep
    <3>3. /\ evPhase' = "waiting" /\ tls' = isTls /\ vehicle' = vehicle
          /\ vehicle.enforceTls => isTls
          /\ isTls => vehicle.useTls /\ "din" \notin supported'
      BY <3>1 DEF Begins, Mismatch, Offered
    <3>4. SessionOwned'
      BY <2>4, <3>1, <3>3 DEF SessionOwned
    <3>5. HandlerTypeOK' /\ Budget'
      BY <1>counters, <1>queue, <2>1, <2>2, <2>4, <3>1 DEF CountersOK, HandlerTypeOK, Budget, counters
    <3>. QED
      BY <3>2, <3>4, <3>5 DEF IInv, HandlerInv
  <2>. QED
    BY <1>response, <2>3, <2>4 DEF Response
<1>ended. ASSUME SessionEnded PROVE IInv'
  <2>1. /\ evPhase' = "none" /\ evPhase = "ended" /\ hPhase = "session"
        /\ UNCHANGED <<started, backlog, supported, protocol>>
        /\ UNCHANGED <<vehicle, evState, request, built, clock, tls, pilot, full, outcome, ev>>
    BY <1>ended DEF SessionEnded
  <2>2. SessionInv'
    <3>1. Typed'
      BY <1>inv, <2>1, Unfolded DEF SessionInv, Typed, clock
    <3>2. PilotKept' /\ PreparedKept' /\ TimerOwned'
      BY <1>inv, <2>1 DEF SessionInv, PilotKept, PreparedKept, TimerOwned
    <3>. QED
      BY <3>1, <3>2, Folded DEF SessionInv
  <2>3. CountersOK' /\ hPhase' \in {"discovering", "polling", "idle", "over"}
    <3>1. CASE outcome = "success"
      BY <1>ended, <1>counters, <3>1 DEF SessionEnded, CountersOK, Budget
    <3>2. CASE outcome = "failure"
      BY <1>ended, <1>counters, <3>2, RestartKeeps DEF SessionEnded
    <3>. QED
      BY <1>ended, <3>1, <3>2 DEF SessionEnded
  <2>4. HandlerInv'
    BY <1>inv, <1>queue, <2>1, <2>3, Undisturbed
  <2>. QED
    BY <2>2, <2>4 DEF IInv
<1>sap. ASSUME NEW p \in Protocols, SupportedAppProtocol(p) PROVE IInv'
  <2>1. SessionInv' /\ WithinSession
    BY <1>inv, <1>sap, SapStep
  <2>2. UNCHANGED <<hPhase, counters, started, backlog, supported>>
        /\ (protocol' = protocol \/ protocol' \in supported)
    BY <1>sap DEF SupportedAppProtocol
  <2>3. HandlerInv'
    BY <1>inv, <1>queue, <2>1, <2>2
    DEF HandlerInv, HandlerTypeOK, Budget, SessionOwned, WithinSession, counters
  <2>. QED
    BY <2>1, <2>3 DEF IInv
<1>machine. ASSUME \/ protocol = "din" /\ Din!Next
                   \/ protocol = "v2" /\ V2!Next
                   \/ protocol = "v20" /\ V20!Next
                   \/ Refused
                   \/ Broken,
                   UNCHANGED hVars
            PROVE  IInv'
  <2>1. protocol' = protocol
    BY <1>machine DEF hVars
  <2>2. SessionInv' /\ WithinSession
    BY <1>inv, <1>machine, <2>1, DinStep, V2Step, V20Step, SharedStep
  <2>. QED
    BY <1>inv, <1>machine, <2>2, HandlerRests DEF IInv
<1>stopped. ASSUME Stopped, UNCHANGED hVars PROVE IInv'
  <2>1. SessionInv'
    BY <1>inv, <1>stopped, StoppedStep
  <2>2. HandlerInv'
    BY <1>inv, <1>stopped
    DEF HandlerInv, HandlerTypeOK, Budget, SessionOwned, Stopped, hVars, counters
  <2>. QED
    BY <2>1, <2>2 DEF IInv
<1>elapse. ASSUME Elapse, UNCHANGED hVars PROVE IInv'
  <2>1. SessionInv' /\ WithinSession
    BY <1>inv, <1>elapse, ElapseStep DEF hVars
  <2>. QED
    BY <1>inv, <1>elapse, <2>1, HandlerRests DEF IInv
<1>datagram. ASSUME NEW kind \in Datagrams, Datagram(kind) PROVE IInv'
  <2>1. backlog' \in Seq(Datagrams) /\ Len(backlog') <= Backlog
    BY <1>datagram, <1>queue DEF Datagram
  <2>2. UNCHANGED <<hPhase, counters, started, supported, protocol, evVars>>
    BY <1>datagram DEF Datagram
  <2>3. HandlerInv'
    BY <1>inv, <2>1, <2>2 DEF HandlerInv, HandlerTypeOK, Budget, SessionOwned, counters, evVars
  <2>. QED
    BY <1>inv, <2>2, <2>3, SessionRests DEF IInv
<1>udpError. ASSUME UdpError PROVE IInv'
  <2>1. started' = FALSE /\ UNCHANGED <<hPhase, counters, backlog, supported, protocol, evVars>>
    BY <1>udpError DEF UdpError
  <2>2. HandlerInv'
    BY <1>inv, <2>1 DEF HandlerInv, HandlerTypeOK, Budget, SessionOwned, counters, evVars
  <2>. QED
    BY <1>inv, <2>1, <2>2, SessionRests DEF IInv
<1>readError. ASSUME ReadError, UNCHANGED hVars PROVE IInv'
  <2>1. SessionInv'
    BY <1>inv, <1>readError, ReadErrorStep
  <2>2. HandlerInv'
    BY <1>inv, <1>readError
    DEF HandlerInv, HandlerTypeOK, Budget, SessionOwned, ReadError, hVars, counters
  <2>. QED
    BY <2>1, <2>2 DEF IInv
<1>stutter. ASSUME UNCHANGED vars PROVE IInv'
  <2>1. UNCHANGED evVars /\ UNCHANGED hVars
    BY <1>stutter DEF vars
  <2>2. HandlerInv'
    BY <1>inv, <2>1
    DEF HandlerInv, HandlerTypeOK, Budget, SessionOwned, hVars, counters, evVars
  <2>. QED
    BY <1>inv, <2>1, <2>2, SessionRests DEF IInv, hVars
<1>. QED
  BY <1>start, <1>timeout, <1>bad, <1>undecodable, <1>response, <1>ended, <1>sap, <1>machine,
     <1>stopped, <1>elapse, <1>datagram, <1>udpError, <1>readError, <1>stutter
  DEF Next, Discover, Proceed

-----------------------------------------------------------------------------
(* The theorems *)

\* The inductive invariant holds in every reachable state of the vehicle.
THEOREM EvccInvariant == Spec => []IInv
  BY InitIInv, NextIInv, PTL DEF Spec

\* However timeouts, bad answers, failed sessions and automatic restarts set the
\* counters back, a cycle of the discovery sends no more than its requests, and
\* every variable keeps its type.
THEOREM EvccRequestsBounded == Spec => []RequestsBounded
<1>1. IInv => RequestsBounded
  BY DEF IInv, SessionInv, HandlerInv, Budget, RequestsBounded, TypeOK
<1>. QED
  BY <1>1, EvccInvariant, PTL

\* No answer to a discovery, late or not, leads to a session that is less secure
\* than configured, or to DIN SPEC 70121 over TLS.
THEOREM EvccSecuredAsSet == Spec => []SecuredAsSet
<1>1. IInv => SecuredAsSet
  BY DEF IInv, HandlerInv, SessionOwned, SecuredAsSet, Protocols
<1>. QED
  BY <1>1, EvccInvariant, PTL

\* In each protocol the control pilot is set only between the agreement on the
\* parameters and the end of charging, whatever the station answers.
THEOREM EvccPilotFollowsSession == Spec => []PilotFollowsSession
<1>1. IInv => PilotFollowsSession
  BY Unfolded DEF IInv, SessionInv, PilotKept, PilotFollowsSession, Energized, Typed
<1>. QED
  BY <1>1, EvccInvariant, PTL

\* No renegotiation, receipt or end of charging leads a vehicle to demand DC
\* current over a cable that was not reported safe and brought to its voltage.
THEOREM EvccCheckedBeforeDemand == Spec => []CheckedBeforeDemand
<1>1. IInv => CheckedBeforeDemand
  BY DEF IInv, SessionInv, PreparedKept, CheckedBeforeDemand
<1>. QED
  BY <1>1, EvccInvariant, PTL

\* No state of ISO 15118-2 and -20 inherits the timer of another one.
THEOREM EvccOwnTimer == Spec => []OwnTimer
<1>1. IInv => OwnTimer
  BY DEF IInv, SessionInv, TimerOwned, OwnTimer
<1>. QED
  BY <1>1, EvccInvariant, PTL
=============================================================================
