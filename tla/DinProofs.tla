------------------------------ MODULE DinProofs ------------------------------
(***************************************************************************)
(* Proofs about DIN SPEC 70121.  The first part is about the station's     *)
(* state machine (SeccDin) against any vehicle: every reachable state is   *)
(* well typed, the charging loop is entered only prepared, and the state   *)
(* machine implements ChargingSession, for any set of energy modes and any *)
(* order of requests.  The second part is about station and vehicle        *)
(* together (DinCharging).                                                 *)
(*                                                                         *)
(* The station keeps no record of what was authorized, tested or           *)
(* pre-charged.  It follows from the class of the current state and from   *)
(* whether its object has answered; the inductive invariant says how.      *)
(***************************************************************************)
EXTENDS DinCharging, TLAPS

\* The states that are entered only after the authorization.
AfterAuthorization ==
    {"ChargeParameterDiscovery", "CableCheck", "PreCharge", "PowerDelivery",
     "CurrentDemand", "WeldingDetection"}

\* The authorization is remembered by where the session stands, and the output
\* is live only with it; a read error leaves it live.
AuthorizationKept ==
    /\ (phase = "reading" /\ state \in AfterAuthorization) => sess.accepted
    /\ evse.power # "off" => (phase \in {"reading", "dead"} /\ sess.accepted)

\* Past the cable check the test has passed; past the pre-charge, an object of
\* which has answered, the cable has the vehicle's voltage.
PreparedKept ==
    /\ (phase = "reading" /\ state \in {"PreCharge", "PowerDelivery", "CurrentDemand"})
           => sess.isolated
    /\ (phase = "reading" /\ state \in {"PowerDelivery", "CurrentDemand"}) => sess.precharged
    /\ (phase = "reading" /\ state = "PreCharge" /\ ~obj.expecting) => sess.precharged

\* Charging is announced before the loop is entered, and taken back with its end.
HlcKept == (phase = "reading" /\ state = "CurrentDemand") => evse.hlc

\* The contactors are asked for only by an object that has started the test.
ContactorsTested == obj.contactors => obj.checked

IInv ==
    /\ TypeOK
    /\ AuthorizationKept
    /\ PreparedKept
    /\ HlcKept
    /\ ContactorsTested

\* The requests that a state accepts besides its own, once it has answered one.
Follows(s, type) ==
    \/ s = "PreCharge" /\ type = "PowerDelivery"
    \/ s = "PowerDelivery" /\ type \in {"SessionStop", "WeldingDetection"}
    \/ s = "CurrentDemand" /\ type = "PowerDelivery"
    \/ s = "WeldingDetection" /\ type = "SessionStop"

\* What check_msg accepts, with the lists of the states spelled out.
LEMMA AcceptedTypes ==
    ASSUME state \in States, obj \in Flags, NEW type, Accepts(type)
    PROVE  type = state \/ (~obj.expecting /\ Follows(state, type))
<1>0. PICK i \in 1 .. Len(Expected[state]) :
          Expected[state][i] = type /\ (obj.expecting => i = 1)
  BY DEF Accepts, AcceptedBy
<1>1. CASE state = "SupportedAppProtocol"
  BY <1>0, <1>1 DEF Expected, Follows, Flags
<1>2. CASE state = "SessionSetup"
  BY <1>0, <1>2 DEF Expected, Follows, Flags
<1>3. CASE state = "ServiceDiscovery"
  BY <1>0, <1>3 DEF Expected, Follows, Flags
<1>4. CASE state = "ServicePaymentSelection"
  BY <1>0, <1>4 DEF Expected, Follows, Flags
<1>5. CASE state = "ContractAuthentication"
  BY <1>0, <1>5 DEF Expected, Follows, Flags
<1>6. CASE state = "ChargeParameterDiscovery"
  BY <1>0, <1>6 DEF Expected, Follows, Flags
<1>7. CASE state = "CableCheck"
  BY <1>0, <1>7 DEF Expected, Follows, Flags
<1>8. CASE state = "PreCharge"
  BY <1>0, <1>8 DEF Expected, Follows, Flags
<1>9. CASE state = "PowerDelivery"
  BY <1>0, <1>9 DEF Expected, Follows, Flags
<1>10. CASE state = "CurrentDemand"
  BY <1>0, <1>10 DEF Expected, Follows, Flags
<1>11. CASE state = "WeldingDetection"
  BY <1>0, <1>11 DEF Expected, Follows, Flags
<1>12. CASE state = "SessionStop"
  BY <1>0, <1>12 DEF Expected, Follows, Flags
<1>. QED
  BY <1>1, <1>2, <1>3, <1>4, <1>5, <1>6, <1>7, <1>8, <1>9, <1>10, <1>11, <1>12
  DEF States, Expected

\* The end of a session keeps the invariant.
LEMMA EndKeeps ==
    ASSUME IInv, NEW a \in {"terminate", "pause"}, NEW r \in {"ok", "failed", "none"},
           NEW e \in Evse, Stops(a, r, e), last' \in States \cup {None},
           UNCHANGED modes, sess' \in Session
    PROVE  IInv'
<1>1. phase' = "stopping" /\ evse' \in Evse /\ evse'.power = "off"
  BY DEF Stops, StopCharger, Evse, Uses
<1>2. TypeOK'
  BY <1>1 DEF IInv, TypeOK, LoopTypeOK, Stops
<1>3. ContactorsTested'
  BY DEF IInv, ContactorsTested, Stops
<1>. QED
  BY <1>1, <1>2, <1>3 DEF IInv, AuthorizationKept, PreparedKept, HlcKept

LEMMA InitIInv == Init => IInv
<1>. SUFFICES ASSUME Init PROVE IInv
  OBVIOUS
<1>1. TypeOK
  BY DEF Init, InitLoop, TypeOK, LoopTypeOK, States, Expected, Fresh, Flags, Evse, Uses,
     NewSession, Session
<1>. QED
  BY <1>1 DEF Init, InitLoop, IInv, AuthorizationKept, PreparedKept, HlcKept, ContactorsTested,
     Fresh

LEMMA NextIInv == IInv /\ [Next]_vars => IInv'
<1>. SUFFICES ASSUME IInv, [Next]_vars PROVE IInv'
  OBVIOUS
<1>types. /\ phase \in {"idle", "reading", "stopping", "dead"} /\ state \in States /\ obj \in Flags
          /\ last \in States \cup {None} /\ reply \in {"ok", "failed", "none"}
          /\ stopAction \in {"terminate", "pause"} /\ evse \in Evse
          /\ modes \subseteq EnergyModes /\ sess \in Session
  BY DEF IInv, TypeOK, LoopTypeOK
<1>names. States = {"SupportedAppProtocol", "SessionSetup", "ServiceDiscovery",
                    "ServicePaymentSelection", "ContractAuthentication",
                    "ChargeParameterDiscovery", "CableCheck", "PreCharge", "PowerDelivery",
                    "CurrentDemand", "WeldingDetection", "SessionStop"}
  BY DEF States, Expected
<1>flags. /\ Fresh \in Flags /\ ~Fresh.contactors /\ Fresh.expecting
          /\ \A t : /\ Handler(t) \in Flags
                    /\ Handler(t).contactors => Handler(t).checked
                    /\ [Handler(t) EXCEPT !.expecting = FALSE] \in Flags
                    /\ ~[Handler(t) EXCEPT !.expecting = FALSE].expecting
                    /\ [Handler(t) EXCEPT !.expecting = FALSE].contactors
                           => [Handler(t) EXCEPT !.expecting = FALSE].checked
  <2>1. Fresh \in Flags /\ ~Fresh.contactors /\ Fresh.expecting
    BY DEF Fresh, Flags
  <2>2. ASSUME NEW t PROVE Handler(t) \in Flags /\ (Handler(t).contactors => Handler(t).checked)
    BY <1>types, <2>1 DEF Handler, IInv, ContactorsTested
  <2>3. ASSUME NEW o \in Flags, o.contactors => o.checked
        PROVE  /\ [o EXCEPT !.expecting = FALSE] \in Flags
               /\ ~[o EXCEPT !.expecting = FALSE].expecting
               /\ [o EXCEPT !.expecting = FALSE].contactors
                      => [o EXCEPT !.expecting = FALSE].checked
    BY <2>3 DEF Flags
  <2>. QED
    BY <2>1, <2>2, <2>3
<1>accepted. \A type : Accepts(type) => type = state \/ (~obj.expecting /\ Follows(state, type))
  BY <1>types, AcceptedTypes
<1>kept. UNCHANGED modes
  BY DEF Next, vars
<1>connect. ASSUME Connect PROVE IInv'
  <2>1. phase' = "reading" /\ state' = "SupportedAppProtocol" /\ obj' = Fresh /\ evse' = evse
        /\ last' = None /\ reply' = "ok" /\ stopAction' = "terminate" /\ phase = "idle"
    BY <1>connect DEF Connect, StartLoop
  <2>2. sess' \in Session
    BY <1>connect DEF Connect, NewSession, Session
  <2>3. TypeOK'
    BY <1>types, <1>names, <1>flags, <1>kept, <2>1, <2>2 DEF TypeOK, LoopTypeOK
  <2>. QED
    BY <1>flags, <2>1, <2>3 DEF IInv, AuthorizationKept, PreparedKept, HlcKept, ContactorsTested,
       AfterAuthorization
<1>disconnect. ASSUME Disconnect PROVE IInv'
  <2>1. TypeOK'
    BY <1>disconnect, <1>types, <1>kept DEF Disconnect, EndLoop, TypeOK, LoopTypeOK
  <2>. QED
    BY <1>disconnect, <2>1 DEF Disconnect, EndLoop, IInv, AuthorizationKept, PreparedKept,
       HlcKept, ContactorsTested
<1>lost. ASSUME ConnectionLost PROVE IInv'
  BY <1>lost, <1>types, <1>kept, EndKeeps DEF ConnectionLost, Lost
<1>error. ASSUME ConnectionError PROVE IInv'
  <2>1. TypeOK'
    BY <1>error, <1>types, <1>kept DEF ConnectionError, ReadError, TypeOK, LoopTypeOK
  <2>. QED
    BY <1>error, <2>1 DEF ConnectionError, ReadError, IInv, AuthorizationKept, PreparedKept,
       HlcKept, ContactorsTested
<1>bad. ASSUME BadMessage PROVE IInv'
  BY <1>bad, <1>types, <1>kept, EndKeeps DEF BadMessage, Undecodable, Raises
<1>refuse. ASSUME NEW type \in Requests, Refuse(type) PROVE IInv'
  <2>1. last' \in States \cup {None}
    BY <1>refuse DEF Refuse, Requests
  <2>. QED
    BY <1>refuse, <1>types, <1>kept, <2>1, EndKeeps DEF Refuse, Fails
<1>sap. ASSUME SupportedAppProtocol PROVE IInv'
  <2>0. phase = "reading" /\ Accepts("SupportedAppProtocol") /\ last' = "SupportedAppProtocol" /\ "SupportedAppProtocol" \in States
    BY <1>sap, <1>names DEF SupportedAppProtocol, Receive
  <2>1. "SupportedAppProtocol" = state \/ (~obj.expecting /\ Follows(state, "SupportedAppProtocol"))
    BY <2>0, <1>accepted
  <2>2. sess' \in Session
    BY <1>sap, <1>types DEF SupportedAppProtocol, Session
  <2>3. CASE phase' = "stopping"
    BY <1>sap, <1>types, <1>kept, <2>0, <2>2, <2>3, EndKeeps
    DEF SupportedAppProtocol, Fails, Raises, Goes, Stays
  <2>4. CASE phase' = "reading"
    <3>1. TypeOK'
      BY <1>sap, <1>types, <1>names, <1>flags, <1>kept, <2>0, <2>2, <2>4
      DEF SupportedAppProtocol, Goes, Stays, Stops, Fails, Raises, TypeOK, LoopTypeOK
    <3>2. ContactorsTested'
      BY <1>sap, <1>flags, <2>0, <2>4
      DEF SupportedAppProtocol, Goes, Stays, Stops, Fails, Raises, ContactorsTested
    <3>. QED
      BY <1>sap, <1>types, <1>flags, <2>0, <2>1, <2>2, <2>4, <3>1, <3>2
      DEF SupportedAppProtocol, Goes, Stays, Stops, Fails, Raises, Follows, Session, IInv, AuthorizationKept,
         PreparedKept, HlcKept, AfterAuthorization
  <2>. QED
    BY <1>sap, <2>0, <2>3, <2>4 DEF SupportedAppProtocol, Goes, Stays, Stops, Fails, Raises
<1>setup. ASSUME SessionSetup PROVE IInv'
  <2>0. phase = "reading" /\ Accepts("SessionSetup") /\ last' = "SessionSetup" /\ "SessionSetup" \in States
    BY <1>setup, <1>names DEF SessionSetup, Receive
  <2>1. "SessionSetup" = state \/ (~obj.expecting /\ Follows(state, "SessionSetup"))
    BY <2>0, <1>accepted
  <2>2. sess' \in Session
    BY <1>setup, <1>types DEF SessionSetup, Session
  <2>3. CASE phase' = "stopping"
    BY <1>setup, <1>types, <1>kept, <2>0, <2>2, <2>3, EndKeeps
    DEF SessionSetup, Fails, Raises, Goes, Stays
  <2>4. CASE phase' = "reading"
    <3>1. TypeOK'
      BY <1>setup, <1>types, <1>names, <1>flags, <1>kept, <2>0, <2>2, <2>4
      DEF SessionSetup, Goes, Stays, Stops, Fails, Raises, TypeOK, LoopTypeOK
    <3>2. ContactorsTested'
      BY <1>setup, <1>flags, <2>0, <2>4
      DEF SessionSetup, Goes, Stays, Stops, Fails, Raises, ContactorsTested
    <3>. QED
      BY <1>setup, <1>types, <1>flags, <2>0, <2>1, <2>2, <2>4, <3>1, <3>2
      DEF SessionSetup, Goes, Stays, Stops, Fails, Raises, Follows, Session, IInv, AuthorizationKept,
         PreparedKept, HlcKept, AfterAuthorization
  <2>. QED
    BY <1>setup, <2>0, <2>3, <2>4 DEF SessionSetup, Goes, Stays, Stops, Fails, Raises
<1>discovery. ASSUME ServiceDiscovery PROVE IInv'
  <2>0. phase = "reading" /\ Accepts("ServiceDiscovery") /\ last' = "ServiceDiscovery" /\ "ServiceDiscovery" \in States
    BY <1>discovery, <1>names DEF ServiceDiscovery, Receive
  <2>1. "ServiceDiscovery" = state \/ (~obj.expecting /\ Follows(state, "ServiceDiscovery"))
    BY <2>0, <1>accepted
  <2>2. sess' \in Session
    BY <1>discovery, <1>types DEF ServiceDiscovery, Session
  <2>3. CASE phase' = "stopping"
    BY <1>discovery, <1>types, <1>kept, <2>0, <2>2, <2>3, EndKeeps
    DEF ServiceDiscovery, Fails, Raises, Goes, Stays
  <2>4. CASE phase' = "reading"
    <3>1. TypeOK'
      BY <1>discovery, <1>types, <1>names, <1>flags, <1>kept, <2>0, <2>2, <2>4
      DEF ServiceDiscovery, Goes, Stays, Stops, Fails, Raises, TypeOK, LoopTypeOK
    <3>2. ContactorsTested'
      BY <1>discovery, <1>flags, <2>0, <2>4
      DEF ServiceDiscovery, Goes, Stays, Stops, Fails, Raises, ContactorsTested
    <3>. QED
      BY <1>discovery, <1>types, <1>flags, <2>0, <2>1, <2>2, <2>4, <3>1, <3>2
      DEF ServiceDiscovery, Goes, Stays, Stops, Fails, Raises, Follows, Session, IInv, AuthorizationKept,
         PreparedKept, HlcKept, AfterAuthorization
  <2>. QED
    BY <1>discovery, <2>0, <2>3, <2>4 DEF ServiceDiscovery, Goes, Stays, Stops, Fails, Raises
<1>payment. ASSUME NEW external \in BOOLEAN, NEW services \in BOOLEAN,
              ServicePaymentSelection(external, services) PROVE IInv'
  <2>0. phase = "reading" /\ Accepts("ServicePaymentSelection") /\ last' = "ServicePaymentSelection" /\ "ServicePaymentSelection" \in States
    BY <1>payment, <1>names DEF ServicePaymentSelection, Receive
  <2>1. "ServicePaymentSelection" = state \/ (~obj.expecting /\ Follows(state, "ServicePaymentSelection"))
    BY <2>0, <1>accepted
  <2>2. sess' \in Session
    BY <1>payment, <1>types DEF ServicePaymentSelection, Session
  <2>3. CASE phase' = "stopping"
    BY <1>payment, <1>types, <1>kept, <2>0, <2>2, <2>3, EndKeeps
    DEF ServicePaymentSelection, Fails, Raises, Goes, Stays
  <2>4. CASE phase' = "reading"
    <3>1. TypeOK'
      BY <1>payment, <1>types, <1>names, <1>flags, <1>kept, <2>0, <2>2, <2>4
      DEF ServicePaymentSelection, Goes, Stays, Stops, Fails, Raises, TypeOK, LoopTypeOK
    <3>2. ContactorsTested'
      BY <1>payment, <1>flags, <2>0, <2>4
      DEF ServicePaymentSelection, Goes, Stays, Stops, Fails, Raises, ContactorsTested
    <3>. QED
      BY <1>payment, <1>types, <1>flags, <2>0, <2>1, <2>2, <2>4, <3>1, <3>2
      DEF ServicePaymentSelection, Goes, Stays, Stops, Fails, Raises, Follows, Session, IInv, AuthorizationKept,
         PreparedKept, HlcKept, AfterAuthorization
  <2>. QED
    BY <1>payment, <2>0, <2>3, <2>4 DEF ServicePaymentSelection, Goes, Stays, Stops, Fails, Raises
<1>authentication. ASSUME NEW status, ContractAuthentication(status) PROVE IInv'
  <2>0. phase = "reading" /\ Accepts("ContractAuthentication") /\ last' = "ContractAuthentication" /\ "ContractAuthentication" \in States
    BY <1>authentication, <1>names DEF ContractAuthentication, Receive
  <2>1. "ContractAuthentication" = state \/ (~obj.expecting /\ Follows(state, "ContractAuthentication"))
    BY <2>0, <1>accepted
  <2>2. sess' \in Session
    BY <1>authentication, <1>types DEF ContractAuthentication, Session
  <2>3. CASE phase' = "stopping"
    BY <1>authentication, <1>types, <1>kept, <2>0, <2>2, <2>3, EndKeeps
    DEF ContractAuthentication, Authorized, Fails, Raises, Goes, Stays
  <2>4. CASE phase' = "reading"
    <3>1. TypeOK'
      BY <1>authentication, <1>types, <1>names, <1>flags, <1>kept, <2>0, <2>2, <2>4
      DEF ContractAuthentication, Authorized, Goes, Stays, Stops, Fails, Raises, TypeOK, LoopTypeOK
    <3>2. ContactorsTested'
      BY <1>authentication, <1>flags, <2>0, <2>4
      DEF ContractAuthentication, Authorized, Goes, Stays, Stops, Fails, Raises, ContactorsTested
    <3>. QED
      BY <1>authentication, <1>types, <1>flags, <2>0, <2>1, <2>2, <2>4, <3>1, <3>2
      DEF ContractAuthentication, Authorized, Goes, Stays, Stops, Fails, Raises, Follows, Session, IInv, AuthorizationKept,
         PreparedKept, HlcKept, AfterAuthorization
  <2>. QED
    BY <1>authentication, <2>0, <2>3, <2>4 DEF ContractAuthentication, Goes, Stays, Stops, Fails, Raises
<1>parameters. ASSUME NEW mode, NEW scheduled \in BOOLEAN,
              ChargeParameterDiscovery(mode, scheduled) PROVE IInv'
  <2>0. phase = "reading" /\ Accepts("ChargeParameterDiscovery") /\ last' = "ChargeParameterDiscovery" /\ "ChargeParameterDiscovery" \in States
    BY <1>parameters, <1>names DEF ChargeParameterDiscovery, Receive
  <2>1. "ChargeParameterDiscovery" = state \/ (~obj.expecting /\ Follows(state, "ChargeParameterDiscovery"))
    BY <2>0, <1>accepted
  <2>2. sess' \in Session
    BY <1>parameters, <1>types DEF ChargeParameterDiscovery, Session
  <2>3. CASE phase' = "stopping"
    BY <1>parameters, <1>types, <1>kept, <2>0, <2>2, <2>3, EndKeeps
    DEF ChargeParameterDiscovery, AfterParameters, Fails, Raises, Goes, Stays
  <2>4. CASE phase' = "reading"
    <3>1. TypeOK'
      BY <1>parameters, <1>types, <1>names, <1>flags, <1>kept, <2>0, <2>2, <2>4
      DEF ChargeParameterDiscovery, AfterParameters, Goes, Stays, Stops, Fails, Raises, TypeOK, LoopTypeOK
    <3>2. ContactorsTested'
      BY <1>parameters, <1>flags, <2>0, <2>4
      DEF ChargeParameterDiscovery, AfterParameters, Goes, Stays, Stops, Fails, Raises, ContactorsTested
    <3>. QED
      BY <1>parameters, <1>types, <1>flags, <2>0, <2>1, <2>2, <2>4, <3>1, <3>2
      DEF ChargeParameterDiscovery, AfterParameters, Goes, Stays, Stops, Fails, Raises, Follows, Session, IInv, AuthorizationKept,
         PreparedKept, HlcKept, AfterAuthorization
  <2>. QED
    BY <1>parameters, <2>0, <2>3, <2>4 DEF ChargeParameterDiscovery, Goes, Stays, Stops, Fails, Raises
<1>precharge. ASSUME NEW fine \in BOOLEAN, PreCharge(fine) PROVE IInv'
  <2>0. phase = "reading" /\ Accepts("PreCharge") /\ last' = "PreCharge" /\ "PreCharge" \in States
    BY <1>precharge, <1>names DEF PreCharge, Receive
  <2>1. "PreCharge" = state \/ (~obj.expecting /\ Follows(state, "PreCharge"))
    BY <2>0, <1>accepted
  <2>t. [evse EXCEPT !.power = "precharge"] \in Evse /\ [evse EXCEPT !.power = "precharge"].hlc = evse.hlc
    BY <1>types DEF Evse, Uses
  <2>2. sess' \in Session
    BY <1>precharge, <1>types DEF PreCharge, Session
  <2>3. CASE phase' = "stopping"
    BY <1>precharge, <1>types, <1>kept, <2>0, <2>2, <2>3, <2>t, EndKeeps
    DEF PreCharge, Fails, Raises, Goes, Stays
  <2>4. CASE phase' = "reading"
    <3>1. TypeOK'
      BY <1>precharge, <1>types, <1>names, <1>flags, <1>kept, <2>0, <2>2, <2>4, <2>t
      DEF PreCharge, Goes, Stays, Stops, Fails, Raises, TypeOK, LoopTypeOK
    <3>2. ContactorsTested'
      BY <1>precharge, <1>flags, <2>0, <2>4
      DEF PreCharge, Goes, Stays, Stops, Fails, Raises, ContactorsTested
    <3>. QED
      BY <1>precharge, <1>types, <1>flags, <2>0, <2>1, <2>2, <2>4, <3>1, <3>2, <2>t
      DEF PreCharge, Goes, Stays, Stops, Fails, Raises, Follows, Session, IInv, AuthorizationKept,
         PreparedKept, HlcKept, AfterAuthorization
  <2>. QED
    BY <1>precharge, <2>0, <2>3, <2>4 DEF PreCharge, Goes, Stays, Stops, Fails, Raises
<1>incomplete. ASSUME PowerDeliveryIncomplete PROVE IInv'
  <2>0. phase = "reading" /\ Accepts("PowerDelivery") /\ last' = "PowerDelivery" /\ "PowerDelivery" \in States
    BY <1>incomplete, <1>names DEF PowerDeliveryIncomplete, Receive
  <2>1. "PowerDelivery" = state \/ (~obj.expecting /\ Follows(state, "PowerDelivery"))
    BY <2>0, <1>accepted
  <2>2. sess' \in Session
    BY <1>incomplete, <1>types DEF PowerDeliveryIncomplete, Session
  <2>3. CASE phase' = "stopping"
    BY <1>incomplete, <1>types, <1>kept, <2>0, <2>2, <2>3, EndKeeps
    DEF PowerDeliveryIncomplete, Fails, Raises, Goes, Stays
  <2>4. CASE phase' = "reading"
    <3>1. TypeOK'
      BY <1>incomplete, <1>types, <1>names, <1>flags, <1>kept, <2>0, <2>2, <2>4
      DEF PowerDeliveryIncomplete, Goes, Stays, Stops, Fails, Raises, TypeOK, LoopTypeOK
    <3>2. ContactorsTested'
      BY <1>incomplete, <1>flags, <2>0, <2>4
      DEF PowerDeliveryIncomplete, Goes, Stays, Stops, Fails, Raises, ContactorsTested
    <3>. QED
      BY <1>incomplete, <1>types, <1>flags, <2>0, <2>1, <2>2, <2>4, <3>1, <3>2
      DEF PowerDeliveryIncomplete, Goes, Stays, Stops, Fails, Raises, Follows, Session, IInv, AuthorizationKept,
         PreparedKept, HlcKept, AfterAuthorization
  <2>. QED
    BY <1>incomplete, <2>0, <2>3, <2>4 DEF PowerDeliveryIncomplete, Goes, Stays, Stops, Fails, Raises
<1>start. ASSUME PowerDeliveryStart PROVE IInv'
  <2>0. phase = "reading" /\ Accepts("PowerDelivery") /\ last' = "PowerDelivery" /\ "PowerDelivery" \in States
    BY <1>start, <1>names DEF PowerDeliveryStart, Receive
  <2>1. "PowerDelivery" = state \/ (~obj.expecting /\ Follows(state, "PowerDelivery"))
    BY <2>0, <1>accepted
  <2>t. Announce(evse) \in Evse /\ Announce(evse).hlc /\ Announce(evse).power = evse.power
    BY <1>types DEF Evse, Uses, Announce
  <2>2. sess' \in Session
    BY <1>start, <1>types DEF PowerDeliveryStart, Session
  <2>3. CASE phase' = "stopping"
    BY <1>start, <1>types, <1>kept, <2>0, <2>2, <2>3, <2>t, EndKeeps
    DEF PowerDeliveryStart, Fails, Raises, Goes, Stays
  <2>4. CASE phase' = "reading"
    <3>1. TypeOK'
      BY <1>start, <1>types, <1>names, <1>flags, <1>kept, <2>0, <2>2, <2>4, <2>t
      DEF PowerDeliveryStart, Goes, Stays, Stops, Fails, Raises, TypeOK, LoopTypeOK
    <3>2. ContactorsTested'
      BY <1>start, <1>flags, <2>0, <2>4
      DEF PowerDeliveryStart, Goes, Stays, Stops, Fails, Raises, ContactorsTested
    <3>. QED
      BY <1>start, <1>types, <1>flags, <2>0, <2>1, <2>2, <2>4, <3>1, <3>2, <2>t
      DEF PowerDeliveryStart, Goes, Stays, Stops, Fails, Raises, Follows, Session, IInv, AuthorizationKept,
         PreparedKept, HlcKept, AfterAuthorization
  <2>. QED
    BY <1>start, <2>0, <2>3, <2>4 DEF PowerDeliveryStart, Goes, Stays, Stops, Fails, Raises
<1>stop. ASSUME NEW opened \in BOOLEAN, PowerDeliveryStop(opened) PROVE IInv'
  <2>0. phase = "reading" /\ Accepts("PowerDelivery") /\ last' = "PowerDelivery" /\ "PowerDelivery" \in States
    BY <1>stop, <1>names DEF PowerDeliveryStop, Receive
  <2>1. "PowerDelivery" = state \/ (~obj.expecting /\ Follows(state, "PowerDelivery"))
    BY <2>0, <1>accepted
  <2>. DEFINE switchedOff == StopCharger([evse EXCEPT !.hlc = FALSE])
  <2>t. switchedOff \in Evse /\ switchedOff.power = "off"
    BY <1>types DEF Evse, Uses, StopCharger
  <2>2. sess' \in Session
    BY <1>stop, <1>types DEF PowerDeliveryStop, Session
  <2>. HIDE DEF switchedOff
  <2>3. CASE phase' = "stopping"
    BY <1>stop, <1>types, <1>kept, <2>0, <2>2, <2>3, <2>t, EndKeeps
    DEF PowerDeliveryStop, Fails, Raises, Goes, Stays, switchedOff
  <2>4. CASE phase' = "reading"
    <3>1. TypeOK'
      BY <1>stop, <1>types, <1>names, <1>flags, <1>kept, <2>0, <2>2, <2>4, <2>t
      DEF PowerDeliveryStop, Goes, Stays, Stops, Fails, Raises, TypeOK, LoopTypeOK, switchedOff
    <3>2. ContactorsTested'
      BY <1>stop, <1>flags, <2>0, <2>4
      DEF PowerDeliveryStop, Goes, Stays, Stops, Fails, Raises, ContactorsTested
    <3>. QED
      BY <1>stop, <1>types, <1>flags, <2>0, <2>1, <2>2, <2>4, <3>1, <3>2, <2>t
      DEF PowerDeliveryStop, Goes, Stays, Stops, Fails, Raises, Follows, Session, IInv, AuthorizationKept,
         PreparedKept, HlcKept, AfterAuthorization, switchedOff
  <2>. QED
    BY <1>stop, <2>0, <2>3, <2>4 DEF PowerDeliveryStop, Goes, Stays, Stops, Fails, Raises
<1>demand. ASSUME NEW fine \in BOOLEAN, CurrentDemand(fine) PROVE IInv'
  <2>0. phase = "reading" /\ Accepts("CurrentDemand") /\ last' = "CurrentDemand" /\ "CurrentDemand" \in States
    BY <1>demand, <1>names DEF CurrentDemand, Receive
  <2>1. "CurrentDemand" = state \/ (~obj.expecting /\ Follows(state, "CurrentDemand"))
    BY <2>0, <1>accepted
  <2>t. [evse EXCEPT !.power = "charging"] \in Evse /\ [evse EXCEPT !.power = "charging"].hlc = evse.hlc
    BY <1>types DEF Evse, Uses
  <2>2. sess' \in Session
    BY <1>demand, <1>types DEF CurrentDemand, Session
  <2>3. CASE phase' = "stopping"
    BY <1>demand, <1>types, <1>kept, <2>0, <2>2, <2>3, <2>t, EndKeeps
    DEF CurrentDemand, Fails, Raises, Goes, Stays
  <2>4. CASE phase' = "reading"
    <3>1. TypeOK'
      BY <1>demand, <1>types, <1>names, <1>flags, <1>kept, <2>0, <2>2, <2>4, <2>t
      DEF CurrentDemand, Goes, Stays, Stops, Fails, Raises, TypeOK, LoopTypeOK
    <3>2. ContactorsTested'
      BY <1>demand, <1>flags, <2>0, <2>4
      DEF CurrentDemand, Goes, Stays, Stops, Fails, Raises, ContactorsTested
    <3>. QED
      BY <1>demand, <1>types, <1>flags, <2>0, <2>1, <2>2, <2>4, <3>1, <3>2, <2>t
      DEF CurrentDemand, Goes, Stays, Stops, Fails, Raises, Follows, Session, IInv, AuthorizationKept,
         PreparedKept, HlcKept, AfterAuthorization
  <2>. QED
    BY <1>demand, <2>0, <2>3, <2>4 DEF CurrentDemand, Goes, Stays, Stops, Fails, Raises
<1>welding. ASSUME WeldingDetection PROVE IInv'
  <2>0. phase = "reading" /\ Accepts("WeldingDetection") /\ last' = "WeldingDetection" /\ "WeldingDetection" \in States
    BY <1>welding, <1>names DEF WeldingDetection, Receive
  <2>1. "WeldingDetection" = state \/ (~obj.expecting /\ Follows(state, "WeldingDetection"))
    BY <2>0, <1>accepted
  <2>2. sess' \in Session
    BY <1>welding, <1>types DEF WeldingDetection, Session
  <2>3. CASE phase' = "stopping"
    BY <1>welding, <1>types, <1>kept, <2>0, <2>2, <2>3, EndKeeps
    DEF WeldingDetection, Fails, Raises, Goes, Stays
  <2>4. CASE phase' = "reading"
    <3>1. TypeOK'
      BY <1>welding, <1>types, <1>names, <1>flags, <1>kept, <2>0, <2>2, <2>4
      DEF WeldingDetection, Goes, Stays, Stops, Fails, Raises, TypeOK, LoopTypeOK
    <3>2. ContactorsTested'
      BY <1>welding, <1>flags, <2>0, <2>4
      DEF WeldingDetection, Goes, Stays, Stops, Fails, Raises, ContactorsTested
    <3>. QED
      BY <1>welding, <1>types, <1>flags, <2>0, <2>1, <2>2, <2>4, <3>1, <3>2
      DEF WeldingDetection, Goes, Stays, Stops, Fails, Raises, Follows, Session, IInv, AuthorizationKept,
         PreparedKept, HlcKept, AfterAuthorization
  <2>. QED
    BY <1>welding, <2>0, <2>3, <2>4 DEF WeldingDetection, Goes, Stays, Stops, Fails, Raises
<1>end. ASSUME SessionStop PROVE IInv'
  <2>0. phase = "reading" /\ Accepts("SessionStop") /\ last' = "SessionStop" /\ "SessionStop" \in States
    BY <1>end, <1>names DEF SessionStop, Receive
  <2>1. "SessionStop" = state \/ (~obj.expecting /\ Follows(state, "SessionStop"))
    BY <2>0, <1>accepted
  <2>2. sess' \in Session
    BY <1>end, <1>types DEF SessionStop, Session
  <2>3. CASE phase' = "stopping"
    BY <1>end, <1>types, <1>kept, <2>0, <2>2, <2>3, EndKeeps
    DEF SessionStop, Fails, Raises, Goes, Stays
  <2>4. CASE phase' = "reading"
    <3>1. TypeOK'
      BY <1>end, <1>types, <1>names, <1>flags, <1>kept, <2>0, <2>2, <2>4
      DEF SessionStop, Goes, Stays, Stops, Fails, Raises, TypeOK, LoopTypeOK
    <3>2. ContactorsTested'
      BY <1>end, <1>flags, <2>0, <2>4
      DEF SessionStop, Goes, Stays, Stops, Fails, Raises, ContactorsTested
    <3>. QED
      BY <1>end, <1>types, <1>flags, <2>0, <2>1, <2>2, <2>4, <3>1, <3>2
      DEF SessionStop, Goes, Stays, Stops, Fails, Raises, Follows, Session, IInv, AuthorizationKept,
         PreparedKept, HlcKept, AfterAuthorization
  <2>. QED
    BY <1>end, <2>0, <2>3, <2>4 DEF SessionStop, Goes, Stays, Stops, Fails, Raises
<1>cable. ASSUME NEW evError \in BOOLEAN, NEW closed, NEW isolation,
              CableCheck(evError, closed, isolation)
  PROVE  IInv'
  <2>. DEFINE o == [Handler("CableCheck") EXCEPT !.checked = TRUE]
              contactors == o.contactors \/ closed = "yes"
              tried == [o EXCEPT !.contactors = contactors]
              testing == IF Handler("CableCheck").checked
                           THEN evse ELSE [evse EXCEPT !.power = "insulation"]
              tested == [sess EXCEPT !.isolated = TRUE, !.precharged = FALSE]
  <2>0. phase = "reading" /\ Accepts("CableCheck") /\ last' = "CableCheck"
        /\ {"CableCheck", "PreCharge"} \subseteq States
    BY <1>cable, <1>names DEF CableCheck, Receive
  <2>1. sess.accepted
    <3>1. "CableCheck" = state
      BY <2>0, <1>accepted DEF Follows
    <3>. QED
      BY <2>0, <3>1 DEF IInv, AuthorizationKept, AfterAuthorization
  <2>2. tried \in Flags /\ tried.checked
    <3>1. o \in Flags /\ o.checked
      BY <1>flags DEF Flags
    <3>2. contactors \in BOOLEAN
      OBVIOUS
    <3>. HIDE DEF o, contactors
    <3>. QED
      BY <3>1, <3>2 DEF Flags
  <2>3. testing \in Evse
    BY <1>types DEF Evse, Uses
  <2>4. tested \in Session /\ tested.accepted /\ tested.isolated
    BY <1>types, <2>1 DEF Session
  <2>. HIDE DEF testing, tried, tested
  <2>5. CASE (Fails(evse) \/ Fails(testing)) /\ UNCHANGED sess
    BY <2>0, <2>3, <2>5, <1>types, <1>kept, EndKeeps DEF Fails
  <2>6. CASE Goes("PreCharge") /\ sess' = tested /\ evse' = testing
    <3>1. TypeOK'
      BY <2>0, <2>3, <2>4, <2>6, <1>types, <1>flags, <1>kept DEF Goes, TypeOK, LoopTypeOK
    <3>. QED
      BY <2>0, <2>4, <2>6, <3>1, <1>flags DEF Goes, IInv, AuthorizationKept, PreparedKept, HlcKept,
         ContactorsTested
  <2>7. CASE Stays("CableCheck", tried, "ok") /\ UNCHANGED sess /\ evse' = testing
    <3>1. TypeOK'
      BY <2>0, <2>2, <2>3, <2>7, <1>types, <1>kept DEF Stays, TypeOK, LoopTypeOK
    <3>. QED
      BY <2>0, <2>1, <2>2, <2>7, <3>1 DEF Stays, IInv, AuthorizationKept, PreparedKept, HlcKept,
         ContactorsTested
  <2>. QED
    BY <1>cable, <2>5, <2>6, <2>7 DEF CableCheck, testing, tried, tested
<1>stutter. ASSUME UNCHANGED vars PROVE IInv'
  BY <1>stutter DEF vars, loopVars, IInv, TypeOK, LoopTypeOK, AuthorizationKept, PreparedKept,
     HlcKept, ContactorsTested
<1>. QED
  BY <1>connect, <1>disconnect, <1>lost, <1>error, <1>bad, <1>refuse, <1>sap, <1>setup,
     <1>discovery, <1>payment, <1>authentication, <1>parameters, <1>cable, <1>precharge,
     <1>incomplete, <1>start, <1>stop, <1>demand, <1>welding, <1>end, <1>stutter
  DEF Next, Dead

\* The inductive invariant holds in every behaviour.
THEOREM DinInvariant == Spec => []IInv
BY InitIInv, NextIInv, PTL DEF Spec

\* The charging loop of any session, with any order of requests and however the
\* hardware answers, is authorized, tested, pre-charged and announced.
THEOREM DinLoopPrepared == Spec => []LoopPrepared
<1>1. IInv => LoopPrepared
  BY DEF IInv, LoopPrepared, AuthorizationKept, PreparedKept, HlcKept, AfterAuthorization
<1>. QED
  BY DinInvariant, <1>1, PTL

-----------------------------------------------------------------------------
(***************************************************************************)
(* The refinement.  Seen from the hardware a step is one of six.           *)
(***************************************************************************)

\* The abstract session and what is known of the cable do not change.
SameSession ==
    /\ phase = "reading" /\ phase' = "reading"
    /\ sess'.accepted = sess.accepted
    /\ sess'.isolated = sess.isolated

LEMMA StepCloses ==
    ASSUME phase = "reading", phase' = "stopping", evse'.power = "off", sess' \in Session
    PROVE  Promise!Close
BY DEF Promise!Close, Session

LEMMA StepIsSilent ==
    ASSUME SameSession, evse'.power = evse.power
    PROVE  UNCHANGED Promise!vars
BY DEF SameSession, Promise!vars

LEMMA StepSwitchesOff ==
    ASSUME SameSession, evse'.power = "off"
    PROVE  Promise!SwitchOff
BY DEF SameSession, Promise!SwitchOff

LEMMA StepSwitchesOn ==
    ASSUME SameSession, phase = "reading", sess.accepted, NEW u \in Uses,
           u \in {"precharge", "charging"} => sess.isolated, evse'.power = u
    PROVE  Promise!SwitchOn(u) /\ u \in Promise!Purposes
BY DEF SameSession, Promise!SwitchOn, Promise!Purposes, Uses

LEMMA StepAssesses ==
    ASSUME phase = "reading", phase' = "reading", sess.accepted, sess'.accepted,
           sess' \in Session, evse'.power = evse.power
    PROVE  Promise!Assess
BY DEF Promise!Assess, Session

\* Every end of a session, by whatever step, closes the abstract one.
LEMMA EndCloses ==
    ASSUME phase = "reading", NEW a, NEW r, NEW e \in Evse, Stops(a, r, e), sess' \in Session
    PROVE  Promise!Close
<1>1. phase' = "stopping" /\ evse'.power = "off"
  BY DEF Stops, StopCharger, Evse
<1>. QED
  BY <1>1, StepCloses

LEMMA PromiseInit == IInv /\ Init => Promise!Init
BY DEF Init, InitLoop, NewSession, Promise!Init

LEMMA PromiseStep == IInv /\ IInv' /\ [Next]_vars => [Promise!Next]_(Promise!vars)
<1>. SUFFICES ASSUME IInv, IInv', [Next]_vars PROVE Promise!Next \/ UNCHANGED Promise!vars
  OBVIOUS
<1>types. /\ state \in States /\ obj \in Flags /\ evse \in Evse /\ sess \in Session
          /\ sess' \in Session
  BY DEF IInv, TypeOK, LoopTypeOK
<1>accepted. \A type : Accepts(type) => type = state \/ (~obj.expecting /\ Follows(state, type))
  BY <1>types, AcceptedTypes
<1>handler. Handler("CableCheck").contactors => Handler("CableCheck").checked
  BY DEF Handler, Fresh, IInv, ContactorsTested
<1>close. ASSUME phase = "reading", NEW a, NEW r, NEW e \in Evse, Stops(a, r, e)
  PROVE  Promise!Next
  BY <1>close, <1>types, EndCloses DEF Promise!Next
<1>connect. ASSUME Connect PROVE Promise!Next
  <2>1. Promise!Open
    BY <1>connect DEF Connect, StartLoop, NewSession, Promise!Open
  <2>. QED
    BY <2>1 DEF Promise!Next
<1>disconnect. ASSUME Disconnect PROVE UNCHANGED Promise!vars
  BY <1>disconnect DEF Disconnect, EndLoop, Promise!vars
<1>lost. ASSUME ConnectionLost PROVE Promise!Next
  BY <1>lost, <1>types, <1>close DEF ConnectionLost, Lost
<1>error. ASSUME ConnectionError PROVE Promise!Next
  <2>1. Promise!Abandon
    BY <1>error DEF ConnectionError, ReadError, Promise!Abandon
  <2>. QED
    BY <2>1 DEF Promise!Next
<1>bad. ASSUME BadMessage PROVE Promise!Next
  BY <1>bad, <1>types, <1>close DEF BadMessage, Undecodable, Raises
<1>refuse. ASSUME NEW type \in Requests, Refuse(type) PROVE Promise!Next
  BY <1>refuse, <1>types, <1>close DEF Refuse, Fails
<1>sap. ASSUME SupportedAppProtocol PROVE Promise!Next \/ UNCHANGED Promise!vars
  BY <1>sap, <1>types, <1>close, StepIsSilent
  DEF SupportedAppProtocol, Receive, Goes, Fails, SameSession
<1>setup. ASSUME SessionSetup PROVE UNCHANGED Promise!vars
  BY <1>setup, StepIsSilent DEF SessionSetup, Receive, Goes, SameSession
<1>discovery. ASSUME ServiceDiscovery PROVE Promise!Next \/ UNCHANGED Promise!vars
  BY <1>discovery, <1>types, <1>close, StepIsSilent
  DEF ServiceDiscovery, Receive, Goes, Raises, SameSession
<1>payment. ASSUME NEW external \in BOOLEAN, NEW services \in BOOLEAN,
                   ServicePaymentSelection(external, services)
  PROVE  Promise!Next \/ UNCHANGED Promise!vars
  <2>1. sess'.accepted = sess.accepted /\ sess'.isolated = sess.isolated
    BY <1>payment, <1>types DEF ServicePaymentSelection, Session
  <2>. QED
    BY <1>payment, <1>types, <1>close, <2>1, StepIsSilent
    DEF ServicePaymentSelection, Receive, Goes, Fails, SameSession
<1>authentication. ASSUME NEW status, ContractAuthentication(status)
  PROVE  Promise!Next \/ UNCHANGED Promise!vars
  <2>1. /\ phase = "reading" /\ phase' = "reading" /\ evse' = evse
        /\ sess'.isolated = sess.isolated /\ (sess.accepted => sess'.accepted)
    BY <1>authentication, <1>types DEF ContractAuthentication, Receive, Goes, Stays, Session
  <2>2. CASE sess'.accepted = sess.accepted
    BY <2>1, <2>2, StepIsSilent DEF SameSession
  <2>3. CASE ~sess.accepted /\ sess'.accepted
    BY <2>1, <2>3 DEF Promise!Next, Promise!Authorize
  <2>. QED
    BY <2>1, <2>2, <2>3, <1>types DEF Session
<1>parameters. ASSUME NEW mode, NEW scheduled \in BOOLEAN,
                      ChargeParameterDiscovery(mode, scheduled)
  PROVE  Promise!Next \/ UNCHANGED Promise!vars
  BY <1>parameters, <1>types, <1>close, StepIsSilent
  DEF ChargeParameterDiscovery, Receive, Goes, Stays, Fails, SameSession
<1>cable. ASSUME NEW evError \in BOOLEAN, NEW closed, NEW isolation,
                 CableCheck(evError, closed, isolation)
  PROVE  Promise!Next \/ UNCHANGED Promise!vars
  <2>. DEFINE old == Handler("CableCheck")
              testing == IF old.checked THEN evse ELSE [evse EXCEPT !.power = "insulation"]
  <2>1. phase = "reading" /\ sess.accepted
    <3>1. phase = "reading" /\ "CableCheck" = state
      BY <1>cable, <1>accepted DEF CableCheck, Receive, Follows
    <3>. QED
      BY <3>1 DEF IInv, AuthorizationKept, AfterAuthorization
  <2>2. testing \in Evse /\ testing.power \in {evse.power, "insulation"}
        /\ "insulation" \in Uses
    BY <1>types DEF Evse, Uses
  <2>3. [old EXCEPT !.checked = TRUE].contactors => testing = evse
    <3>1. old \in Flags
      BY <1>types DEF Handler, Fresh, Flags
    <3>. QED
      BY <1>handler, <3>1 DEF Flags
  <2>. HIDE DEF testing
  <2>4. CASE Fails(evse) \/ Fails(testing)
    BY <2>1, <2>2, <2>4, <1>types, <1>close DEF Fails
  <2>5. CASE /\ phase' = "reading" /\ testing = evse /\ evse' = testing
             /\ sess' = [sess EXCEPT !.isolated = TRUE, !.precharged = FALSE]
    <3>1. sess'.accepted
      BY <2>1, <2>5, <1>types DEF Session
    <3>. QED
      BY <2>1, <2>5, <3>1, <1>types, StepAssesses DEF Promise!Next
  <2>6. CASE phase' = "reading" /\ UNCHANGED sess /\ evse' = testing
    <3>1. SameSession
      BY <2>1, <2>6 DEF SameSession
    <3>2. CASE testing.power = evse.power
      BY <2>6, <3>1, <3>2, StepIsSilent
    <3>3. CASE testing.power = "insulation"
      BY <2>1, <2>2, <2>6, <3>1, <3>3, StepSwitchesOn DEF Promise!Next
    <3>. QED
      BY <2>2, <3>2, <3>3
  <2>. QED
    BY <1>cable, <2>1, <2>3, <2>4, <2>5, <2>6 DEF CableCheck, Goes, Stays, testing
<1>precharge. ASSUME NEW fine \in BOOLEAN, PreCharge(fine)
  PROVE  Promise!Next \/ UNCHANGED Promise!vars
  <2>1. phase = "reading" /\ sess.accepted /\ sess.isolated
    <3>1. phase = "reading" /\ "PreCharge" = state
      BY <1>precharge, <1>accepted DEF PreCharge, Receive, Follows
    <3>. QED
      BY <3>1 DEF IInv, AuthorizationKept, PreparedKept, AfterAuthorization
  <2>2. CASE phase' = "reading"
    <3>1. evse'.power = "precharge" /\ "precharge" \in Uses
      BY <1>precharge, <1>types, <2>2 DEF PreCharge, Fails, Stops, Evse, Uses
    <3>2. SameSession
      BY <1>precharge, <1>types, <2>1, <2>2 DEF PreCharge, Fails, Stops, Session, SameSession
    <3>. QED
      BY <2>1, <3>1, <3>2, StepSwitchesOn DEF Promise!Next
  <2>. QED
    BY <1>precharge, <1>types, <1>close, <2>1, <2>2 DEF PreCharge, Fails, Stays
<1>incomplete. ASSUME PowerDeliveryIncomplete PROVE Promise!Next
  BY <1>incomplete, <1>types, <1>close DEF PowerDeliveryIncomplete, Receive, Raises
<1>start. ASSUME PowerDeliveryStart PROVE UNCHANGED Promise!vars
  <2>1. evse'.power = evse.power
    BY <1>start, <1>types DEF PowerDeliveryStart, Announce, Evse
  <2>2. SameSession
    BY <1>start, <1>types DEF PowerDeliveryStart, Receive, Goes, Session, SameSession
  <2>. QED
    BY <2>1, <2>2, StepIsSilent
<1>stop. ASSUME NEW opened \in BOOLEAN, PowerDeliveryStop(opened) PROVE Promise!Next
  <2>. DEFINE switchedOff == StopCharger([evse EXCEPT !.hlc = FALSE])
  <2>1. phase = "reading" /\ switchedOff \in Evse /\ switchedOff.power = "off"
    BY <1>stop, <1>types DEF PowerDeliveryStop, Receive, StopCharger, Evse, Uses
  <2>. HIDE DEF switchedOff
  <2>2. CASE Fails(switchedOff)
    BY <2>1, <2>2, <1>close DEF Fails
  <2>3. CASE phase' = "reading" /\ evse' = switchedOff /\ UNCHANGED sess
    BY <2>1, <2>3, StepSwitchesOff DEF SameSession, Promise!Next
  <2>. QED
    BY <1>stop, <2>1, <2>2, <2>3 DEF PowerDeliveryStop, Stays, switchedOff
<1>demand. ASSUME NEW fine \in BOOLEAN, CurrentDemand(fine)
  PROVE  Promise!Next \/ UNCHANGED Promise!vars
  <2>1. phase = "reading" /\ sess.accepted /\ sess.isolated
    <3>1. phase = "reading" /\ "CurrentDemand" = state
      BY <1>demand, <1>accepted DEF CurrentDemand, Receive, Follows
    <3>. QED
      BY <3>1 DEF IInv, AuthorizationKept, PreparedKept, AfterAuthorization
  <2>2. CASE phase' = "reading"
    <3>1. evse'.power = "charging" /\ "charging" \in Uses
      BY <1>demand, <1>types, <2>2 DEF CurrentDemand, Fails, Stops, Evse, Uses
    <3>2. SameSession
      BY <1>demand, <2>1, <2>2 DEF CurrentDemand, SameSession
    <3>. QED
      BY <2>1, <3>1, <3>2, StepSwitchesOn DEF Promise!Next
  <2>. QED
    BY <1>demand, <1>types, <1>close, <2>1, <2>2 DEF CurrentDemand, Fails, Stays
<1>welding. ASSUME WeldingDetection PROVE UNCHANGED Promise!vars
  BY <1>welding, StepIsSilent DEF WeldingDetection, Receive, Stays, SameSession
<1>end. ASSUME SessionStop PROVE Promise!Next
  BY <1>end, <1>types, <1>close DEF SessionStop, Receive
<1>stutter. ASSUME UNCHANGED vars PROVE UNCHANGED Promise!vars
  BY <1>stutter DEF vars, loopVars, Promise!vars
<1>. QED
  BY <1>connect, <1>disconnect, <1>lost, <1>error, <1>bad, <1>refuse, <1>sap, <1>setup,
     <1>discovery, <1>payment, <1>authentication, <1>parameters, <1>cable, <1>precharge,
     <1>incomplete, <1>start, <1>stop, <1>demand, <1>welding, <1>end, <1>stutter
  DEF Next, Dead

\* The state machine implements the abstract station: in every order of requests
\* the output is used only in an authorized session, carries the vehicle's
\* voltage only over a tested cable, and is off with the end of the session,
\* unless a read error ended it.
THEOREM DinKeepsPromise == Spec => KeepsPromise
<1>1. Spec => Promise!Init
  BY InitIInv, PromiseInit DEF Spec
<1>. QED
  BY <1>1, DinInvariant, PromiseStep, PTL DEF Spec, KeepsPromise, Promise!Spec

-----------------------------------------------------------------------------
(***************************************************************************)
(* Station and vehicle together: whatever the vehicle of the repository    *)
(* does, and however the connection behaves, the station takes only steps  *)
(* of its own specification.  What is proved of the station against any    *)
(* vehicle therefore holds in the composition.                             *)
(***************************************************************************)
ModesKnown == modes \subseteq EnergyModes

\* The modes of the station never change, in the composition either.
LEMMA ModesStay == ChargingSpec => []ModesKnown
<1>1. ChargingInit => ModesKnown
  BY DEF ChargingInit, Init, ModesKnown
<1>2. ModesKnown /\ [ChargingNext]_allVars => ModesKnown'
  BY DEF ModesKnown, ChargingNext, allVars, stationVars, vars
<1>. QED
  BY <1>1, <1>2, PTL DEF ChargingSpec

\* What the station does with a request of this vehicle is one of its actions.
LEMMA HandlesIsStep ==
    ASSUME ModesKnown, UNCHANGED modes, NEW q,
           NEW isolation \in {"valid", "warning", "fault", "ongoing"}, Handles(q, isolation)
    PROVE  Next
<1>1. CASE \E mode \in modes, scheduled \in BOOLEAN : ChargeParameterDiscovery(mode, scheduled)
  BY <1>1 DEF ModesKnown, Next
<1>2. CASE \E evError \in BOOLEAN, closed \in {"yes", "no", "ongoing"} :
              CableCheck(evError, closed, isolation)
  BY <1>2 DEF Next
<1>3. CASE ServicePaymentSelection(TRUE, TRUE)
  BY <1>3 DEF Next
<1>4. CASE TypeOf(q) \in Requests /\ Refuse(TypeOf(q))
  BY <1>4 DEF Next
<1>5. CASE \/ SupportedAppProtocol \/ SessionSetup \/ ServiceDiscovery
           \/ \E status \in {"accepted", "ongoing", "rejected"} : ContractAuthentication(status)
           \/ \E fine \in BOOLEAN : PreCharge(fine) \/ CurrentDemand(fine)
           \/ PowerDeliveryStart \/ \E opened \in BOOLEAN : PowerDeliveryStop(opened)
           \/ WeldingDetection \/ SessionStop
  BY <1>5 DEF Next
<1>. QED
  BY <1>1, <1>2, <1>3, <1>4, <1>5 DEF Handles

LEMMA StationStep == ModesKnown /\ [ChargingNext]_allVars => [Next]_vars
<1>. SUFFICES ASSUME ModesKnown, [ChargingNext]_allVars PROVE Next \/ UNCHANGED vars
  OBVIOUS
<1>1. CASE UNCHANGED allVars
  BY <1>1 DEF allVars, stationVars
<1>2. CASE ChargingNext /\ ~driven
  BY <1>2 DEF ChargingNext
<1>3. CASE UNCHANGED modes /\ DrivenStep
  <2>1. CASE Answer
    BY <1>3, <2>1, HandlesIsStep DEF Answer, StationTakes
  <2>2. CASE Connects \/ StationBreaks \/ StationDies \/ Disconnect
    BY <1>3, <2>2 DEF Connects, StationBreaks, StationDies, Next
  <2>3. CASE UNCHANGED stationVars
    BY <2>3 DEF stationVars
  <2>4. NextVehicle \/ VehicleTakes \/ VehicleBreaks \/ VehicleDies \/ Over \/ Elapses
            => UNCHANGED stationVars
    BY DEF NextVehicle, VehicleTakes, VehicleBreaks, VehicleDies, Over, Elapses
  <2>. QED
    BY <1>3, <2>1, <2>2, <2>3, <2>4 DEF DrivenStep
<1>. QED
  BY <1>1, <1>2, <1>3 DEF ChargingNext

\* The composition implements the station's specification: the vehicle, the
\* messages on the wire and the breaks of the connection add no behaviour to it.
THEOREM ChargingImplementsStation == ChargingSpec => Spec
<1>1. ChargingInit => Init
  BY DEF ChargingInit
<1>. QED
  BY <1>1, ModesStay, StationStep, PTL DEF ChargingSpec, Spec

\* So with the repository's own vehicle, over a connection that breaks at any
\* time, the charging loop is entered only prepared.
THEOREM ChargingLoopPrepared == ChargingSpec => []LoopPrepared
BY ChargingImplementsStation, DinLoopPrepared, PTL

\* And the station that meets it keeps its promise to the hardware.
THEOREM ChargingKeepsPromise == ChargingSpec => KeepsPromise
BY ChargingImplementsStation, DinKeepsPromise, PTL

-----------------------------------------------------------------------------
(***************************************************************************)
(* The two sides together.  Neither keeps a record of where the other is;  *)
(* that they stay in step follows from what is on its way between them and *)
(* from whether the object of the station has answered.  The invariant is  *)
(* about a session in which both sides still listen: as soon as one leaves *)
(* its receive loop, nothing is promised until the next connection.        *)
(***************************************************************************)
\* Both sides are in their receive loops.
Live == driven /\ phase = "reading" /\ evPhase = "waiting"

\* The requests whose state the station is in when they arrive.
InOrder ==
    {"SupportedAppProtocol", "SessionSetup", "ServiceDiscovery", "ServicePaymentSelection",
     "ContractAuthentication", "ChargeParameterDiscovery", "CableCheck", "PreCharge",
     "CurrentDemand"}

\* Where the station stands when the vehicle's request is on its way.  The last
\* case but two is the vehicle that wants no more energy at once.
Asked ==
    \/ evState \in InOrder /\ request = evState /\ state = evState /\ ~ended
    \/ /\ evState = "PowerDelivery" /\ request = "PowerDeliveryStart"
       /\ state = "PreCharge" /\ ~obj.expecting /\ ~ended
    \/ /\ evState = "PowerDelivery" /\ request = "PowerDeliveryStop" /\ full
       /\ state = "CurrentDemand" /\ ~obj.expecting /\ ~ended
    \/ /\ evState = "WeldingDetection" /\ request = evState /\ full
       /\ state = "CurrentDemand" /\ ~ended
    \/ /\ evState = "WeldingDetection" /\ request = evState
       /\ state \in {"PowerDelivery", "WeldingDetection"} /\ ~obj.expecting /\ ended
    \/ /\ evState = "SessionStop" /\ request = evState
       /\ state = "WeldingDetection" /\ ~obj.expecting /\ ended

\* The state that the station enters with a final answer.
After(s) ==
    CASE s = "SupportedAppProtocol" -> "SessionSetup"
      [] s = "SessionSetup" -> "ServiceDiscovery"
      [] s = "ServiceDiscovery" -> "ServicePaymentSelection"
      [] s = "ServicePaymentSelection" -> "ContractAuthentication"
      [] s = "ContractAuthentication" -> "ChargeParameterDiscovery"
      [] s = "ChargeParameterDiscovery" -> "CableCheck"
      [] OTHER -> "PreCharge"

\* Where it stands when its answer is on its way.
Answered ==
    \/ /\ evState \in {"SupportedAppProtocol", "SessionSetup", "ServiceDiscovery",
                       "ServicePaymentSelection"}
       /\ state = After(evState) /\ ~ended
    \/ /\ evState \in {"ContractAuthentication", "ChargeParameterDiscovery", "CableCheck"}
       /\ state = IF answer.finished THEN After(evState) ELSE evState
       /\ ~ended
    \/ /\ evState \in {"PreCharge", "CurrentDemand"} /\ state = evState
       /\ ~obj.expecting /\ ~ended
    \/ /\ evState = "PowerDelivery" /\ request = "PowerDeliveryStart"
       /\ state = "CurrentDemand" /\ ~ended
    \/ /\ evState = "PowerDelivery" /\ request = "PowerDeliveryStop" /\ full
       /\ state = "PowerDelivery" /\ ~obj.expecting /\ ended
    \/ /\ evState = "WeldingDetection"
       /\ state = "WeldingDetection" /\ ~obj.expecting /\ ended

\* One message is on its way, and each side knows what the other expects.
WireKept ==
    Live =>
        \/ question # None /\ answer = None /\ question = request /\ Asked
        \/ question = None /\ answer # None /\ answer.code = "ok" /\ Answered

\* What control pilot and output have to do with the vehicle's state.
FeedKept ==
    Live =>
        /\ evState \in {"CableCheck", "PreCharge", "PowerDelivery", "CurrentDemand"} => pilot
        /\ evse.power = "charging" =>
              \/ evState = "CurrentDemand"
              \/ evState = "PowerDelivery" /\ request = "PowerDeliveryStop"
        /\ ended => evse.power = "off"

JointInv == IInv /\ WireKept /\ FeedKept

LEMMA QuestionIsMessage == \A q \in Ev!DinRequests : q # None
BY NoneIsNoMessage

LEMMA AnswerIsMessage ==
    ASSUME NEW r \in {"ok", "failed", "none"}, NEW f \in BOOLEAN, NEW b \in BOOLEAN
    PROVE  [code |-> r, finished |-> f, safe |-> b] # None
BY NoneIsNoMessage DEF Responses

\* The station listens to the request of its state.
LEMMA AcceptsOwn == ASSUME state \in InOrder PROVE Accepts(state)
<1>. SUFFICES 1 \in 1 .. Len(Expected[state]) /\ Expected[state][1] = state
  BY DEF Accepts, AcceptedBy
<1>. QED
  BY DEF InOrder, Expected

\* An object that has answered listens to what may follow.
LEMMA AcceptsFollowing ==
    ASSUME ~obj.expecting, NEW type,
           Follows(state, type) \/ (state = "WeldingDetection" /\ type = state)
    PROVE  Accepts(type)
<1>. SUFFICES \E i \in 1 .. Len(Expected[state]) : Expected[state][i] = type
  BY DEF Accepts, AcceptedBy
<1>1. CASE state = "PreCharge" /\ type = "PowerDelivery"
  <2>. 2 \in 1 .. Len(Expected[state]) /\ Expected[state][2] = type
    BY <1>1 DEF Expected
  <2>. QED OBVIOUS
<1>2. CASE state = "PowerDelivery" /\ type = "SessionStop"
  <2>. 2 \in 1 .. Len(Expected[state]) /\ Expected[state][2] = type
    BY <1>2 DEF Expected
  <2>. QED OBVIOUS
<1>3. CASE state = "PowerDelivery" /\ type = "WeldingDetection"
  <2>. 3 \in 1 .. Len(Expected[state]) /\ Expected[state][3] = type
    BY <1>3 DEF Expected
  <2>. QED OBVIOUS
<1>4. CASE state = "CurrentDemand" /\ type = "PowerDelivery"
  <2>. 2 \in 1 .. Len(Expected[state]) /\ Expected[state][2] = type
    BY <1>4 DEF Expected
  <2>. QED OBVIOUS
<1>5. CASE state = "WeldingDetection" /\ type = "SessionStop"
  <2>. 2 \in 1 .. Len(Expected[state]) /\ Expected[state][2] = type
    BY <1>5 DEF Expected
  <2>. QED OBVIOUS
<1>6. CASE state = "WeldingDetection" /\ type = state
  <2>. 1 \in 1 .. Len(Expected[state]) /\ Expected[state][1] = type
    BY <1>6 DEF Expected
  <2>. QED OBVIOUS
<1>. QED
  BY <1>1, <1>2, <1>3, <1>4, <1>5, <1>6 DEF Follows

\* Init: no session yet.
LEMMA JointInit == ChargingInit => JointInv
<1>. SUFFICES ASSUME ChargingInit PROVE JointInv
  OBVIOUS
<1>1. IInv
  BY InitIInv DEF ChargingInit
<1>2. ~Live
  BY DEF ChargingInit, Init, InitLoop, Live
<1>. QED
  BY <1>1, <1>2 DEF JointInv, WireKept, FeedKept

\* The station answers: what it answers, and where it then is, is what the
\* vehicle's state expects; otherwise it leaves its loop.
LEMMA AnswerKeeps ==
    ASSUME JointInv, UNCHANGED <<driven, modes>>, Answer
    PROVE  (WireKept /\ FeedKept)'
<1>. SUFFICES ASSUME Live' PROVE (WireKept /\ FeedKept)'
  BY DEF WireKept, FeedKept
<1>0. PICK isolation \in {"valid", "warning", "fault", "ongoing"} : StationTakes(isolation)
  BY DEF Answer
<1>1. Live /\ phase' = "reading"
  BY <1>0 DEF Live, StationTakes, vehicleVars
<1>2. /\ question # None /\ answer = None /\ question = request /\ Asked
      /\ UNCHANGED <<evPhase, evState, request, pilot, full>>
      /\ question' = None
      /\ answer' = [code |-> reply', finished |-> state' # state, safe |-> isolation = "valid"]
      /\ ended' = (ended \/ (question = "PowerDeliveryStop" /\ reply' = "ok"))
      /\ Handles(question, isolation)
  BY <1>0, <1>1 DEF WireKept, JointInv, StationTakes, vehicleVars
<1>3. /\ evState \in {"CableCheck", "PreCharge", "PowerDelivery", "CurrentDemand"} => pilot
      /\ evse.power = "charging" =>
            \/ evState = "CurrentDemand"
            \/ evState = "PowerDelivery" /\ request = "PowerDeliveryStop"
      /\ ended => evse.power = "off"
      /\ obj \in Flags /\ evse \in Evse /\ state \in States
  BY <1>1 DEF JointInv, FeedKept, IInv, TypeOK, LoopTypeOK
<1>4. SUFFICES reply' = "ok" /\ Answered' /\ FeedKept'
  <2>1. answer' # None
    BY <1>2, AnswerIsMessage
  <2>. QED
    BY <1>2, <2>1 DEF WireKept
<1>. USE <1>1, <1>2, <1>3
<1>. USE DEF Asked, InOrder
<1>5. CASE question = "SupportedAppProtocol" /\ SupportedAppProtocol
  BY <1>5 DEF SupportedAppProtocol, Goes, Fails, Stops, Answered, After, FeedKept
<1>6. CASE question = "SessionSetup" /\ SessionSetup
  BY <1>6 DEF SessionSetup, Goes, Answered, After, FeedKept
<1>7. CASE question = "ServiceDiscovery" /\ ServiceDiscovery
  BY <1>7 DEF ServiceDiscovery, Goes, Raises, Stops, Answered, After, FeedKept
<1>8. CASE question = "ServicePaymentSelection" /\ ServicePaymentSelection(TRUE, TRUE)
  BY <1>8 DEF ServicePaymentSelection, Goes, Fails, Stops, Answered, After, FeedKept
<1>9. CASE /\ question = "ContractAuthentication"
           /\ \E status \in {"accepted", "ongoing", "rejected"} : ContractAuthentication(status)
  BY <1>9 DEF ContractAuthentication, Goes, Stays, Answered, After, FeedKept
<1>10. CASE /\ question = "ChargeParameterDiscovery"
            /\ \E mode \in modes, scheduled \in BOOLEAN : ChargeParameterDiscovery(mode, scheduled)
  BY <1>10 DEF ChargeParameterDiscovery, AfterParameters, Goes, Stays, Fails, Stops,
               Answered, After, FeedKept
<1>11. CASE /\ question = "CableCheck"
            /\ \E evError \in BOOLEAN, closed \in {"yes", "no", "ongoing"} :
                  CableCheck(evError, closed, isolation)
  <2>1. evState = "CableCheck" /\ state = "CableCheck" /\ ~ended /\ ~ended'
    BY <1>11
  <2>2. /\ reply' = "ok" /\ state' \in {"CableCheck", "PreCharge"}
        /\ evse' = evse \/ evse' = [evse EXCEPT !.power = "insulation"]
    BY <1>11, <2>1 DEF CableCheck, Goes, Stays, Fails, Stops
  <2>. QED
    BY <2>1, <2>2 DEF Answered, After, FeedKept, Evse
<1>12. CASE question = "PreCharge" /\ \E fine \in BOOLEAN : PreCharge(fine)
  BY <1>12 DEF PreCharge, Stays, Handler, Flags, Evse, Fails, Stops, Answered, FeedKept
<1>13. CASE question = "PowerDeliveryStart" /\ PowerDeliveryStart
  BY <1>13 DEF PowerDeliveryStart, Goes, Announce, Evse, Answered, FeedKept
<1>14. CASE question = "PowerDeliveryStop" /\ \E opened \in BOOLEAN : PowerDeliveryStop(opened)
  BY <1>14 DEF PowerDeliveryStop, Stays, Handler, Fresh, Flags, Evse, StopCharger, Fails, Stops,
               Answered, FeedKept
<1>15. CASE question = "CurrentDemand" /\ \E fine \in BOOLEAN : CurrentDemand(fine)
  BY <1>15 DEF CurrentDemand, Stays, Handler, Flags, Evse, Fails, Stops, Answered, FeedKept
<1>16. CASE question = "WeldingDetection" /\ WeldingDetection
  <2>1. Accepts("WeldingDetection")
    BY <1>16 DEF WeldingDetection, Receive
  <2>2. state # "CurrentDemand"
    BY <2>1, AcceptedTypes DEF Follows
  <2>. QED
    BY <1>16, <2>2 DEF WeldingDetection, Stays, Handler, Fresh, Flags, Answered, FeedKept
<1>17. CASE SessionStop \/ Refuse(TypeOf(question))
  BY <1>17 DEF SessionStop, Refuse, Fails, Stops
<1>. QED
  BY <1>5, <1>6, <1>7, <1>8, <1>9, <1>10, <1>11, <1>12, <1>13, <1>14, <1>15, <1>16, <1>17
     DEF Handles

\* The vehicle takes an answer and asks what the station, where it now is,
\* listens to; otherwise it leaves its loop.
LEMMA TakesKeeps ==
    ASSUME JointInv, UNCHANGED <<driven, modes>>, VehicleTakes
    PROVE  (WireKept /\ FeedKept)'
<1>. SUFFICES ASSUME Live' PROVE (WireKept /\ FeedKept)'
  BY DEF WireKept, FeedKept
<1>0. /\ answer # None /\ answer' = None /\ question' = request'
      /\ UNCHANGED <<phase, state, obj, evse, ended>>
  BY DEF VehicleTakes, stationVars, vars, loopVars
<1>1. evPhase' = "waiting"
  BY DEF Live
<1>2. answer.code = "ok" /\ Reads
  BY <1>1 DEF VehicleTakes, Ev!Refused, Ev!Broken, Ev!Quits, Ev!Aborts, Ev!Leaves
<1>3. Live
  <2>1. evPhase = "waiting"
    BY <1>2 DEF Reads, Ev!Awaits, Ev!SessionSetup, Ev!ServicePaymentSelection,
          Ev!ContractAuthentication, Ev!ChargeParameterDiscovery, Ev!CableCheck,
          Ev!ServiceDiscovery, Ev!PreCharge, Ev!PowerDelivery, Ev!WeldingDetection,
          Ev!CurrentDemand, Ev!SessionStop
  <2>. QED
    BY <1>0, <2>1 DEF Live
<1>4. Answered
  BY <1>0, <1>3 DEF WireKept, JointInv
<1>5. /\ evState \in {"CableCheck", "PreCharge", "PowerDelivery", "CurrentDemand"} => pilot
      /\ evse.power = "charging" =>
            \/ evState = "CurrentDemand"
            \/ evState = "PowerDelivery" /\ request = "PowerDeliveryStop"
      /\ ended => evse.power = "off"
      /\ obj \in Flags /\ evse \in Evse /\ state \in States
  BY <1>3 DEF JointInv, FeedKept, IInv, TypeOK, LoopTypeOK
<1>6. SUFFICES request' \in Ev!DinRequests /\ Asked' /\ FeedKept'
  <2>1. question' # None
    BY <1>0, QuestionIsMessage
  <2>. QED
    BY <1>0, <2>1 DEF WireKept
<1>. USE <1>0, <1>1, <1>4, <1>5
<1>. USE DEF Asked, InOrder, Answered, After, FeedKept, Ev!Awaits, Ev!Asks, Ev!DinRequests,
             Ev!DinStates
<1>7. CASE /\ Ev!Awaits("SupportedAppProtocol")
           /\ Ev!Asks("SessionSetup", "SessionSetup")
           /\ UNCHANGED <<vehicle, timer, timerOf, tls, pilot, full, ev>>
  BY <1>7
<1>8. CASE Ev!SessionSetup
  BY <1>8 DEF Ev!SessionSetup
<1>9. CASE Ev!ServicePaymentSelection
  BY <1>9 DEF Ev!ServicePaymentSelection
<1>10. CASE Ev!ContractAuthentication(answer.finished)
  BY <1>10 DEF Ev!ContractAuthentication, Ev!Quits, Ev!Leaves, Ev!Repeats
<1>11. CASE Ev!ChargeParameterDiscovery(answer.finished)
  BY <1>11 DEF Ev!ChargeParameterDiscovery, Ev!Waits, Ev!Quits, Ev!Leaves, Ev!Repeats
<1>12. CASE Ev!CableCheck(answer.finished, answer.safe)
  BY <1>12 DEF Ev!CableCheck, Ev!Waits, Ev!Quits, Ev!Leaves, Ev!Repeats
<1>13. ASSUME NEW yes \in BOOLEAN, Ev!ServiceDiscovery(yes)
       PROVE  request' \in Ev!DinRequests /\ Asked' /\ FeedKept'
  BY <1>13 DEF Ev!ServiceDiscovery, Ev!Quits, Ev!Leaves
<1>14. ASSUME NEW yes \in BOOLEAN, Ev!PreCharge(yes)
       PROVE  request' \in Ev!DinRequests /\ Asked' /\ FeedKept'
  BY <1>14 DEF Ev!PreCharge, Ev!Waits, Ev!Quits, Ev!Leaves, Ev!Repeats
<1>15. ASSUME NEW yes \in BOOLEAN, Ev!PowerDelivery(yes)
       PROVE  request' \in Ev!DinRequests /\ Asked' /\ FeedKept'
  <2>1. /\ evState = "PowerDelivery"
        /\ full => ~yes
        /\ yes => evState' = "CurrentDemand" /\ request' = "CurrentDemand" /\ pilot' = pilot
        /\ ~yes => evState' = "WeldingDetection" /\ request' = "WeldingDetection" /\ full'
    BY <1>15 DEF Ev!PowerDelivery, Ev!Continues
  <2>2. CASE request = "PowerDeliveryStart" /\ yes
    BY <2>1, <2>2
  <2>3. CASE request = "PowerDeliveryStart" /\ ~yes
    BY <2>1, <2>3
  <2>4. CASE request = "PowerDeliveryStop"
    BY <2>1, <2>4
  <2>. QED
    BY <2>1, <2>2, <2>3, <2>4
<1>16. ASSUME NEW yes \in BOOLEAN, Ev!WeldingDetection(yes)
       PROVE  request' \in Ev!DinRequests /\ Asked' /\ FeedKept'
  BY <1>16 DEF Ev!WeldingDetection, Ev!Quits, Ev!Leaves, Ev!Repeats
<1>17. ASSUME NEW yes \in BOOLEAN, NEW more \in BOOLEAN, Ev!CurrentDemand(yes, more)
       PROVE  request' \in Ev!DinRequests /\ Asked' /\ FeedKept'
  BY <1>17 DEF Ev!CurrentDemand, Ev!Continues, Ev!Repeats
<1>18. CASE Ev!SessionStop
  BY <1>18 DEF Ev!SessionStop, Ev!Completes, Ev!Leaves
<1>. QED
  BY <1>2, <1>7, <1>8, <1>9, <1>10, <1>11, <1>12, <1>13, <1>14, <1>15, <1>16, <1>17, <1>18
     DEF Reads

LEMMA JointNext == JointInv /\ [ChargingNext]_allVars => JointInv'
<1>. SUFFICES ASSUME JointInv, [ChargingNext]_allVars PROVE JointInv'
  OBVIOUS
<1>1. IInv'
  <2>1. ModesKnown
    BY DEF JointInv, IInv, TypeOK, ModesKnown
  <2>. QED
    BY <2>1, StationStep, NextIInv DEF JointInv
<1>2. SUFFICES (WireKept /\ FeedKept)'
  BY <1>1 DEF JointInv
<1>3. CASE UNCHANGED allVars
  BY <1>3 DEF allVars, stationVars, vars, loopVars, vehicleVars, wire, JointInv, WireKept,
              FeedKept, Live, Asked, Answered
<1>4. CASE ~Live'
  BY <1>4 DEF WireKept, FeedKept
<1>5. CASE driven /\ UNCHANGED <<driven, modes>> /\ DrivenStep /\ Live'
  <2>1. CASE Connects
    <3>1. /\ evse.power = "off" /\ evse' = evse
          /\ state' = "SupportedAppProtocol"
      BY <2>1 DEF Connects, Connect, StartLoop, JointInv, IInv, AuthorizationKept
    <3>2. /\ question' = "SupportedAppProtocol" /\ answer' = None /\ ended' = FALSE
          /\ evState' = "SupportedAppProtocol" /\ request' = "SupportedAppProtocol"
      BY <2>1 DEF Connects, Ev!Begins
    <3>3. question' # None
      BY <3>2, QuestionIsMessage DEF Ev!DinRequests, Ev!DinStates
    <3>. QED
      BY <3>1, <3>2, <3>3 DEF WireKept, FeedKept, Asked, InOrder
  <2>2. CASE Answer
    BY <1>5, <2>2, AnswerKeeps
  <2>3. CASE VehicleTakes
    BY <1>5, <2>3, TakesKeeps
  <2>4. CASE Elapses
    <3>1. UNCHANGED <<phase, state, obj, evse, question, answer, ended, driven, evPhase,
                      evState, request, pilot, full>>
      BY <1>5, <2>4 DEF Elapses, Ev!Elapse, stationVars, vars, loopVars, wire
    <3>. QED
      BY <3>1 DEF JointInv, WireKept, FeedKept, Live, Asked, Answered
  <2>5. ~(NextVehicle \/ VehicleBreaks \/ StationBreaks \/ Disconnect \/ Ev!Stopped)
    BY <1>5 DEF NextVehicle, VehicleBreaks, StationBreaks, Disconnect, Ev!Stopped, Ev!Broken,
          Ev!Aborts, Ev!Leaves, ConnectionLost, Lost, Stops, EndLoop, Live
  <2>6. ~(VehicleDies \/ StationDies \/ Over)
    BY <1>5 DEF VehicleDies, StationDies, Over, Ev!ReadError, ConnectionError, ReadError, Live,
          stationVars, vars, loopVars, vehicleVars
  <2>. QED
    BY <1>5, <2>1, <2>2, <2>3, <2>4, <2>5, <2>6 DEF DrivenStep
<1>. QED
  BY <1>3, <1>4, <1>5 DEF ChargingNext, Live

LEMMA JointInvariant == ChargingSpec => []JointInv
<1>. QED
  BY JointInit, JointNext, PTL DEF ChargingSpec

\* Whatever the station answered, the hardware did and earlier sessions left
\* behind, no request of the vehicle comes out of the order that the check of
\* the station (check_msg) insists on, but for the one exception of InStep.
THEOREM ChargingInStep == ChargingSpec => []InStep
<1>1. JointInv => InStep
  <2>. SUFFICES ASSUME JointInv, Live, question # None,
                       ~(question = "WeldingDetection" /\ full /\ ~ended)
                PROVE  Accepts(TypeOf(question))
    BY DEF InStep, Live
  <2>1. question = request /\ Asked
    BY DEF JointInv, WireKept
  <2>2. CASE question = state /\ state \in InOrder
    BY <2>2, AcceptsOwn DEF InOrder, TypeOf
  <2>3. CASE /\ TypeOf(question) = "PowerDelivery" /\ ~obj.expecting
             /\ state \in {"PreCharge", "CurrentDemand"}
    BY <2>3, AcceptsFollowing DEF Follows
  <2>4. CASE /\ question = "WeldingDetection" /\ ~obj.expecting
             /\ state \in {"PowerDelivery", "WeldingDetection"}
    BY <2>4, AcceptsFollowing DEF Follows, TypeOf
  <2>5. CASE /\ question = "SessionStop" /\ ~obj.expecting /\ state = "WeldingDetection"
    BY <2>5, AcceptsFollowing DEF Follows, TypeOf
  <2>. QED
    BY <2>1, <2>2, <2>3, <2>4, <2>5 DEF Asked, TypeOf
<1>. QED
  BY <1>1, JointInvariant, PTL

\* Station and vehicle never both wait for the other: while both are in
\* rcv_loop a request or a response is on its way.
THEOREM ChargingNoMutualWait == ChargingSpec => []NoMutualWait
<1>1. JointInv => NoMutualWait
  BY DEF JointInv, WireKept, NoMutualWait, Live
<1>. QED
  BY <1>1, JointInvariant, PTL

\* The station feeds a listening vehicle only with the control pilot set, and
\* the vehicle tests its contactors (WeldingDetection) on an output that is off.
THEOREM ChargingFedWhileAsked == ChargingSpec => []FedWhileAsked
<1>1. JointInv => FedWhileAsked
  BY DEF JointInv, FeedKept, FedWhileAsked, Live
<1>. QED
  BY <1>1, JointInvariant, PTL
=============================================================================
