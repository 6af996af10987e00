---------------------------- MODULE SeccV2Proofs ----------------------------
(***************************************************************************)
(* Proofs about the ISO 15118-2 state machine: whatever the vehicle sends, *)
(* energy needs authorization, Plug & Charge a proof of the contract, DC   *)
(* an insulation test, charging an offered schedule, and every end is      *)
(* cold.                                                                   *)
(*                                                                         *)
(* The code keeps no record that a session is authorized, proven or tested:*)
(* it follows from the class of the current state and the flags of its     *)
(* object.  The properties are therefore not inductive; the strengthening  *)
(* says, for each of them, what being in a class implies.                  *)
(***************************************************************************)
EXTENDS SeccV2, TLAPS

\* The states that are entered only after the authorization.
AfterAuthorization ==
    {"ChargeParameterDiscovery", "PowerDelivery", "MeteringReceipt", "SessionStop",
     "ChargingStatus", "CableCheck", "PreCharge", "CurrentDemand", "WeldingDetection"}

\* The authorization is remembered by where the session stands.
AuthorizationKept ==
    /\ (phase = "reading" /\ state \in AfterAuthorization) => sess.accepted
    /\ (phase = "reading" /\ sess.accepted) => state \in AfterAuthorization \cup {"Authorization"}
    /\ (phase = "reading" /\ state = "Authorization" /\ obj.complete) => sess.accepted

\* So is the proof of the contract.
ProofKept ==
    (phase = "reading" /\ state = "Authorization" /\ obj.verified /\ sess.auth = "pnc")
        => (sess.chain /\ sess.proven)

\* The output is off where the sequence may end, and a PowerDelivery object that
\* has answered has stopped the charger.
OffAtTheEnd ==
    /\ phase \in {"idle", "stopping"} => evse.power = "off"
    /\ state \in {"SessionStop", "WeldingDetection"} => evse.power = "off"
    /\ (phase = "reading" /\ state = "PowerDelivery" /\ ~obj.expecting) => evse.power = "off"

\* The way to PowerDelivery in a DC session is through the insulation test: the
\* parameters, once answered with schedules, have been left.
TestedBefore ==
    /\ (phase = "reading" /\ state = "ChargeParameterDiscovery") => obj.expecting
    /\ (phase = "reading" /\ ~sess.ac
        /\ state \in {"PowerDelivery", "MeteringReceipt", "ChargingStatus", "PreCharge",
                      "CurrentDemand"}) => sess.isolated

\* The charging loop and its receipts have a schedule that is still offered.
ScheduleKept ==
    (phase = "reading" /\ state \in {"ChargingStatus", "CurrentDemand", "MeteringReceipt"})
        => sess.schedule \in sess.schedules

\* So does the announcement of high-level charging, which only a stop takes back.
HlcKept ==
    (phase = "reading" /\ state \in {"ChargingStatus", "CurrentDemand", "MeteringReceipt"})
        => evse.hlc

IInv ==
    /\ TypeOK
    /\ AuthorizedEnergy
    /\ PncProven
    /\ AuthorizationKept
    /\ ProofKept
    /\ OffAtTheEnd
    /\ TestedBefore
    /\ ScheduleKept
    /\ HlcKept

\* The requests that a state accepts besides its own, once it has answered one.
Follows(s, type) ==
    \/ s = "ServiceDiscovery" /\ type \in {"ServiceDetail", "PaymentServiceSelection"}
    \/ s = "ServiceDetail" /\ type \in {"PaymentServiceSelection"}
    \/ s = "PaymentServiceSelection" /\ type \in {"CertificateInstallation", "PaymentDetails",
          "Authorization"}
    \/ s = "ChargeParameterDiscovery" /\ type \in {"PowerDelivery", "CableCheck"}
    \/ s = "PowerDelivery" /\ type \in {"SessionStop", "WeldingDetection"}
    \/ s = "MeteringReceipt" /\ type \in {"ChargingStatus", "CurrentDemand", "PowerDelivery"}
    \/ s = "ChargingStatus" /\ type \in {"PowerDelivery", "MeteringReceipt"}
    \/ s = "PreCharge" /\ type \in {"PowerDelivery"}
    \/ s = "CurrentDemand" /\ type \in {"PowerDelivery"}
    \/ s = "WeldingDetection" /\ type \in {"SessionStop"}

\* What check_msg accepts, with the lists of the states spelled out.
LEMMA AcceptedTypes ==
    ASSUME state \in States, obj \in Flags, NEW type, Accepts(type)
    PROVE  type = state \/ (~obj.expecting /\ Follows(state, type))
<1>0. PICK i \in 1 .. Len(Expected[state]) :
          Expected[state][i] = type /\ (obj.expecting => i = 1)
  BY DEF Accepts, AcceptedBy
<1>1. CASE state = "SupportedAppProtocol"
  BY <1>0, <1>1 DEF Expected, Follows, Flags
<1>2. CASE state = "SessionSetup"
  BY <1>0, <1>2 DEF Expected, Follows, Flags
<1>3. CASE state = "ServiceDiscovery"
  BY <1>0, <1>3 DEF Expected, Follows, Flags
<1>4. CASE state = "ServiceDetail"
  BY <1>0, <1>4 DEF Expected, Follows, Flags
<1>5. CASE state = "PaymentServiceSelection"
  BY <1>0, <1>5 DEF Expected, Follows, Flags
<1>6. CASE state = "CertificateInstallation"
  BY <1>0, <1>6 DEF Expected, Follows, Flags
<1>7. CASE state = "PaymentDetails"
  BY <1>0, <1>7 DEF Expected, Follows, Flags
<1>8. CASE state = "Authorization"
  BY <1>0, <1>8 DEF Expected, Follows, Flags
<1>9. CASE state = "ChargeParameterDiscovery"
  BY <1>0, <1>9 DEF Expected, Follows, Flags
<1>10. CASE state = "PowerDelivery"
  BY <1>0, <1>10 DEF Expected, Follows, Flags
<1>11. CASE state = "MeteringReceipt"
  BY <1>0, <1>11 DEF Expected, Follows, Flags
<1>12. CASE state = "SessionStop"
  BY <1>0, <1>12 DEF Expected, Follows, Flags
<1>13. CASE state = "ChargingStatus"
  BY <1>0, <1>13 DEF Expected, Follows, Flags
<1>14. CASE state = "CableCheck"
  BY <1>0, <1>14 DEF Expected, Follows, Flags
<1>15. CASE state = "PreCharge"
  BY <1>0, <1>15 DEF Expected, Follows, Flags
<1>16. CASE state = "CurrentDemand"
  BY <1>0, <1>16 DEF Expected, Follows, Flags
<1>17. CASE state = "WeldingDetection"
  BY <1>0, <1>17 DEF Expected, Follows, Flags
<1>. QED
  BY <1>1, <1>2, <1>3, <1>4, <1>5, <1>6, <1>7, <1>8, <1>9, <1>10, <1>11, <1>12, <1>13, <1>14,
     <1>15, <1>16, <1>17
  DEF States, Expected

Paused == [auth : Auths \cup {None}, schedule : ScheduleIds \cup {None}]

\* The end of a session keeps the invariant, whatever it does to the session, if
\* it does not accept an unproven contract.
LEMMA EndKeeps ==
    ASSUME IInv, NEW a \in {"terminate", "pause"}, NEW r \in {"ok", "failed", "none"},
           NEW e \in Evse, Stops(a, r, e), last' \in States \cup Requests \cup {None},
           config' \in Configs, sess' \in Session, ctx' \in Context, paused' \in Paused,
           PncProven'
    PROVE  IInv'
<1>1. phase' = "stopping" /\ evse' \in Evse /\ evse'.power = "off"
  BY DEF Stops, StopCharger, Evse, Uses
<1>2. TypeOK'
  BY <1>1 DEF IInv, TypeOK, LoopTypeOK, Stops, Paused
<1>. QED
  BY <1>1, <1>2 DEF IInv, AuthorizedEnergy, AuthorizationKept, ProofKept, OffAtTheEnd,
     TestedBefore, ScheduleKept, HlcKept

\* The initial state.
LEMMA InitIInv == Init => IInv
BY V2Constants
DEF Init, InitLoop, NewSession, NoContext, Fresh, IInv, TypeOK, LoopTypeOK, AuthorizedEnergy,
   PncProven, AuthorizationKept, ProofKept, OffAtTheEnd, TestedBefore, ScheduleKept, HlcKept,
   AfterAuthorization, States, Expected,
   Session, Context, Flags, Evse, Uses, Auths

\* One step keeps the invariant.
LEMMA NextIInv == IInv /\ [Next]_vars => IInv'
<1>. SUFFICES ASSUME IInv, [Next]_vars PROVE IInv'
  OBVIOUS
<1>. USE V2Constants
<1>types. /\ TypeOK
          /\ state \in States /\ obj \in Flags /\ sess \in Session /\ ctx \in Context
          /\ paused \in Paused /\ evse \in Evse /\ last \in States \cup Requests \cup {None}
  BY DEF IInv, TypeOK, LoopTypeOK, Paused
<1>config. config \in Configs /\ config \in Config /\ config' \in Configs
  BY V2Constants DEF IInv, TypeOK, Next, vars
<1>. USE <1>config
<1>fresh. Fresh \in Flags
  BY DEF Fresh, Flags
<1>flags. /\ Fresh \in Flags
          /\ \A type : Handler(type) \in Flags
          /\ \A type : [Handler(type) EXCEPT !.expecting = FALSE] \in Flags
          /\ \A type : [Handler(type) EXCEPT !.expecting = TRUE] \in Flags
  BY <1>types DEF Fresh, Flags, Handler
<1>names. {"SupportedAppProtocol", "SessionSetup", "ServiceDiscovery", "ServiceDetail",
           "PaymentServiceSelection", "CertificateInstallation", "PaymentDetails",
           "Authorization"} \cup AfterAuthorization \subseteq States
  BY DEF States, Expected, AfterAuthorization
<1>accepted. ASSUME NEW type, Accepts(type)
             PROVE  type = state \/ (~obj.expecting /\ Follows(state, type))
  BY <1>types, <1>accepted, AcceptedTypes
<1>connect. ASSUME NEW tls \in BOOLEAN, Connect(tls) PROVE IInv'
  <2>1. evse.power = "off"
    BY <1>connect DEF Connect, StartLoop, IInv, OffAtTheEnd
  <2>2. NewSession(tls) \in Session
    BY DEF NewSession, Session, Auths
  <2>3. TypeOK'
    BY <1>connect, <1>types, <1>fresh, <2>2
    DEF Connect, StartLoop, TypeOK, LoopTypeOK, States, Expected
  <2>. QED
    BY <1>connect, <2>1, <2>3
    DEF Connect, StartLoop, NewSession, IInv, AuthorizedEnergy, PncProven, AuthorizationKept,
       ProofKept, OffAtTheEnd, TestedBefore, ScheduleKept, HlcKept, AfterAuthorization
<1>disconnect. ASSUME Disconnect PROVE IInv'
  <2>1. TypeOK'
    BY <1>disconnect, <1>types DEF Disconnect, EndLoop, TypeOK, LoopTypeOK, NoContext, Context
  <2>. QED
    BY <1>disconnect, <2>1
    DEF Disconnect, EndLoop, IInv, AuthorizedEnergy, PncProven, AuthorizationKept, ProofKept,
       OffAtTheEnd, TestedBefore, ScheduleKept, HlcKept, AfterAuthorization
<1>lost. ASSUME ConnectionLost PROVE IInv'
  BY <1>lost, <1>types, EndKeeps DEF ConnectionLost, Lost, TypeOK, LoopTypeOK, IInv, PncProven
<1>error. ASSUME ConnectionError PROVE IInv'
  <2>1. TypeOK'
    BY <1>error, <1>types DEF ConnectionError, ReadError, TypeOK, LoopTypeOK
  <2>. QED
    BY <1>error, <2>1
    DEF ConnectionError, ReadError, IInv, AuthorizedEnergy, PncProven, AuthorizationKept,
       ProofKept, OffAtTheEnd, TestedBefore, ScheduleKept, HlcKept
<1>bad. ASSUME BadMessage PROVE IInv'
  BY <1>bad, <1>types, EndKeeps DEF BadMessage, Undecodable, Raises, IInv, PncProven
<1>refuse. ASSUME NEW type \in Requests, Refuse(type) PROVE IInv'
  BY <1>refuse, <1>types, EndKeeps DEF Refuse, Raises, Fails, IInv, PncProven
<1>sap. ASSUME SupportedAppProtocol PROVE IInv'
  <2>0. phase = "reading" /\ Accepts("SupportedAppProtocol") /\ last' = "SupportedAppProtocol"
    BY <1>sap DEF SupportedAppProtocol, Receive
  <2>1. "SupportedAppProtocol" = state \/ (~obj.expecting /\ Follows(state, "SupportedAppProtocol"))
    BY <2>0, <1>accepted
  <2>2. last' \in States \cup Requests \cup {None} /\ "SupportedAppProtocol" \in States
    BY <2>0 DEF States, Expected, Requests
  <2>3. CASE phase' = "stopping"
    <3>1. sess' \in Session /\ ctx' \in Context /\ paused' \in Paused /\ PncProven'
      BY <1>sap, <1>types, <2>0, <2>3
      DEF SupportedAppProtocol, Fails, Raises, Goes, Stays, Session, PncProven, IInv
    <3>. QED
      BY <1>sap, <1>types, <2>0, <2>2, <2>3, <3>1, EndKeeps
      DEF SupportedAppProtocol, Fails, Raises, Goes, Stays
  <2>4. CASE phase' = "reading"
    <3>1. /\ state' \in States /\ obj' \in Flags
          /\ reply' \in {"ok", "failed", "none"} /\ stopAction' \in {"terminate", "pause"}
      BY <1>sap, <1>types, <1>names, <1>flags, <2>0, <2>2, <2>4
      DEF SupportedAppProtocol, Goes, Stays, Stops, Fails, Raises, TypeOK, LoopTypeOK,
         AfterAuthorization
    <3>2. sess' \in Session /\ ctx' \in Context /\ paused' \in Paused /\ evse' \in Evse
      BY <1>sap, <1>types, <2>0, <2>4
      DEF SupportedAppProtocol, Goes, Stays, Stops, Fails, Raises, Session, Context, Paused,
         Evse, Uses
    <3>3. TypeOK'
      BY <2>2, <2>4, <3>1, <3>2 DEF TypeOK, LoopTypeOK, Paused
    <3>. QED
      BY <1>sap, <1>types, <2>0, <2>1, <2>4, <3>3
      DEF SupportedAppProtocol, Goes, Stays, Stops, Fails, Raises, Handler, Fresh, Follows,
         Flags, Session, Evse, IInv, AuthorizedEnergy, PncProven, AuthorizationKept, ProofKept,
         OffAtTheEnd, TestedBefore, ScheduleKept, HlcKept, AfterAuthorization
  <2>. QED
    BY <1>sap, <2>0, <2>3, <2>4 DEF SupportedAppProtocol, Goes, Stays, Stops, Fails, Raises
<1>setup. ASSUME SessionSetup PROVE IInv'
  <2>0. phase = "reading" /\ Accepts("SessionSetup") /\ last' = "SessionSetup"
    BY <1>setup DEF SessionSetup, Receive
  <2>1. "SessionSetup" = state \/ (~obj.expecting /\ Follows(state, "SessionSetup"))
    BY <2>0, <1>accepted
  <2>2. last' \in States \cup Requests \cup {None} /\ "SessionSetup" \in States
    BY <2>0 DEF States, Expected, Requests
  <2>t. [sess EXCEPT !.resumed = TRUE] \in Session /\ NewContext \in Context
    BY <1>types DEF NewContext, Session, Context
  <2>4. phase' = "reading"
    BY <1>setup, <2>0 DEF SessionSetup, Goes, Stays
  <2>5. /\ state' \in States /\ obj' \in Flags
        /\ reply' \in {"ok", "failed", "none"} /\ stopAction' \in {"terminate", "pause"}
    BY <1>setup, <1>types, <1>names, <1>flags, <2>0, <2>2, <2>4
    DEF SessionSetup, Goes, Stays, TypeOK, LoopTypeOK, AfterAuthorization
  <2>6. sess' \in Session /\ ctx' \in Context /\ paused' \in Paused /\ evse' \in Evse
    BY <1>setup, <1>types, <2>0, <2>4, <2>t
    DEF SessionSetup, Goes, Stays
  <2>7. TypeOK'
    BY <2>2, <2>4, <2>5, <2>6 DEF TypeOK, LoopTypeOK, Paused
  <2>. QED
    BY <1>setup, <1>types, <2>0, <2>1, <2>4, <2>7
    DEF SessionSetup, Goes, Stays, Handler, Fresh, Follows, Flags, Session, Evse, IInv,
       AuthorizedEnergy, PncProven, AuthorizationKept, ProofKept, OffAtTheEnd, TestedBefore,
       ScheduleKept, HlcKept, AfterAuthorization, NewContext
<1>discovery. ASSUME NEW eimAuthorized \in BOOLEAN, NEW wantsCert \in BOOLEAN,
       ServiceDiscovery(eimAuthorized, wantsCert)
  PROVE  IInv'
  <2>0. phase = "reading" /\ Accepts("ServiceDiscovery") /\ last' = "ServiceDiscovery"
    BY <1>discovery DEF ServiceDiscovery, Receive
  <2>1. "ServiceDiscovery" = state \/ (~obj.expecting /\ Follows(state, "ServiceDiscovery"))
    BY <2>0, <1>accepted
  <2>2. last' \in States \cup Requests \cup {None} /\ "ServiceDiscovery" \in States
    BY <2>0 DEF States, Expected, Requests
  <2>t. /\ AuthOptions(eimAuthorized) \in SUBSET Auths
        /\ \A o \in SUBSET Auths : [sess EXCEPT !.offered = o, !.eim = eimAuthorized] \in Session
        /\ \A o \in SUBSET Auths : [sess EXCEPT !.offered = o, !.eim = eimAuthorized,
              !.cert = sess.tls /\ config.install /\ wantsCert] \in Session
    <3>1. AuthOptions(eimAuthorized) \in SUBSET Auths
      BY <1>types DEF AuthOptions, Session, Context, Auths, Config
    <3>2. (sess.tls /\ config.install /\ wantsCert) \in BOOLEAN
      BY <1>types DEF Session, Config
    <3>3. \A o \in SUBSET Auths : [sess EXCEPT !.offered = o] \in Session
      BY <1>types DEF Session
    <3>4. \A s \in Session : [s EXCEPT !.eim = eimAuthorized] \in Session
      BY DEF Session
    <3>5. \A s \in Session, c \in BOOLEAN : [s EXCEPT !.cert = c] \in Session
      BY DEF Session
    <3>. QED
      BY <3>1, <3>2, <3>3, <3>4, <3>5
  <2>3. CASE phase' = "stopping"
    <3>0. sess' \in Session /\ ctx' \in Context /\ paused' \in Paused
      BY <1>discovery, <1>types, <2>0, <2>3, <2>t
      DEF ServiceDiscovery, Fails, Raises, Goes, Stays
    <3>1. sess' \in Session /\ ctx' \in Context /\ paused' \in Paused /\ PncProven'
      BY <1>discovery, <1>types, <2>0, <2>3, <3>0
      DEF ServiceDiscovery, Fails, Raises, Goes, Stays, Session, PncProven, IInv
    <3>. QED
      BY <1>discovery, <1>types, <2>0, <2>2, <2>3, <3>1, EndKeeps, <2>t
      DEF ServiceDiscovery, Fails, Raises, Goes, Stays
  <2>4. CASE phase' = "reading"
    <3>1. /\ state' \in States /\ obj' \in Flags
          /\ reply' \in {"ok", "failed", "none"} /\ stopAction' \in {"terminate", "pause"}
      BY <1>discovery, <1>types, <1>names, <1>flags, <2>0, <2>2, <2>4
      DEF ServiceDiscovery, Goes, Stays, Stops, Fails, Raises, TypeOK, LoopTypeOK,
         AfterAuthorization
    <3>2. sess' \in Session /\ ctx' \in Context /\ paused' \in Paused /\ evse' \in Evse
      BY <1>discovery, <1>types, <2>0, <2>4, <2>t
      DEF ServiceDiscovery, Goes, Stays, Stops, Fails, Raises
    <3>3. TypeOK'
      BY <2>2, <2>4, <3>1, <3>2 DEF TypeOK, LoopTypeOK, Paused
    <3>. QED
      BY <1>discovery, <1>types, <2>0, <2>1, <2>4, <3>3
      DEF ServiceDiscovery, Goes, Stays, Stops, Fails, Raises, Handler, Fresh, Follows, Flags,
         Session, Evse, IInv, AuthorizedEnergy, PncProven, AuthorizationKept, ProofKept,
         OffAtTheEnd, TestedBefore, ScheduleKept, HlcKept, AfterAuthorization, AuthOptions
  <2>. QED
    BY <1>discovery, <2>0, <2>3, <2>4 DEF ServiceDiscovery, Goes, Stays, Stops, Fails, Raises
<1>detail. ASSUME NEW offered \in BOOLEAN, ServiceDetail(offered) PROVE IInv'
  <2>0. phase = "reading" /\ Accepts("ServiceDetail") /\ last' = "ServiceDetail"
    BY <1>detail DEF ServiceDetail, Receive
  <2>1. "ServiceDetail" = state \/ (~obj.expecting /\ Follows(state, "ServiceDetail"))
    BY <2>0, <1>accepted
  <2>2. last' \in States \cup Requests \cup {None} /\ "ServiceDetail" \in States
    BY <2>0 DEF States, Expected, Requests
  <2>4. phase' = "reading"
    BY <1>detail, <2>0 DEF ServiceDetail, Goes, Stays
  <2>5. /\ state' \in States /\ obj' \in Flags
        /\ reply' \in {"ok", "failed", "none"} /\ stopAction' \in {"terminate", "pause"}
    BY <1>detail, <1>types, <1>names, <1>flags, <2>0, <2>2, <2>4
    DEF ServiceDetail, Goes, Stays, TypeOK, LoopTypeOK, AfterAuthorization
  <2>6. sess' \in Session /\ ctx' \in Context /\ paused' \in Paused /\ evse' \in Evse
    BY <1>detail, <1>types, <2>0, <2>4
    DEF ServiceDetail, Goes, Stays, Session, Context, Paused, Evse, Uses
  <2>7. TypeOK'
    BY <2>2, <2>4, <2>5, <2>6 DEF TypeOK, LoopTypeOK, Paused
  <2>. QED
    BY <1>detail, <1>types, <2>0, <2>1, <2>4, <2>7
    DEF ServiceDetail, Goes, Stays, Handler, Fresh, Follows, Flags, Session, Evse, IInv,
       AuthorizedEnergy, PncProven, AuthorizationKept, ProofKept, OffAtTheEnd, TestedBefore,
       ScheduleKept, HlcKept, AfterAuthorization
<1>selection. ASSUME NEW services, NEW a \in Auths, PaymentServiceSelection(services, a) PROVE IInv'
  <2>0. phase = "reading" /\ Accepts("PaymentServiceSelection") /\ last' = "PaymentServiceSelection"
    BY <1>selection DEF PaymentServiceSelection, Receive
  <2>1. "PaymentServiceSelection" = state \/ (~obj.expecting /\ Follows(state,
        "PaymentServiceSelection"))
    BY <2>0, <1>accepted
  <2>2. last' \in States \cup Requests \cup {None} /\ "PaymentServiceSelection" \in States
    BY <2>0 DEF States, Expected, Requests
  <2>t. [sess EXCEPT !.auth = a] \in Session /\ [ctx EXCEPT !.auth = {a}] \in Context
    BY <1>types DEF Session, Context
  <2>3. CASE phase' = "stopping"
    <3>1. sess' \in Session /\ ctx' \in Context /\ paused' \in Paused /\ PncProven'
      BY <1>selection, <1>types, <2>0, <2>3, <2>t
      DEF PaymentServiceSelection, Fails, Raises, Goes, Stays, Session, PncProven, IInv
    <3>. QED
      BY <1>selection, <1>types, <2>0, <2>2, <2>3, <3>1, EndKeeps, <2>t
      DEF PaymentServiceSelection, Fails, Raises, Goes, Stays
  <2>4. CASE phase' = "reading"
    <3>1. /\ state' \in States /\ obj' \in Flags
          /\ reply' \in {"ok", "failed", "none"} /\ stopAction' \in {"terminate", "pause"}
      BY <1>selection, <1>types, <1>names, <1>flags, <2>0, <2>2, <2>4
      DEF PaymentServiceSelection, Goes, Stays, Stops, Fails, Raises, TypeOK, LoopTypeOK,
         AfterAuthorization
    <3>2. sess' \in Session /\ ctx' \in Context /\ paused' \in Paused /\ evse' \in Evse
      BY <1>selection, <1>types, <2>0, <2>4, <2>t
      DEF PaymentServiceSelection, Goes, Stays, Stops, Fails, Raises
    <3>3. TypeOK'
      BY <2>2, <2>4, <3>1, <3>2 DEF TypeOK, LoopTypeOK, Paused
    <3>. QED
      BY <1>selection, <1>types, <2>0, <2>1, <2>4, <3>3
      DEF PaymentServiceSelection, Goes, Stays, Stops, Fails, Raises, Handler, Fresh, Follows,
         Flags, Session, Evse, IInv, AuthorizedEnergy, PncProven, AuthorizationKept, ProofKept,
         OffAtTheEnd, TestedBefore, ScheduleKept, HlcKept, AfterAuthorization
  <2>. QED
    BY <1>selection, <2>0, <2>3, <2>4
    DEF PaymentServiceSelection, Goes, Stays, Stops, Fails, Raises
<1>install. ASSUME CertificateInstallation PROVE IInv'
  <2>0. phase = "reading" /\ Accepts("CertificateInstallation") /\ last' = "CertificateInstallation"
    BY <1>install DEF CertificateInstallation, Receive
  <2>1. "CertificateInstallation" = state \/ (~obj.expecting /\ Follows(state,
        "CertificateInstallation"))
    BY <2>0, <1>accepted
  <2>2. last' \in States \cup Requests \cup {None} /\ "CertificateInstallation" \in States
    BY <2>0 DEF States, Expected, Requests
  <2>3. CASE phase' = "stopping"
    <3>1. sess' \in Session /\ ctx' \in Context /\ paused' \in Paused /\ PncProven'
      BY <1>install, <1>types, <2>0, <2>3
      DEF CertificateInstallation, Fails, Raises, Goes, Stays, Session, PncProven, IInv
    <3>. QED
      BY <1>install, <1>types, <2>0, <2>2, <2>3, <3>1, EndKeeps
      DEF CertificateInstallation, Fails, Raises, Goes, Stays
  <2>4. CASE phase' = "reading"
    <3>1. /\ state' \in States /\ obj' \in Flags
          /\ reply' \in {"ok", "failed", "none"} /\ stopAction' \in {"terminate", "pause"}
      BY <1>install, <1>types, <1>names, <1>flags, <2>0, <2>2, <2>4
      DEF CertificateInstallation, Goes, Stays, Stops, Fails, Raises, TypeOK, LoopTypeOK,
         AfterAuthorization
    <3>2. sess' \in Session /\ ctx' \in Context /\ paused' \in Paused /\ evse' \in Evse
      BY <1>install, <1>types, <2>0, <2>4
      DEF CertificateInstallation, Goes, Stays, Stops, Fails, Raises, Session, Context, Paused,
         Evse, Uses
    <3>3. TypeOK'
      BY <2>2, <2>4, <3>1, <3>2 DEF TypeOK, LoopTypeOK, Paused
    <3>. QED
      BY <1>install, <1>types, <2>0, <2>1, <2>4, <3>3
      DEF CertificateInstallation, Goes, Stays, Stops, Fails, Raises, Handler, Fresh, Follows,
         Flags, Session, Evse, IInv, AuthorizedEnergy, PncProven, AuthorizationKept, ProofKept,
         OffAtTheEnd, TestedBefore, ScheduleKept, HlcKept, AfterAuthorization
  <2>. QED
    BY <1>install, <2>0, <2>3, <2>4
    DEF CertificateInstallation, Goes, Stays, Stops, Fails, Raises
<1>details. ASSUME NEW verdict, PaymentDetails(verdict) PROVE IInv'
  <2>0. phase = "reading" /\ Accepts("PaymentDetails") /\ last' = "PaymentDetails"
    BY <1>details DEF PaymentDetails, Receive
  <2>1. "PaymentDetails" = state \/ (~obj.expecting /\ Follows(state, "PaymentDetails"))
    BY <2>0, <1>accepted
  <2>2. last' \in States \cup Requests \cup {None} /\ "PaymentDetails" \in States
    BY <2>0 DEF States, Expected, Requests
  <2>t. [sess EXCEPT !.chain = TRUE] \in Session
    BY <1>types DEF Session
  <2>3. CASE phase' = "stopping"
    <3>1. sess' \in Session /\ ctx' \in Context /\ paused' \in Paused /\ PncProven'
      BY <1>details, <1>types, <2>0, <2>3, <2>t
      DEF PaymentDetails, Fails, Raises, Goes, Stays, Session, PncProven, IInv
    <3>. QED
      BY <1>details, <1>types, <2>0, <2>2, <2>3, <3>1, EndKeeps, <2>t
      DEF PaymentDetails, Fails, Raises, Goes, Stays
  <2>4. CASE phase' = "reading"
    <3>1. /\ state' \in States /\ obj' \in Flags
          /\ reply' \in {"ok", "failed", "none"} /\ stopAction' \in {"terminate", "pause"}
      BY <1>details, <1>types, <1>names, <1>flags, <2>0, <2>2, <2>4
      DEF PaymentDetails, Goes, Stays, Stops, Fails, Raises, TypeOK, LoopTypeOK,
         AfterAuthorization
    <3>2. sess' \in Session /\ ctx' \in Context /\ paused' \in Paused /\ evse' \in Evse
      BY <1>details, <1>types, <2>0, <2>4, <2>t
      DEF PaymentDetails, Goes, Stays, Stops, Fails, Raises
    <3>3. TypeOK'
      BY <2>2, <2>4, <3>1, <3>2 DEF TypeOK, LoopTypeOK, Paused
    <3>. QED
      BY <1>details, <1>types, <2>0, <2>1, <2>4, <3>3
      DEF PaymentDetails, Goes, Stays, Stops, Fails, Raises, Handler, Fresh, Follows, Flags,
         Session, Evse, IInv, AuthorizedEnergy, PncProven, AuthorizationKept, ProofKept,
         OffAtTheEnd, TestedBefore, ScheduleKept, HlcKept, AfterAuthorization
  <2>. QED
    BY <1>details, <2>0, <2>3, <2>4 DEF PaymentDetails, Goes, Stays, Stops, Fails, Raises
<1>authorization. ASSUME NEW signature, NEW status, NEW ready \in BOOLEAN,
       Authorization(signature, status, ready)
  PROVE  IInv'
  <2>. DEFINE o == Handler("Authorization")
              signed == signature = "valid"
              complete == Authorized(o, status)
              proven == sess.proven \/ (sess.auth = "pnc" /\ ~o.verified /\ signed)
              accepted == sess.accepted \/ (~o.complete /\ status = "accepted")
              verified == o.verified \/ sess.auth = "pnc"
              seen == [sess EXCEPT !.proven = proven, !.accepted = accepted]
              kept == [o EXCEPT !.verified = verified, !.complete = complete]
  <2>0. phase = "reading" /\ Accepts("Authorization") /\ last' = "Authorization"
    BY <1>authorization DEF Authorization, Receive
  <2>1. "Authorization" = state \/ (~obj.expecting /\ Follows(state, "Authorization"))
    BY <2>0, <1>accepted
  <2>2. last' \in States \cup Requests \cup {None} /\ "Authorization" \in States
    BY <2>0 DEF States, Expected, Requests
  <2>3. /\ o.complete => sess.accepted
        /\ (o.verified /\ sess.auth = "pnc") => (sess.chain /\ sess.proven)
    BY <2>0 DEF Handler, Fresh, IInv, AuthorizationKept, ProofKept
  <2>4. seen \in Session /\ o \in Flags /\ kept \in Flags
    <3>1. proven \in BOOLEAN /\ accepted \in BOOLEAN /\ verified \in BOOLEAN /\ complete \in BOOLEAN
      BY DEF Authorized
    <3>2. o \in Flags
      BY <1>flags
    <3>. HIDE DEF proven, accepted, verified, complete, o
    <3>. QED
      BY <1>types, <3>1, <3>2 DEF Session, Flags
  <2>5. CASE /\ ~Proves(o, signed)
             /\ Raises(evse) \/ Fails(evse)
             /\ UNCHANGED <<sess, ctx, paused>>
    BY <2>2, <2>5, <1>types, EndKeeps DEF Raises, Fails, IInv, PncProven
  <2>6. CASE Proves(o, signed) /\ sess' = seen /\ UNCHANGED <<ctx, paused>>
    <3>1. /\ sess'.auth = sess.auth /\ sess'.chain = sess.chain /\ sess'.ac = sess.ac
          /\ sess'.isolated = sess.isolated /\ sess'.schedule = sess.schedule
          /\ sess'.schedules = sess.schedules
          /\ sess'.proven = (sess.proven \/ (sess.auth = "pnc" /\ ~o.verified /\ signed))
          /\ sess'.accepted = (sess.accepted \/ (~o.complete /\ status = "accepted"))
      <4>. HIDE DEF proven, accepted
      <4>1. /\ seen.auth = sess.auth /\ seen.chain = sess.chain /\ seen.ac = sess.ac
            /\ seen.isolated = sess.isolated /\ seen.schedule = sess.schedule
            /\ seen.schedules = sess.schedules
            /\ seen.proven = proven /\ seen.accepted = accepted
        BY <1>types DEF Session
      <4>. QED
        BY <2>6, <4>1 DEF proven, accepted
    <3>2. sess'.auth = "pnc" => (sess'.chain /\ sess'.proven)
      BY <2>3, <2>6, <3>1 DEF Proves
    <3>3. complete => sess'.accepted
      BY <2>3, <3>1 DEF Authorized
    <3>4. sess' \in Session /\ ctx' \in Context /\ paused' \in Paused
      BY <2>4, <2>6, <1>types
    <3>5. CASE complete /\ ready /\ Goes("ChargeParameterDiscovery") /\ UNCHANGED evse
      <4>1. TypeOK'
        BY <2>0, <2>2, <3>4, <3>5, <1>types, <1>names, <1>flags DEF Goes, TypeOK, LoopTypeOK,
           AfterAuthorization, Paused
      <4>. QED
        BY <2>0, <3>2, <3>3, <3>5, <4>1 DEF Goes, Fresh, IInv, AuthorizedEnergy, PncProven,
           AuthorizationKept, ProofKept, OffAtTheEnd, TestedBefore, ScheduleKept, HlcKept,
           AfterAuthorization
    <3>6. CASE Fails(evse)
      BY <2>2, <3>2, <3>4, <3>6, <1>types, EndKeeps DEF Fails, PncProven
    <3>7. CASE Stays("Authorization", kept, "ok") /\ UNCHANGED evse
      <4>1. TypeOK'
        BY <2>0, <2>2, <2>4, <3>4, <3>7, <1>types DEF Stays, TypeOK, LoopTypeOK, Paused
      <4>2. obj'.complete = complete
        BY <2>4, <3>7 DEF Stays, Flags
      <4>3. sess.accepted => sess'.accepted
        BY <3>1
      <4>. QED
        BY <2>0, <3>2, <3>3, <3>7, <4>1, <4>2, <4>3
        DEF Stays, IInv, AuthorizedEnergy, PncProven,
           AuthorizationKept, ProofKept, OffAtTheEnd, TestedBefore, ScheduleKept, HlcKept,
           AfterAuthorization
    <3>. QED
      BY <1>authorization, <2>6, <3>5, <3>6, <3>7 DEF Authorization
  <2>. QED
    BY <1>authorization, <2>5, <2>6 DEF Authorization
<1>parameters. ASSUME NEW mode, NEW schedules \in (SUBSET ScheduleIds) \cup {None},
       ChargeParameterDiscovery(mode, schedules)
  PROVE  IInv'
  <2>. DEFINE chosen == [sess EXCEPT !.ac = (mode = "ac"), !.isolated = FALSE]
  <2>0. phase = "reading" /\ Accepts("ChargeParameterDiscovery") /\ last' =
        "ChargeParameterDiscovery"
    BY <1>parameters DEF ChargeParameterDiscovery, Receive
  <2>1. "ChargeParameterDiscovery" = state \/ (~obj.expecting /\ Follows(state,
        "ChargeParameterDiscovery"))
    BY <2>0, <1>accepted
  <2>2. last' \in States \cup Requests \cup {None} /\ "ChargeParameterDiscovery" \in States
    BY <2>0 DEF States, Expected, Requests
  <2>3. state = "ChargeParameterDiscovery" /\ sess.accepted /\ obj.expecting
    BY <2>0, <2>1 DEF Follows, IInv, AuthorizationKept, TestedBefore, AfterAuthorization
  <2>4. /\ chosen \in Session /\ chosen.accepted
        /\ chosen.auth = sess.auth /\ chosen.chain = sess.chain /\ chosen.proven = sess.proven
        /\ chosen.ac = (mode = "ac") /\ chosen.isolated = FALSE
    BY <1>types, <2>3 DEF Session
  <2>5. CASE Fails(evse) /\ UNCHANGED <<sess, ctx, paused>>
    BY <2>2, <2>5, <1>types, EndKeeps DEF Fails, IInv, PncProven
  <2>6. CASE Raises(evse) /\ sess' = chosen /\ UNCHANGED <<ctx, paused>>
    BY <2>2, <2>4, <2>6, <1>types, EndKeeps DEF Raises, IInv, PncProven
  <2>7. CASE /\ Stays("ChargeParameterDiscovery",
                      [Handler("ChargeParameterDiscovery") EXCEPT !.expecting = TRUE], "ok")
             /\ sess' = chosen /\ UNCHANGED <<evse, ctx, paused>>
    <3>1. TypeOK'
      BY <2>0, <2>2, <2>4, <2>7, <1>types, <1>flags DEF Stays, TypeOK, LoopTypeOK, Paused
    <3>2. obj'.expecting
      BY <2>7, <1>flags DEF Stays, Flags
    <3>. QED
      BY <2>0, <2>4, <2>7, <3>1, <3>2 DEF Stays, IInv, AuthorizedEnergy, PncProven,
         AuthorizationKept, ProofKept, OffAtTheEnd, TestedBefore, ScheduleKept, HlcKept,
         AfterAuthorization
  <2>8. CASE /\ schedules \in SUBSET ScheduleIds
             /\ Goes(AfterParameters(mode = "ac"))
             /\ sess' = [chosen EXCEPT !.schedules = schedules]
             /\ UNCHANGED <<evse, ctx, paused>>
    <3>1. /\ sess' \in Session /\ sess'.accepted
          /\ sess'.auth = sess.auth /\ sess'.chain = sess.chain /\ sess'.proven = sess.proven
          /\ sess'.ac = (mode = "ac")
      <4>. HIDE DEF chosen
      <4>. QED
        BY <2>4, <2>8 DEF Session
    <3>2. state' = (IF sess'.ac THEN "PowerDelivery" ELSE "CableCheck") /\ obj' = Fresh
      BY <2>8, <3>1 DEF Goes, AfterParameters
    <3>3. TypeOK'
      BY <2>0, <2>2, <2>8, <3>1, <3>2, <1>types, <1>names, <1>flags
      DEF Goes, TypeOK, LoopTypeOK,
         AfterAuthorization, Paused
    <3>. QED
      BY <2>0, <2>8, <3>1, <3>2, <3>3 DEF Goes, Fresh, IInv, AuthorizedEnergy, PncProven,
         AuthorizationKept, ProofKept, OffAtTheEnd, TestedBefore, ScheduleKept, HlcKept,
         AfterAuthorization
  <2>. QED
    BY <1>parameters, <2>5, <2>6, <2>7, <2>8 DEF ChargeParameterDiscovery
<1>invalid. ASSUME NEW id \in ScheduleIds, NEW ok \in BOOLEAN, PowerDeliveryInvalid(id, ok)
  PROVE  IInv'
  <2>0. phase = "reading" /\ Accepts("PowerDelivery") /\ last' = "PowerDelivery"
    BY <1>invalid DEF PowerDeliveryInvalid, Receive
  <2>2. last' \in States \cup Requests \cup {None} /\ "PowerDelivery" \in States
    BY <2>0 DEF States, Expected, Requests
  <2>3. sess' \in Session /\ ctx' \in Context /\ paused' \in Paused /\ PncProven'
    BY <1>invalid, <1>types DEF PowerDeliveryInvalid, PncProven, IInv
  <2>. QED
    BY <1>invalid, <1>types, <2>2, <2>3, EndKeeps DEF PowerDeliveryInvalid, Fails
<1>start. ASSUME NEW id \in ScheduleIds, NEW ok \in BOOLEAN, PowerDeliveryStart(id, ok) PROVE IInv'
  <2>0. phase = "reading" /\ Accepts("PowerDelivery") /\ last' = "PowerDelivery"
    BY <1>start DEF PowerDeliveryStart, Receive
  <2>1. "PowerDelivery" = state \/ (~obj.expecting /\ Follows(state, "PowerDelivery"))
    BY <2>0, <1>accepted
  <2>2. last' \in States \cup Requests \cup {None} /\ "PowerDelivery" \in States
    BY <2>0 DEF States, Expected, Requests
  <2>. DEFINE announced == Announce(evse)
              begun == [sess EXCEPT !.schedule = id, !.started = TRUE]
  <2>3. sess.accepted
    BY <2>0, <2>1 DEF Follows, IInv, AuthorizationKept, AfterAuthorization
  <2>4. announced \in Evse /\ announced.hlc
        /\ [announced EXCEPT !.power = "charging"] \in Evse
        /\ [announced EXCEPT !.power = "charging"].hlc
    BY <1>types DEF Announce, Evse, Uses
  <2>5. CASE Fails(announced) /\ UNCHANGED <<sess, ctx, paused>>
    BY <2>2, <2>4, <2>5, <1>types, EndKeeps DEF Fails, IInv, PncProven
  <2>6. CASE /\ Goes(IF sess.ac THEN "ChargingStatus" ELSE "CurrentDemand")
             /\ evse' = IF sess.ac THEN [announced EXCEPT !.power = "charging"] ELSE announced
             /\ sess' = begun /\ UNCHANGED <<ctx, paused>>
    <3>1. /\ sess' \in Session /\ sess'.accepted
          /\ sess'.auth = sess.auth /\ sess'.chain = sess.chain /\ sess'.proven = sess.proven
          /\ sess'.ac = sess.ac /\ sess'.isolated = sess.isolated
          /\ sess'.schedules = sess.schedules /\ sess'.schedule = id
      BY <2>3, <2>6, <1>types DEF Session
    <3>2. id \in sess.schedules
      BY <1>start DEF PowerDeliveryStart, ScheduleKnown
    <3>3. ~sess.ac => sess.isolated
      BY <2>0, <2>1 DEF Follows, IInv, TestedBefore
    <3>4. TypeOK'
      BY <2>0, <2>2, <2>4, <2>6, <3>1, <1>types, <1>names, <1>flags
      DEF Goes, TypeOK, LoopTypeOK,
         AfterAuthorization, Paused
    <3>. QED
      BY <2>0, <2>4, <2>6, <3>1, <3>2, <3>3, <3>4 DEF Goes, Fresh, IInv, AuthorizedEnergy,
         PncProven,
         AuthorizationKept, ProofKept, OffAtTheEnd, TestedBefore, ScheduleKept, HlcKept,
         AfterAuthorization
  <2>. QED
    BY <1>start, <2>5, <2>6 DEF PowerDeliveryStart
<1>stop. ASSUME NEW id \in ScheduleIds, NEW ok \in BOOLEAN, PowerDeliveryStop(id, ok) PROVE IInv'
  <2>0. phase = "reading" /\ Accepts("PowerDelivery") /\ last' = "PowerDelivery"
    BY <1>stop DEF PowerDeliveryStop, Receive
  <2>1. "PowerDelivery" = state \/ (~obj.expecting /\ Follows(state, "PowerDelivery"))
    BY <2>0, <1>accepted
  <2>2. last' \in States \cup Requests \cup {None} /\ "PowerDelivery" \in States
    BY <2>0 DEF States, Expected, Requests
  <2>. DEFINE ended == StopCharger([evse EXCEPT !.hlc = FALSE])
              o == Handler("PowerDelivery")
  <2>3. ended \in Evse /\ ended.power = "off"
    BY <1>types DEF Evse, Uses, StopCharger
  <2>. HIDE DEF ended
  <2>4. sess.accepted /\ (~sess.ac => sess.isolated)
    BY <2>0, <2>1 DEF Follows, IInv, AuthorizationKept, TestedBefore, AfterAuthorization
  <2>5. /\ sess' \in Session /\ sess'.accepted
        /\ sess'.auth = sess.auth /\ sess'.chain = sess.chain /\ sess'.proven = sess.proven
        /\ sess'.ac = sess.ac /\ sess'.isolated = sess.isolated
    BY <1>stop, <1>types, <2>4 DEF PowerDeliveryStop, Session
  <2>6. CASE Fails(ended) /\ UNCHANGED <<ctx, paused>>
    <3>1. PncProven'
      BY <2>4, <2>5 DEF IInv, PncProven
    <3>. QED
      BY <2>2, <2>3, <2>5, <2>6, <3>1, <1>types, EndKeeps DEF Fails
  <2>7. CASE /\ \/ sess.ac /\ Goes("SessionStop")
                \/ ~sess.ac /\ Stays("PowerDelivery", [o EXCEPT !.expecting = FALSE], "ok")
             /\ evse' = ended /\ UNCHANGED <<ctx, paused>>
    <3>1. TypeOK'
      BY <2>0, <2>2, <2>3, <2>5, <2>7, <1>types, <1>names, <1>flags DEF Goes, Stays, TypeOK,
         LoopTypeOK, AfterAuthorization, Paused
    <3>. QED
      BY <2>0, <2>3, <2>4, <2>5, <2>7, <3>1 DEF Goes, Stays, IInv, AuthorizedEnergy, PncProven,
         AuthorizationKept, ProofKept, OffAtTheEnd, TestedBefore, ScheduleKept, HlcKept,
         AfterAuthorization
  <2>. QED
    BY <1>stop, <2>6, <2>7 DEF PowerDeliveryStop, ended
<1>renegotiate. ASSUME NEW id \in ScheduleIds, PowerDeliveryRenegotiate(id) PROVE IInv'
  <2>0. phase = "reading" /\ Accepts("PowerDelivery") /\ last' = "PowerDelivery"
    BY <1>renegotiate DEF PowerDeliveryRenegotiate, Receive
  <2>1. "PowerDelivery" = state \/ (~obj.expecting /\ Follows(state, "PowerDelivery"))
    BY <2>0, <1>accepted
  <2>2. last' \in States \cup Requests \cup {None} /\ "PowerDelivery" \in States
    BY <2>0 DEF States, Expected, Requests
  <2>3. CASE phase' = "stopping"
    <3>1. sess' \in Session /\ ctx' \in Context /\ paused' \in Paused /\ PncProven'
      BY <1>renegotiate, <1>types, <2>0, <2>3
      DEF PowerDeliveryRenegotiate, Fails, Raises, Goes, Stays, Session, PncProven, IInv
    <3>. QED
      BY <1>renegotiate, <1>types, <2>0, <2>2, <2>3, <3>1, EndKeeps
      DEF PowerDeliveryRenegotiate, Fails, Raises, Goes, Stays
  <2>4. CASE phase' = "reading"
    <3>1. /\ state' \in States /\ obj' \in Flags
          /\ reply' \in {"ok", "failed", "none"} /\ stopAction' \in {"terminate", "pause"}
      BY <1>renegotiate, <1>types, <1>names, <1>flags, <2>0, <2>2, <2>4
      DEF PowerDeliveryRenegotiate, Goes, Stays, Stops, Fails, Raises, TypeOK, LoopTypeOK,
         AfterAuthorization
    <3>2. sess' \in Session /\ ctx' \in Context /\ paused' \in Paused /\ evse' \in Evse
      BY <1>renegotiate, <1>types, <2>0, <2>4
      DEF PowerDeliveryRenegotiate, Goes, Stays, Stops, Fails, Raises, Session, Context, Paused,
         Evse, Uses
    <3>3. TypeOK'
      BY <2>2, <2>4, <3>1, <3>2 DEF TypeOK, LoopTypeOK, Paused
    <3>. QED
      BY <1>renegotiate, <1>types, <2>0, <2>1, <2>4, <3>3
      DEF PowerDeliveryRenegotiate, Goes, Stays, Stops, Fails, Raises, Handler, Fresh, Follows,
         Flags, Session, Evse, IInv, AuthorizedEnergy, PncProven, AuthorizationKept, ProofKept,
         OffAtTheEnd, TestedBefore, ScheduleKept, HlcKept, AfterAuthorization
  <2>. QED
    BY <1>renegotiate, <2>0, <2>3, <2>4
    DEF PowerDeliveryRenegotiate, Goes, Stays, Stops, Fails, Raises
<1>receipt. ASSUME NEW signature, MeteringReceipt(signature) PROVE IInv'
  <2>0. phase = "reading" /\ Accepts("MeteringReceipt") /\ last' = "MeteringReceipt"
    BY <1>receipt DEF MeteringReceipt, Receive
  <2>1. "MeteringReceipt" = state \/ (~obj.expecting /\ Follows(state, "MeteringReceipt"))
    BY <2>0, <1>accepted
  <2>2. last' \in States \cup Requests \cup {None} /\ "MeteringReceipt" \in States
    BY <2>0 DEF States, Expected, Requests
  <2>3. CASE phase' = "stopping"
    <3>1. sess' \in Session /\ ctx' \in Context /\ paused' \in Paused /\ PncProven'
      BY <1>receipt, <1>types, <2>0, <2>3
      DEF MeteringReceipt, Fails, Raises, Goes, Stays, Session, PncProven, IInv
    <3>. QED
      BY <1>receipt, <1>types, <2>0, <2>2, <2>3, <3>1, EndKeeps
      DEF MeteringReceipt, Fails, Raises, Goes, Stays
  <2>4. CASE phase' = "reading"
    <3>1. /\ state' \in States /\ obj' \in Flags
          /\ reply' \in {"ok", "failed", "none"} /\ stopAction' \in {"terminate", "pause"}
      BY <1>receipt, <1>types, <1>names, <1>flags, <2>0, <2>2, <2>4
      DEF MeteringReceipt, Goes, Stays, Stops, Fails, Raises, TypeOK, LoopTypeOK,
         AfterAuthorization
    <3>2. sess' \in Session /\ ctx' \in Context /\ paused' \in Paused /\ evse' \in Evse
      BY <1>receipt, <1>types, <2>0, <2>4
      DEF MeteringReceipt, Goes, Stays, Stops, Fails, Raises, Session, Context, Paused, Evse,
         Uses
    <3>3. TypeOK'
      BY <2>2, <2>4, <3>1, <3>2 DEF TypeOK, LoopTypeOK, Paused
    <3>. QED
      BY <1>receipt, <1>types, <2>0, <2>1, <2>4, <3>3
      DEF MeteringReceipt, Goes, Stays, Stops, Fails, Raises, Handler, Fresh, Follows, Flags,
         Session, Evse, IInv, AuthorizedEnergy, PncProven, AuthorizationKept, ProofKept,
         OffAtTheEnd, TestedBefore, ScheduleKept, HlcKept, AfterAuthorization
  <2>. QED
    BY <1>receipt, <2>0, <2>3, <2>4 DEF MeteringReceipt, Goes, Stays, Stops, Fails, Raises
<1>status. ASSUME ChargingStatus PROVE IInv'
  <2>0. phase = "reading" /\ Accepts("ChargingStatus") /\ last' = "ChargingStatus"
    BY <1>status DEF ChargingStatus, Receive
  <2>1. "ChargingStatus" = state \/ (~obj.expecting /\ Follows(state, "ChargingStatus"))
    BY <2>0, <1>accepted
  <2>2. last' \in States \cup Requests \cup {None} /\ "ChargingStatus" \in States
    BY <2>0 DEF States, Expected, Requests
  <2>4. phase' = "reading"
    BY <1>status, <2>0 DEF ChargingStatus, Goes, Stays
  <2>5. /\ state' \in States /\ obj' \in Flags
        /\ reply' \in {"ok", "failed", "none"} /\ stopAction' \in {"terminate", "pause"}
    BY <1>status, <1>types, <1>names, <1>flags, <2>0, <2>2, <2>4
    DEF ChargingStatus, Goes, Stays, TypeOK, LoopTypeOK, AfterAuthorization
  <2>6. sess' \in Session /\ ctx' \in Context /\ paused' \in Paused /\ evse' \in Evse
    BY <1>status, <1>types, <2>0, <2>4
    DEF ChargingStatus, Goes, Stays, Session, Context, Paused, Evse, Uses
  <2>7. TypeOK'
    BY <2>2, <2>4, <2>5, <2>6 DEF TypeOK, LoopTypeOK, Paused
  <2>. QED
    BY <1>status, <1>types, <2>0, <2>1, <2>4, <2>7
    DEF ChargingStatus, Goes, Stays, Handler, Fresh, Follows, Flags, Session, Evse, IInv,
       AuthorizedEnergy, PncProven, AuthorizationKept, ProofKept, OffAtTheEnd, TestedBefore,
       ScheduleKept, HlcKept, AfterAuthorization
<1>cable. ASSUME NEW evError \in BOOLEAN, NEW closed, NEW isolation, CableCheck(evError, closed,
       isolation)
  PROVE  IInv'
  <2>0. phase = "reading" /\ Accepts("CableCheck") /\ last' = "CableCheck"
    BY <1>cable DEF CableCheck, Receive
  <2>1. "CableCheck" = state \/ (~obj.expecting /\ Follows(state, "CableCheck"))
    BY <2>0, <1>accepted
  <2>2. last' \in States \cup Requests \cup {None} /\ "CableCheck" \in States
    BY <2>0 DEF States, Expected, Requests
  <2>. DEFINE o == [Handler("CableCheck") EXCEPT !.checked = TRUE]
              contactors == o.contactors \/ closed = "yes"
              testing == IF Handler("CableCheck").checked
                           THEN evse ELSE [evse EXCEPT !.power = "insulation"]
  <2>3. o \in Flags /\ [o EXCEPT !.contactors = contactors] \in Flags
    <3>1. o \in Flags
      BY <1>flags DEF Flags
    <3>2. contactors \in BOOLEAN
      OBVIOUS
    <3>. HIDE DEF o, contactors
    <3>. QED
      BY <3>1, <3>2 DEF Flags
  <2>4. testing \in Evse
    BY <1>types DEF Evse, Uses
  <2>5. sess.accepted
    BY <2>0, <2>1 DEF Follows, IInv, AuthorizationKept, AfterAuthorization
  <2>. HIDE DEF testing
  <2>6. CASE (Fails(evse) \/ Fails(testing)) /\ UNCHANGED <<sess, ctx, paused>>
    BY <2>2, <2>4, <2>6, <1>types, EndKeeps DEF Fails, IInv, PncProven
  <2>7. CASE /\ Goes("PreCharge") /\ sess' = [sess EXCEPT !.isolated = TRUE]
             /\ evse' = testing /\ UNCHANGED <<ctx, paused>>
    <3>1. /\ sess' \in Session /\ sess'.accepted /\ sess'.isolated
          /\ sess'.auth = sess.auth /\ sess'.chain = sess.chain /\ sess'.proven = sess.proven
      BY <2>5, <2>7, <1>types DEF Session
    <3>2. TypeOK'
      BY <2>0, <2>2, <2>4, <2>7, <3>1, <1>types, <1>names, <1>flags
      DEF Goes, TypeOK, LoopTypeOK,
         AfterAuthorization, Paused
    <3>. QED
      BY <2>0, <2>5, <2>7, <3>1, <3>2 DEF Goes, IInv, AuthorizedEnergy, PncProven,
         AuthorizationKept, ProofKept, OffAtTheEnd, TestedBefore, ScheduleKept, HlcKept,
         AfterAuthorization
  <2>8. CASE /\ Stays("CableCheck", [o EXCEPT !.contactors = contactors], "ok")
             /\ evse' = testing /\ UNCHANGED <<sess, ctx, paused>>
    <3>1. TypeOK'
      BY <2>0, <2>2, <2>3, <2>4, <2>8, <1>types DEF Stays, TypeOK, LoopTypeOK, Paused
    <3>. QED
      BY <2>0, <2>5, <2>8, <3>1 DEF Stays, IInv, AuthorizedEnergy, PncProven,
         AuthorizationKept, ProofKept, OffAtTheEnd, TestedBefore, ScheduleKept, HlcKept,
         AfterAuthorization
  <2>. QED
    BY <1>cable, <2>6, <2>7, <2>8 DEF CableCheck, testing
<1>precharge. ASSUME NEW ok \in BOOLEAN, PreCharge(ok) PROVE IInv'
  <2>0. phase = "reading" /\ Accepts("PreCharge") /\ last' = "PreCharge"
    BY <1>precharge DEF PreCharge, Receive
  <2>1. "PreCharge" = state \/ (~obj.expecting /\ Follows(state, "PreCharge"))
    BY <2>0, <1>accepted
  <2>2. last' \in States \cup Requests \cup {None} /\ "PreCharge" \in States
    BY <2>0 DEF States, Expected, Requests
  <2>t. [evse EXCEPT !.power = "precharge"] \in Evse
    BY <1>types DEF Evse, Uses
  <2>3. CASE phase' = "stopping"
    <3>1. sess' \in Session /\ ctx' \in Context /\ paused' \in Paused /\ PncProven'
      BY <1>precharge, <1>types, <2>0, <2>3, <2>t
      DEF PreCharge, Fails, Raises, Goes, Stays, Session, PncProven, IInv
    <3>. QED
      BY <1>precharge, <1>types, <2>0, <2>2, <2>3, <3>1, EndKeeps, <2>t
      DEF PreCharge, Fails, Raises, Goes, Stays
  <2>4. CASE phase' = "reading"
    <3>1. /\ state' \in States /\ obj' \in Flags
          /\ reply' \in {"ok", "failed", "none"} /\ stopAction' \in {"terminate", "pause"}
      BY <1>precharge, <1>types, <1>names, <1>flags, <2>0, <2>2, <2>4
      DEF PreCharge, Goes, Stays, Stops, Fails, Raises, TypeOK, LoopTypeOK, AfterAuthorization
    <3>2. sess' \in Session /\ ctx' \in Context /\ paused' \in Paused /\ evse' \in Evse
      BY <1>precharge, <1>types, <2>0, <2>4, <2>t
      DEF PreCharge, Goes, Stays, Stops, Fails, Raises
    <3>3. TypeOK'
      BY <2>2, <2>4, <3>1, <3>2 DEF TypeOK, LoopTypeOK, Paused
    <3>. QED
      BY <1>precharge, <1>types, <2>0, <2>1, <2>4, <3>3
      DEF PreCharge, Goes, Stays, Stops, Fails, Raises, Handler, Fresh, Follows, Flags, Session,
         Evse, IInv, AuthorizedEnergy, PncProven, AuthorizationKept, ProofKept, OffAtTheEnd,
         TestedBefore, ScheduleKept, HlcKept, AfterAuthorization
  <2>. QED
    BY <1>precharge, <2>0, <2>3, <2>4 DEF PreCharge, Goes, Stays, Stops, Fails, Raises
<1>demand. ASSUME NEW ok \in BOOLEAN, CurrentDemand(ok) PROVE IInv'
  <2>0. phase = "reading" /\ Accepts("CurrentDemand") /\ last' = "CurrentDemand"
    BY <1>demand DEF CurrentDemand, Receive
  <2>1. "CurrentDemand" = state \/ (~obj.expecting /\ Follows(state, "CurrentDemand"))
    BY <2>0, <1>accepted
  <2>2. last' \in States \cup Requests \cup {None} /\ "CurrentDemand" \in States
    BY <2>0 DEF States, Expected, Requests
  <2>t. [evse EXCEPT !.power = "charging"] \in Evse
    BY <1>types DEF Evse, Uses
  <2>3. CASE phase' = "stopping"
    <3>1. sess' \in Session /\ ctx' \in Context /\ paused' \in Paused /\ PncProven'
      BY <1>demand, <1>types, <2>0, <2>3, <2>t
      DEF CurrentDemand, Fails, Raises, Goes, Stays, Session, PncProven, IInv
    <3>. QED
      BY <1>demand, <1>types, <2>0, <2>2, <2>3, <3>1, EndKeeps, <2>t
      DEF CurrentDemand, Fails, Raises, Goes, Stays
  <2>4. CASE phase' = "reading"
    <3>1. /\ state' \in States /\ obj' \in Flags
          /\ reply' \in {"ok", "failed", "none"} /\ stopAction' \in {"terminate", "pause"}
      BY <1>demand, <1>types, <1>names, <1>flags, <2>0, <2>2, <2>4
      DEF CurrentDemand, Goes, Stays, Stops, Fails, Raises, TypeOK, LoopTypeOK,
         AfterAuthorization
    <3>2. sess' \in Session /\ ctx' \in Context /\ paused' \in Paused /\ evse' \in Evse
      BY <1>demand, <1>types, <2>0, <2>4, <2>t
      DEF CurrentDemand, Goes, Stays, Stops, Fails, Raises
    <3>3. TypeOK'
      BY <2>2, <2>4, <3>1, <3>2 DEF TypeOK, LoopTypeOK, Paused
    <3>. QED
      BY <1>demand, <1>types, <2>0, <2>1, <2>4, <3>3
      DEF CurrentDemand, Goes, Stays, Stops, Fails, Raises, Handler, Fresh, Follows, Flags,
         Session, Evse, IInv, AuthorizedEnergy, PncProven, AuthorizationKept, ProofKept,
         OffAtTheEnd, TestedBefore, ScheduleKept, HlcKept, AfterAuthorization
  <2>. QED
    BY <1>demand, <2>0, <2>3, <2>4 DEF CurrentDemand, Goes, Stays, Stops, Fails, Raises
<1>welding. ASSUME WeldingDetection PROVE IInv'
  <2>0. phase = "reading" /\ Accepts("WeldingDetection") /\ last' = "WeldingDetection"
    BY <1>welding DEF WeldingDetection, Receive
  <2>1. "WeldingDetection" = state \/ (~obj.expecting /\ Follows(state, "WeldingDetection"))
    BY <2>0, <1>accepted
  <2>2. last' \in States \cup Requests \cup {None} /\ "WeldingDetection" \in States
    BY <2>0 DEF States, Expected, Requests
  <2>4. phase' = "reading"
    BY <1>welding, <2>0 DEF WeldingDetection, Goes, Stays
  <2>5. /\ state' \in States /\ obj' \in Flags
        /\ reply' \in {"ok", "failed", "none"} /\ stopAction' \in {"terminate", "pause"}
    BY <1>welding, <1>types, <1>names, <1>flags, <2>0, <2>2, <2>4
    DEF WeldingDetection, Goes, Stays, TypeOK, LoopTypeOK, AfterAuthorization
  <2>6. sess' \in Session /\ ctx' \in Context /\ paused' \in Paused /\ evse' \in Evse
    BY <1>welding, <1>types, <2>0, <2>4
    DEF WeldingDetection, Goes, Stays, Session, Context, Paused, Evse, Uses
  <2>7. TypeOK'
    BY <2>2, <2>4, <2>5, <2>6 DEF TypeOK, LoopTypeOK, Paused
  <2>. QED
    BY <1>welding, <1>types, <2>0, <2>1, <2>4, <2>7
    DEF WeldingDetection, Goes, Stays, Handler, Fresh, Follows, Flags, Session, Evse, IInv,
       AuthorizedEnergy, PncProven, AuthorizationKept, ProofKept, OffAtTheEnd, TestedBefore,
       ScheduleKept, HlcKept, AfterAuthorization
<1>end. ASSUME NEW action \in {"terminate", "pause"}, SessionStop(action) PROVE IInv'
  <2>0. phase = "reading" /\ Accepts("SessionStop") /\ last' = "SessionStop"
    BY <1>end DEF SessionStop, Receive
  <2>2. last' \in States \cup Requests \cup {None} /\ "SessionStop" \in States
    BY <2>0 DEF States, Expected, Requests
  <2>t. NoContext \in Context /\ [auth |-> sess.auth, schedule |-> sess.schedule] \in Paused
    BY <1>types DEF NoContext, Context, Paused, Session
  <2>3. sess' \in Session /\ ctx' \in Context /\ paused' \in Paused /\ PncProven'
    BY <1>end, <1>types, <2>t DEF SessionStop, PncProven, IInv
  <2>. QED
    BY <1>end, <1>types, <2>2, <2>3, EndKeeps DEF SessionStop, Fails
<1>stutter. ASSUME UNCHANGED vars PROVE IInv'
  BY <1>stutter
  DEF vars, loopVars, IInv, TypeOK, LoopTypeOK, AuthorizedEnergy, PncProven, AuthorizationKept,
     ProofKept, OffAtTheEnd, TestedBefore, ScheduleKept, HlcKept, AfterAuthorization
<1>. QED
  BY <1>connect, <1>disconnect, <1>lost, <1>error, <1>bad, <1>refuse, <1>sap, <1>setup,
     <1>discovery, <1>detail, <1>selection, <1>install, <1>details, <1>authorization,
     <1>parameters, <1>invalid, <1>start, <1>stop, <1>renegotiate, <1>receipt, <1>status,
     <1>cable, <1>precharge, <1>demand, <1>welding, <1>end, <1>stutter
  DEF Next, Dead, Identify, Charge

\* The inductive invariant holds in every behaviour.
THEOREM V2Invariant == Spec => []IInv
BY InitIInv, NextIInv, PTL DEF Spec

\* Every reachable state is well typed: the flags of the state objects, the
\* attributes of the session and the commands of the hardware.
THEOREM V2TypeOK == Spec => []TypeOK
<1>1. IInv => TypeOK
  BY DEF IInv
<1>. QED
  BY V2Invariant, <1>1, PTL

\* No order of requests, refusals, pauses and broken connections makes the
\* station's output live in a session that the backend has not accepted.
THEOREM V2AuthorizedEnergy == Spec => []AuthorizedEnergy
<1>1. IInv => AuthorizedEnergy
  BY DEF IInv
<1>. QED
  BY V2Invariant, <1>1, PTL

\* A session that selected Plug & Charge is accepted only with the signature of
\* the contract's key, for whatever the backend answers.
THEOREM V2PncProven == Spec => []PncProven
<1>1. IInv => PncProven
  BY DEF IInv
<1>. QED
  BY V2Invariant, <1>1, PTL

\* In DC no state that puts voltage on the cable is reached without a passed
\* insulation test since the parameters were last agreed, also by renegotiation.
THEOREM V2InsulationFirst == Spec => []InsulationFirst
<1>1. IInv => InsulationFirst
  BY DEF IInv, InsulationFirst, TestedBefore
<1>. QED
  BY V2Invariant, <1>1, PTL

\* The charging loop runs on a schedule of the last list that was offered.
THEOREM V2ScheduleOffered == Spec => []ScheduleOffered
<1>1. IInv => ScheduleOffered
  BY DEF IInv, ScheduleOffered, ScheduleKept
<1>. QED
  BY V2Invariant, <1>1, PTL

\* However stop() ends a session, the output is off.
THEOREM V2EndsCold == Spec => []EndsCold
<1>1. IInv => EndsCold
  BY DEF IInv, EndsCold, OffAtTheEnd
<1>. QED
  BY V2Invariant, <1>1, PTL

\* In the charging loop the station has been told of high-level charging.
THEOREM V2HlcAnnounced == Spec => []HlcAnnounced
<1>1. IInv => HlcAnnounced
  BY DEF IInv, HlcAnnounced, HlcKept
<1>. QED
  BY V2Invariant, <1>1, PTL

-----------------------------------------------------------------------------
(***************************************************************************)
(* The refinement.  Besides the invariant it takes one fact about the      *)
(* objects: the contactors are asked for only by one that has started the  *)
(* insulation test, so that a passed test does not switch the output.      *)
(***************************************************************************)
Tested(o) == o.contactors => o.checked

ContactorsTested == Tested(obj)

LEMMA ContactorsInit == Init => ContactorsTested
BY DEF Init, InitLoop, Fresh, ContactorsTested, Tested

LEMMA ContactorsNext == TypeOK /\ ContactorsTested /\ [Next]_vars => ContactorsTested'
<1>. SUFFICES ASSUME TypeOK, ContactorsTested, [Next]_vars PROVE Tested(obj')
  BY DEF ContactorsTested, Tested
<1>same. Tested(obj) /\ Tested(Fresh) /\ obj \in Flags
  BY DEF ContactorsTested, Tested, Fresh, TypeOK, LoopTypeOK
<1>handler. \A t : Handler(t) \in Flags /\ Tested(Handler(t))
  BY <1>same DEF Handler, Fresh, Flags
<1>answered. \A t : /\ Tested([Handler(t) EXCEPT !.expecting = FALSE])
                    /\ Tested([Handler(t) EXCEPT !.expecting = TRUE])
  BY <1>handler DEF Flags, Tested
<1>loop. ASSUME \/ \E tls \in BOOLEAN : Connect(tls)
                \/ Disconnect \/ ConnectionLost \/ ConnectionError \/ BadMessage
                \/ UNCHANGED vars
  PROVE  Tested(obj')
  BY <1>loop, <1>same
  DEF Connect, StartLoop, Disconnect, EndLoop, ConnectionLost, Lost, ConnectionError, ReadError,
     BadMessage, Undecodable, Raises, Stops, vars, loopVars
<1>refuse. ASSUME NEW type, Refuse(type) PROVE Tested(obj')
  BY <1>refuse, <1>same DEF Refuse, Raises, Fails, Stops
<1>open. ASSUME SupportedAppProtocol \/ SessionSetup \/ CertificateInstallation
  PROVE  Tested(obj')
  BY <1>open, <1>same
  DEF SupportedAppProtocol, SessionSetup, CertificateInstallation, Goes, Raises, Fails, Stops
<1>discovery. ASSUME NEW eimAuthorized, NEW wantsCert, ServiceDiscovery(eimAuthorized, wantsCert)
  PROVE  Tested(obj')
  BY <1>discovery, <1>same, <1>answered DEF ServiceDiscovery, Fails, Raises, Stops, Stays
<1>detail. ASSUME NEW offered \in BOOLEAN, ServiceDetail(offered) PROVE Tested(obj')
  BY <1>detail, <1>handler, <1>answered DEF ServiceDetail, Stays
<1>selection. ASSUME NEW services, NEW a, PaymentServiceSelection(services, a) PROVE Tested(obj')
  <2>. DEFINE answered == [Handler("PaymentServiceSelection") EXCEPT !.expecting = FALSE]
  <2>1. obj' \in {obj, answered}
    BY <1>selection DEF PaymentServiceSelection, Fails, Stops, Stays
  <2>. QED
    BY <2>1, <1>same, <1>answered
<1>details. ASSUME NEW verdict, PaymentDetails(verdict) PROVE Tested(obj')
  BY <1>details, <1>same DEF PaymentDetails, Raises, Fails, Stops, Goes
<1>authorization. ASSUME NEW signature, NEW status, NEW ready,
                         Authorization(signature, status, ready)
  PROVE  Tested(obj')
  <2>. DEFINE o == Handler("Authorization")
              complete == Authorized(o, status)
              waiting == [o EXCEPT !.verified = @ \/ sess.auth = "pnc", !.complete = complete]
  <2>1. Tested(waiting)
    BY <1>handler DEF Flags, Tested
  <2>. HIDE DEF waiting
  <2>2. obj' \in {obj, Fresh, waiting}
    BY <1>authorization DEF Authorization, Raises, Fails, Stops, Goes, Stays, waiting
  <2>. QED
    BY <1>same, <2>1, <2>2
<1>parameters. ASSUME NEW mode, NEW schedules, ChargeParameterDiscovery(mode, schedules)
  PROVE  Tested(obj')
  BY <1>parameters, <1>same, <1>answered
  DEF ChargeParameterDiscovery, Fails, Raises, Stops, Stays, Goes
<1>power. ASSUME NEW id, NEW ok \in BOOLEAN,
                 \/ PowerDeliveryInvalid(id, ok) \/ PowerDeliveryStart(id, ok)
                 \/ PowerDeliveryStop(id, ok) \/ PowerDeliveryRenegotiate(id)
  PROVE  Tested(obj')
  BY <1>power, <1>same, <1>answered
  DEF PowerDeliveryInvalid, PowerDeliveryStart, PowerDeliveryStop, PowerDeliveryRenegotiate,
     Fails, Stops, Stays, Goes
<1>cable. ASSUME NEW evError, NEW closed, NEW isolation, CableCheck(evError, closed, isolation)
  PROVE  Tested(obj')
  <2>. DEFINE o == [Handler("CableCheck") EXCEPT !.checked = TRUE]
              tried == [o EXCEPT !.contactors = @ \/ closed = "yes"]
  <2>1. Tested(tried)
    BY <1>handler DEF Flags, Tested
  <2>. HIDE DEF tried
  <2>2. obj' \in {obj, Fresh, tried}
    BY <1>cable DEF CableCheck, Fails, Stops, Goes, Stays, tried
  <2>. QED
    BY <1>same, <2>1, <2>2
<1>others. ASSUME \/ \E ok \in BOOLEAN : PreCharge(ok) \/ CurrentDemand(ok)
                  \/ \E signature \in Signatures : MeteringReceipt(signature)
                  \/ ChargingStatus \/ WeldingDetection
                  \/ \E action \in {"terminate", "pause"} : SessionStop(action)
  PROVE  Tested(obj')
  BY <1>others, <1>same, <1>answered
  DEF PreCharge, CurrentDemand, MeteringReceipt, ChargingStatus, WeldingDetection, SessionStop,
     Raises, Fails, Stops, Stays
<1>. QED
  BY <1>loop, <1>refuse, <1>open, <1>discovery, <1>detail, <1>selection, <1>details,
     <1>authorization, <1>parameters, <1>power, <1>cable, <1>others
  DEF Next, Dead, Identify, Charge

LEMMA ContactorsStay == Spec => []ContactorsTested
BY ContactorsInit, ContactorsNext, V2TypeOK, PTL DEF Spec

\* An AC cable, or a DC cable that was tested.
CableSafe == sess.ac \/ sess.isolated

SameSession ==
    /\ phase = "reading" /\ phase' = "reading"
    /\ sess'.accepted = sess.accepted
    /\ CableSafe' = CableSafe

LEMMA StepIsSilent ==
    ASSUME SameSession, evse'.power = evse.power
    PROVE  UNCHANGED Promise!vars
BY DEF SameSession, CableSafe, Promise!vars

LEMMA StepSwitchesOff ==
    ASSUME SameSession, evse'.power = "off"
    PROVE  Promise!SwitchOff
BY DEF SameSession, CableSafe, Promise!SwitchOff

LEMMA StepSwitchesOn ==
    ASSUME SameSession, phase = "reading", sess.accepted, NEW u \in Uses,
           u \in {"precharge", "charging"} => CableSafe, evse'.power = u
    PROVE  Promise!SwitchOn(u) /\ u \in Promise!Purposes
BY DEF SameSession, CableSafe, Promise!SwitchOn, Promise!Purposes, Uses

LEMMA StepAssesses ==
    ASSUME phase = "reading", phase' = "reading", sess.accepted, sess'.accepted,
           sess' \in Session, evse'.power = evse.power
    PROVE  Promise!Assess
BY DEF Promise!Assess, Session

\* Every end of a session, by whatever step, closes the abstract one.
LEMMA EndCloses ==
    ASSUME phase = "reading", NEW a, NEW r, NEW e \in Evse, Stops(a, r, e), sess' \in Session
    PROVE  Promise!Close
<1>1. phase' = "stopping" /\ evse'.power = "off"
  BY DEF Stops, StopCharger, Evse
<1>. QED
  BY <1>1 DEF Promise!Close, Session

LEMMA PromiseStep ==
    IInv /\ IInv' /\ ContactorsTested /\ [Next]_vars => [Promise!Next]_(Promise!vars)
<1>. SUFFICES ASSUME IInv, IInv', ContactorsTested, [Next]_vars
              PROVE  Promise!Next \/ UNCHANGED Promise!vars
  OBVIOUS
<1>. DEFINE Kept == Promise!Next \/ UNCHANGED Promise!vars
<1>types. /\ state \in States /\ obj \in Flags /\ evse \in Evse /\ sess \in Session
          /\ sess' \in Session
  BY DEF IInv, TypeOK, LoopTypeOK
<1>accepted. \A type : Accepts(type) => type = state \/ (~obj.expecting /\ Follows(state, type))
  BY <1>types, AcceptedTypes
<1>close. ASSUME phase = "reading", NEW a, NEW r, NEW e \in Evse, Stops(a, r, e)
  PROVE  Promise!Next
  BY <1>close, <1>types, EndCloses DEF Promise!Next
<1>silent. ASSUME phase = "reading", phase' = "reading", UNCHANGED evse,
                  sess'.accepted = sess.accepted, sess'.ac = sess.ac,
                  sess'.isolated = sess.isolated
  PROVE  UNCHANGED Promise!vars
  BY <1>silent, StepIsSilent DEF SameSession, CableSafe
<1>connect. ASSUME NEW tls \in BOOLEAN, Connect(tls) PROVE Kept
  <2>1. Promise!Open
    BY <1>connect DEF Connect, StartLoop, NewSession, Promise!Open
  <2>. QED
    BY <2>1 DEF Promise!Next
<1>disconnect. ASSUME Disconnect PROVE Kept
  BY <1>disconnect DEF Disconnect, EndLoop, Promise!vars
<1>lost. ASSUME ConnectionLost PROVE Kept
  BY <1>lost, <1>types, <1>close DEF ConnectionLost, Lost
<1>error. ASSUME ConnectionError PROVE Kept
  <2>1. Promise!Abandon
    BY <1>error DEF ConnectionError, ReadError, Promise!Abandon
  <2>. QED
    BY <2>1 DEF Promise!Next
<1>bad. ASSUME BadMessage PROVE Kept
  BY <1>bad, <1>types, <1>close DEF BadMessage, Undecodable, Raises
<1>refuse. ASSUME NEW type \in Requests, Refuse(type) PROVE Kept
  BY <1>refuse, <1>types, <1>close DEF Refuse, Fails, Raises
<1>sap. ASSUME SupportedAppProtocol PROVE Kept
  BY <1>sap, <1>types, <1>close, <1>silent DEF SupportedAppProtocol, Receive, Goes, Fails
<1>setup. ASSUME SessionSetup PROVE Kept
  <2>1. UNCHANGED <<sess.accepted, sess.ac, sess.isolated>>
    BY <1>setup, <1>types DEF SessionSetup, Session
  <2>. QED
    BY <1>setup, <1>silent, <2>1 DEF SessionSetup, Receive, Goes
<1>discovery. ASSUME NEW eimAuthorized \in BOOLEAN, NEW wantsCert \in BOOLEAN,
                     ServiceDiscovery(eimAuthorized, wantsCert)
  PROVE  Kept
  <2>1. UNCHANGED <<sess.accepted, sess.ac, sess.isolated>>
    BY <1>discovery, <1>types DEF ServiceDiscovery, Session
  <2>. QED
    BY <1>discovery, <1>types, <1>close, <1>silent, <2>1
    DEF ServiceDiscovery, Receive, Stays, Fails, Raises
<1>detail. ASSUME NEW offered \in BOOLEAN, ServiceDetail(offered) PROVE Kept
  BY <1>detail, <1>silent DEF ServiceDetail, Receive, Stays
<1>selection. ASSUME NEW services, NEW a, PaymentServiceSelection(services, a) PROVE Kept
  <2>1. UNCHANGED <<sess.accepted, sess.ac, sess.isolated>>
    BY <1>selection, <1>types DEF PaymentServiceSelection, Session
  <2>. QED
    BY <1>selection, <1>types, <1>close, <1>silent, <2>1
    DEF PaymentServiceSelection, Receive, Stays, Fails
<1>install. ASSUME CertificateInstallation PROVE Kept
  BY <1>install, <1>types, <1>close, <1>silent DEF CertificateInstallation, Receive, Goes,
     Raises, Fails
<1>details. ASSUME NEW verdict, PaymentDetails(verdict) PROVE Kept
  <2>1. UNCHANGED <<sess.accepted, sess.ac, sess.isolated>>
    BY <1>details, <1>types DEF PaymentDetails, Session
  <2>. QED
    BY <1>details, <1>types, <1>close, <1>silent, <2>1
    DEF PaymentDetails, Receive, Goes, Fails, Raises
<1>authorization. ASSUME NEW signature, NEW status, NEW ready \in BOOLEAN,
                         Authorization(signature, status, ready)
  PROVE  Kept
  <2>1. CASE phase' = "reading"
    <3>1. phase = "reading" /\ UNCHANGED evse
      BY <1>authorization, <2>1 DEF Authorization, Receive, Goes, Stays, Raises, Fails, Stops
    <3>2. UNCHANGED <<sess.ac, sess.isolated>> /\ (sess.accepted => sess'.accepted)
      BY <1>authorization, <1>types DEF Authorization, Session
    <3>3. CASE sess'.accepted = sess.accepted
      BY <2>1, <3>1, <3>2, <3>3, <1>silent
    <3>4. CASE ~sess.accepted /\ sess'.accepted
      BY <2>1, <3>1, <3>2, <3>4 DEF Promise!Next, Promise!Authorize
    <3>. QED
      BY <3>2, <3>3, <3>4, <1>types DEF Session
  <2>2. CASE Raises(evse) \/ Fails(evse)
    BY <1>authorization, <1>types, <1>close, <2>2 DEF Authorization, Receive, Raises, Fails
  <2>. QED
    BY <1>authorization, <2>1, <2>2 DEF Authorization, Receive, Goes, Stays
<1>parameters. ASSUME NEW mode, NEW schedules, ChargeParameterDiscovery(mode, schedules)
  PROVE  Kept
  <2>1. phase = "reading" /\ sess.accepted
    <3>1. phase = "reading" /\ state = "ChargeParameterDiscovery"
      BY <1>parameters, <1>accepted DEF ChargeParameterDiscovery, Receive, Follows
    <3>. QED
      BY <3>1 DEF IInv, AuthorizationKept, AfterAuthorization
  <2>2. CASE phase' = "reading"
    <3>1. UNCHANGED evse
      BY <1>parameters, <2>2 DEF ChargeParameterDiscovery, Goes, Stays, Fails, Raises, Stops
    <3>2. sess'.accepted
      BY <1>parameters, <1>types, <2>1 DEF ChargeParameterDiscovery, Session
    <3>. QED
      BY <2>1, <2>2, <3>1, <3>2, <1>types, StepAssesses DEF Promise!Next
  <2>3. CASE Fails(evse) \/ Raises(evse)
    BY <2>1, <2>3, <1>types, <1>close DEF Fails, Raises
  <2>. QED
    BY <1>parameters, <2>1, <2>2, <2>3 DEF ChargeParameterDiscovery, Goes, Stays
<1>invalid. ASSUME NEW id, NEW ok \in BOOLEAN, PowerDeliveryInvalid(id, ok) PROVE Kept
  BY <1>invalid, <1>types, <1>close DEF PowerDeliveryInvalid, Receive, Fails
<1>start. ASSUME NEW id, NEW ok \in BOOLEAN, PowerDeliveryStart(id, ok) PROVE Kept
  <2>. DEFINE announced == Announce(evse)
  <2>1. phase = "reading" /\ sess.accepted
    <3>1. phase = "reading" /\ (state = "PowerDelivery" \/ Follows(state, "PowerDelivery"))
      BY <1>start, <1>accepted DEF PowerDeliveryStart, Receive
    <3>. QED
      BY <3>1 DEF IInv, AuthorizationKept, AfterAuthorization, Follows
  <2>2. /\ announced \in Evse /\ announced.power = evse.power
        /\ [announced EXCEPT !.power = "charging"].power = "charging" /\ "charging" \in Uses
    BY <1>types DEF Announce, Evse, Uses
  <2>. HIDE DEF announced
  <2>3. CASE Fails(announced)
    BY <2>1, <2>2, <2>3, <1>close DEF Fails
  <2>4. CASE /\ phase' = "reading" /\ sess' = [sess EXCEPT !.schedule = id, !.started = TRUE]
             /\ evse' = IF sess.ac THEN [announced EXCEPT !.power = "charging"] ELSE announced
    <3>1. SameSession
      BY <2>1, <2>4, <1>types DEF SameSession, CableSafe, Session
    <3>2. CASE sess.ac
      BY <2>1, <2>2, <2>4, <3>1, <3>2, StepSwitchesOn DEF CableSafe, Promise!Next
    <3>3. CASE ~sess.ac
      BY <2>2, <2>4, <3>1, <3>3, StepIsSilent
    <3>. QED
      BY <3>2, <3>3
  <2>. QED
    BY <1>start, <2>1, <2>3, <2>4 DEF PowerDeliveryStart, Goes, announced
<1>stop. ASSUME NEW id, NEW ok \in BOOLEAN, PowerDeliveryStop(id, ok) PROVE Kept
  <2>. DEFINE ended == StopCharger([evse EXCEPT !.hlc = FALSE])
  <2>1. phase = "reading" /\ ended \in Evse /\ ended.power = "off"
    BY <1>stop, <1>types DEF PowerDeliveryStop, Receive, StopCharger, Evse, Uses
  <2>. HIDE DEF ended
  <2>2. CASE Fails(ended)
    BY <2>1, <2>2, <1>close DEF Fails
  <2>3. CASE phase' = "reading" /\ evse' = ended /\ UNCHANGED sess
    BY <2>1, <2>3, StepSwitchesOff DEF SameSession, CableSafe, Promise!Next
  <2>. QED
    BY <1>stop, <2>1, <2>2, <2>3 DEF PowerDeliveryStop, Goes, Stays, ended
<1>renegotiate. ASSUME NEW id, PowerDeliveryRenegotiate(id) PROVE Kept
  BY <1>renegotiate, <1>types, <1>close, <1>silent
  DEF PowerDeliveryRenegotiate, Receive, Goes, Fails
<1>receipt. ASSUME NEW signature, MeteringReceipt(signature) PROVE Kept
  BY <1>receipt, <1>types, <1>close, <1>silent DEF MeteringReceipt, Receive, Stays, Raises, Fails
<1>status. ASSUME ChargingStatus PROVE Kept
  BY <1>status, <1>silent DEF ChargingStatus, Receive, Stays
<1>cable. ASSUME NEW evError \in BOOLEAN, NEW closed, NEW isolation,
                 CableCheck(evError, closed, isolation)
  PROVE  Kept
  <2>. DEFINE old == Handler("CableCheck")
              testing == IF old.checked THEN evse ELSE [evse EXCEPT !.power = "insulation"]
  <2>1. phase = "reading" /\ sess.accepted
    <3>1. phase = "reading" /\ (state = "CableCheck" \/ Follows(state, "CableCheck"))
      BY <1>cable, <1>accepted DEF CableCheck, Receive
    <3>. QED
      BY <3>1 DEF IInv, AuthorizationKept, AfterAuthorization, Follows
  <2>2. testing \in Evse /\ testing.power \in {evse.power, "insulation"}
        /\ "insulation" \in Uses
    BY <1>types DEF Evse, Uses
  <2>3. [old EXCEPT !.checked = TRUE].contactors => testing = evse
    <3>1. old \in Flags /\ Tested(old)
      BY <1>types DEF Handler, Fresh, Flags, ContactorsTested, Tested
    <3>. QED
      BY <3>1 DEF Flags, Tested
  <2>. HIDE DEF testing
  <2>4. CASE Fails(evse) \/ Fails(testing)
    BY <2>1, <2>2, <2>4, <1>types, <1>close DEF Fails
  <2>5. CASE /\ phase' = "reading" /\ testing = evse /\ evse' = testing
             /\ sess' = [sess EXCEPT !.isolated = TRUE]
    <3>1. sess'.accepted
      BY <2>1, <2>5, <1>types DEF Session
    <3>. QED
      BY <2>1, <2>5, <3>1, <1>types, StepAssesses DEF Promise!Next
  <2>6. CASE phase' = "reading" /\ UNCHANGED sess /\ evse' = testing
    <3>1. SameSession
      BY <2>1, <2>6 DEF SameSession, CableSafe
    <3>2. CASE testing.power = evse.power
      BY <2>6, <3>1, <3>2, StepIsSilent
    <3>3. CASE testing.power = "insulation"
      BY <2>1, <2>2, <2>6, <3>1, <3>3, StepSwitchesOn DEF Promise!Next
    <3>. QED
      BY <2>2, <3>2, <3>3
  <2>. QED
    BY <1>cable, <2>1, <2>3, <2>4, <2>5, <2>6 DEF CableCheck, Goes, Stays, testing
<1>precharge. ASSUME NEW ok \in BOOLEAN, PreCharge(ok) PROVE Kept
  <2>1. phase = "reading" /\ sess.accepted /\ CableSafe
    <3>1. phase = "reading" /\ "PreCharge" = state
      BY <1>precharge, <1>accepted DEF PreCharge, Receive, Follows
    <3>. QED
      BY <3>1, <1>types DEF IInv, AuthorizationKept, TestedBefore, AfterAuthorization, CableSafe,
         Session
  <2>2. CASE phase' = "reading"
    <3>1. evse'.power = "precharge" /\ "precharge" \in Uses
      BY <1>precharge, <1>types, <2>2 DEF PreCharge, Fails, Stops, Evse, Uses
    <3>2. SameSession
      BY <1>precharge, <2>1, <2>2 DEF PreCharge, SameSession, CableSafe
    <3>. QED
      BY <2>1, <3>1, <3>2, StepSwitchesOn DEF Promise!Next
  <2>. QED
    BY <1>precharge, <1>types, <1>close, <2>1, <2>2 DEF PreCharge, Fails, Stays
<1>demand. ASSUME NEW ok \in BOOLEAN, CurrentDemand(ok) PROVE Kept
  <2>1. phase = "reading" /\ sess.accepted /\ CableSafe
    <3>1. phase = "reading" /\ state \in {"CurrentDemand", "MeteringReceipt"}
      BY <1>demand, <1>accepted DEF CurrentDemand, Receive, Follows
    <3>. QED
      BY <3>1, <1>types DEF IInv, AuthorizationKept, TestedBefore, AfterAuthorization, CableSafe,
         Session
  <2>2. CASE phase' = "reading"
    <3>1. evse'.power = "charging" /\ "charging" \in Uses
      BY <1>demand, <1>types, <2>2 DEF CurrentDemand, Fails, Stops, Evse, Uses
    <3>2. SameSession
      BY <1>demand, <2>1, <2>2 DEF CurrentDemand, SameSession, CableSafe
    <3>. QED
      BY <2>1, <3>1, <3>2, StepSwitchesOn DEF Promise!Next
  <2>. QED
    BY <1>demand, <1>types, <1>close, <2>1, <2>2 DEF CurrentDemand, Fails, Stays
<1>welding. ASSUME WeldingDetection PROVE Kept
  BY <1>welding, <1>silent DEF WeldingDetection, Receive, Stays
<1>end. ASSUME NEW action \in {"terminate", "pause"}, SessionStop(action) PROVE Kept
  BY <1>end, <1>types, <1>close DEF SessionStop, Receive
<1>stutter. ASSUME UNCHANGED vars PROVE Kept
  BY <1>stutter DEF vars, loopVars, Promise!vars
<1>. QED
  BY <1>connect, <1>disconnect, <1>lost, <1>error, <1>bad, <1>refuse, <1>sap, <1>setup,
     <1>discovery, <1>detail, <1>selection, <1>install, <1>details, <1>authorization,
     <1>parameters, <1>invalid, <1>start, <1>stop, <1>renegotiate, <1>receipt, <1>status,
     <1>cable, <1>precharge, <1>demand, <1>welding, <1>end, <1>stutter
  DEF Next, Dead, Identify, Charge

\* The state machine implements the abstract station, for any configuration and
\* any set of schedules: also when a session is paused and resumed or changes
\* between AC and DC, the output is used only in an authorized session, carries
\* the vehicle's voltage only over a safe cable, and is off with its end.
THEOREM V2KeepsPromise == Spec => KeepsPromise
<1>1. Init => Promise!Init
  BY DEF Init, InitLoop, NewSession, Promise!Init
<1>. QED
  BY <1>1, V2Invariant, ContactorsStay, PromiseStep, PTL DEF Spec, KeepsPromise, Promise!Spec

-----------------------------------------------------------------------------
(***************************************************************************)
(* Answers.  A lost connection leaves the last answer as it was, so it is  *)
(* part of the invariant that a session which goes on has answered.        *)
(***************************************************************************)
AnswersKept ==
    /\ phase = "reading" => reply # "none"
    /\ AnsweredUnlessRaised

LEMMA AnswersNext == AnswersKept /\ [Next]_vars => AnswersKept'
<1>. SUFFICES ASSUME AnswersKept, [Next]_vars PROVE AnswersKept'
  OBVIOUS
<1>. USE DEF AnswersKept, AnsweredUnlessRaised
<1>goes. ASSUME NEW s, Goes(s) PROVE reply' = "ok"
  BY <1>goes DEF Goes
<1>stays. ASSUME NEW t, NEW o, NEW r, Stays(t, o, r) PROVE reply' = r
  BY <1>stays DEF Stays
<1>fails. ASSUME NEW e, Fails(e) PROVE reply' = "failed"
  BY <1>fails DEF Fails, Stops
<1>raises. ASSUME NEW e, Raises(e) PROVE phase' = "stopping"
  BY <1>raises DEF Raises, Stops
<1>loop. ASSUME \/ \E tls \in BOOLEAN : Connect(tls)
                \/ Disconnect \/ ConnectionLost \/ ConnectionError \/ BadMessage
                \/ UNCHANGED vars
  PROVE  AnswersKept'
  BY <1>loop DEF Connect, StartLoop, Disconnect, EndLoop, ConnectionLost, Lost, ConnectionError,
     ReadError, BadMessage, Undecodable, Raises, Stops, vars, loopVars
<1>refuse. ASSUME NEW type, Refuse(type) PROVE AnswersKept'
  BY <1>refuse, <1>fails, <1>raises DEF Refuse
<1>open. ASSUME SupportedAppProtocol \/ SessionSetup \/ CertificateInstallation
  PROVE  AnswersKept'
  BY <1>open, <1>goes, <1>fails, <1>raises
  DEF SupportedAppProtocol, SessionSetup, CertificateInstallation, Receive
<1>discovery. ASSUME NEW eimAuthorized, NEW wantsCert, ServiceDiscovery(eimAuthorized, wantsCert)
  PROVE  AnswersKept'
  BY <1>discovery, <1>stays, <1>fails, <1>raises DEF ServiceDiscovery, Receive
<1>detail. ASSUME NEW offered, ServiceDetail(offered) PROVE AnswersKept'
  BY <1>detail, <1>stays DEF ServiceDetail
<1>selection. ASSUME NEW services, NEW a, PaymentServiceSelection(services, a) PROVE AnswersKept'
  BY <1>selection, <1>stays, <1>fails DEF PaymentServiceSelection
<1>details. ASSUME NEW verdict, PaymentDetails(verdict) PROVE AnswersKept'
  BY <1>details, <1>goes, <1>fails, <1>raises DEF PaymentDetails, Receive
<1>authorization. ASSUME NEW signature, NEW status, NEW ready,
                         Authorization(signature, status, ready)
  PROVE  AnswersKept'
  <2>. DEFINE o == Handler("Authorization")
  <2>1. CASE Unsigned(o, signature) /\ Raises(evse) /\ UNCHANGED sess
    BY <1>authorization, <1>raises, <2>1 DEF Authorization, Receive, Unsigned
  <2>2. CASE reply' \in {"ok", "failed"}
    BY <2>2
  <2>. QED
    BY <1>authorization, <2>1, <2>2 DEF Authorization, Goes, Stays, Fails, Stops
<1>parameters. ASSUME NEW mode, NEW schedules, ChargeParameterDiscovery(mode, schedules)
  PROVE  AnswersKept'
  BY <1>parameters, <1>goes, <1>stays, <1>fails, <1>raises DEF ChargeParameterDiscovery, Receive
<1>power. ASSUME NEW id, NEW ok,
                 \/ PowerDeliveryInvalid(id, ok) \/ PowerDeliveryStart(id, ok)
                 \/ PowerDeliveryStop(id, ok) \/ PowerDeliveryRenegotiate(id)
  PROVE  AnswersKept'
  BY <1>power, <1>goes, <1>stays, <1>fails
  DEF PowerDeliveryInvalid, PowerDeliveryStart, PowerDeliveryStop, PowerDeliveryRenegotiate
<1>cable. ASSUME NEW evError, NEW closed, NEW isolation, CableCheck(evError, closed, isolation)
  PROVE  AnswersKept'
  <2>1. reply' \in {"ok", "failed"}
    BY <1>cable DEF CableCheck, Goes, Stays, Fails, Stops
  <2>. QED
    BY <2>1
<1>others. ASSUME \/ \E ok \in BOOLEAN : PreCharge(ok) \/ CurrentDemand(ok)
                  \/ \E signature \in Signatures : MeteringReceipt(signature)
                  \/ ChargingStatus \/ WeldingDetection
                  \/ \E action \in {"terminate", "pause"} : SessionStop(action)
  PROVE  AnswersKept'
  BY <1>others, <1>stays, <1>fails, <1>raises
  DEF PreCharge, CurrentDemand, MeteringReceipt, ChargingStatus, WeldingDetection, SessionStop,
     Receive, Stops
<1>. QED
  BY <1>loop, <1>refuse, <1>open, <1>discovery, <1>detail, <1>selection, <1>details,
     <1>authorization, <1>parameters, <1>power, <1>cable, <1>others
  DEF Next, Dead, Identify, Charge

\* Every request is answered before the session ends, in every order of requests,
\* but for those whose handling raises: stop_state_machine and get_services find
\* nothing to answer, or verify_signature is given no signature.
THEOREM V2AnsweredUnlessRaised == Spec => []AnsweredUnlessRaised
<1>1. Init => AnswersKept
  BY DEF Init, InitLoop, AnswersKept, AnsweredUnlessRaised
<1>2. AnswersKept => AnsweredUnlessRaised
  BY DEF AnswersKept
<1>. QED
  BY <1>1, <1>2, AnswersNext, PTL DEF Spec

-----------------------------------------------------------------------------
(***************************************************************************)
(* Offers.  What a resumed session offers was selected two connections     *)
(* ago, and has come through ev_session_context, which a handler keeps or  *)
(* drops in between.  The invariant follows the context along.             *)
(***************************************************************************)
Opening == {"SupportedAppProtocol", "SessionSetup"}
Choosing == {"ServiceDiscovery", "ServiceDetail"}

\* The context that waits for the next connection holds the option of the
\* session that was paused.  Once the session id is known it is that option, or
\* none; once the vehicle has selected, it is the selection.
ContextKept ==
    /\ phase = "idle" => (ctx.known => ctx.auth = {paused.auth})
    /\ (phase = "stopping" /\ stopAction = "pause") => ctx.auth = {paused.auth}
    /\ (phase = "reading" /\ state \in Opening) =>
          /\ sess.auth = None /\ ~sess.resumed
          /\ ctx.known => ctx.auth = {paused.auth}
    /\ (phase = "reading" /\ state \notin Opening /\ sess.auth = None) =>
          /\ state \in Choosing
          /\ ctx.auth = IF sess.resumed THEN {paused.auth} ELSE {}
    /\ (phase = "reading" /\ sess.auth # None) => ctx.auth = {sess.auth}

\* An offer that fits the session.
Fits(options) ==
    options = IF sess.resumed THEN {paused.auth}
              ELSE IF sess.eim THEN {"eim"}
              ELSE {a \in config.auth : a = "pnc" => sess.tls}

\* Once a ServiceDiscovery object has answered, the offer is made.
OfferMade ==
    (/\ sess.auth = None
     /\ \/ state \in {"ServiceDetail", "PaymentServiceSelection"}
        \/ state = "ServiceDiscovery" /\ ~obj.expecting) => Fits(sess.offered)

OfferInv == ContextKept /\ OfferMade

\* Once the vehicle has selected, nothing but another selection matters.
LEMMA LateKeepsOffer ==
    ASSUME OfferInv, phase = "reading", state \notin Opening \cup Choosing,
           sess'.auth = sess.auth, UNCHANGED <<ctx, paused>>,
           \/ phase' = "reading" /\ state' \notin Opening \cup Choosing
           \/ phase' = "stopping" /\ stopAction' = "terminate"
    PROVE  OfferInv'
BY DEF OfferInv, ContextKept, OfferMade

\* A session that fails leaves no context, and its offer as it was.
LEMMA EndKeepsOffer ==
    ASSUME OfferInv, NEW r, NEW e, Stops("terminate", r, e),
           UNCHANGED <<sess, paused, config>>
    PROVE  OfferInv'
BY DEF OfferInv, ContextKept, OfferMade, Fits, Stops

LEMMA OfferNext == TypeOK /\ OfferInv /\ [Next]_vars => OfferInv'
<1>. SUFFICES ASSUME TypeOK, OfferInv, [Next]_vars PROVE OfferInv'
  OBVIOUS
<1>types. state \in States /\ obj \in Flags /\ sess \in Session /\ ctx \in Context
  BY DEF TypeOK, LoopTypeOK
<1>config. UNCHANGED config
  BY DEF Next, vars
<1>accepted. ASSUME NEW type, Receive(type)
             PROVE  phase = "reading" /\ (type = state \/ Follows(state, type))
  BY <1>accepted, <1>types, AcceptedTypes DEF Receive
<1>late. ASSUME NEW type, Receive(type), type \notin Opening \cup Choosing,
                type # "PaymentServiceSelection"
         PROVE  phase = "reading" /\ state \notin Opening \cup Choosing
  BY <1>late, <1>accepted DEF Follows, Opening, Choosing
<1>same. CASE UNCHANGED vars
  BY <1>same DEF vars, loopVars, OfferInv, ContextKept, OfferMade, Fits
<1>connect. ASSUME NEW tls \in BOOLEAN, Connect(tls) PROVE OfferInv'
  BY <1>connect DEF Connect, StartLoop, NewSession, OfferInv, ContextKept, OfferMade, Opening
<1>disconnect. ASSUME Disconnect PROVE OfferInv'
  BY <1>disconnect, <1>config DEF Disconnect, EndLoop, NoContext, OfferInv, ContextKept,
     OfferMade, Fits
<1>error. ASSUME ConnectionError PROVE OfferInv'
  BY <1>error, <1>config DEF ConnectionError, ReadError, OfferInv, ContextKept, OfferMade, Fits
<1>lost. ASSUME ConnectionLost \/ BadMessage PROVE OfferInv'
  BY <1>lost, <1>config, EndKeepsOffer DEF ConnectionLost, Lost, BadMessage, Undecodable, Raises
<1>refuse. ASSUME NEW type \in Requests, Refuse(type) PROVE OfferInv'
  BY <1>refuse, <1>config, EndKeepsOffer DEF Refuse, Raises, Fails
<1>sap. ASSUME SupportedAppProtocol PROVE OfferInv'
  <2>1. CASE Fails(evse)
    BY <1>sap, <1>config, <2>1, EndKeepsOffer DEF SupportedAppProtocol, Fails
  <2>2. CASE Goes("SessionSetup")
    <3>1. phase = "reading" /\ state = "SupportedAppProtocol"
      BY <1>sap, <1>accepted DEF SupportedAppProtocol, Follows
    <3>. QED
      BY <1>sap, <2>2, <3>1 DEF SupportedAppProtocol, Goes, OfferInv, ContextKept, OfferMade,
         Opening
  <2>. QED
    BY <1>sap, <2>1, <2>2 DEF SupportedAppProtocol
<1>setup. ASSUME SessionSetup PROVE OfferInv'
  <2>1. phase = "reading" /\ state = "SessionSetup"
    BY <1>setup, <1>accepted DEF SessionSetup, Follows
  <2>2. sess.auth = None /\ ~sess.resumed /\ (ctx.known => ctx.auth = {paused.auth})
    BY <2>1 DEF OfferInv, ContextKept, Opening
  <2>3. /\ phase' = "reading" /\ state' = "ServiceDiscovery" /\ obj'.expecting
        /\ UNCHANGED paused
    BY <1>setup, <2>1 DEF SessionSetup, Goes, Fresh
  <2>4. /\ sess'.auth = None
        /\ ctx'.auth = IF sess'.resumed THEN {paused.auth} ELSE {}
    BY <1>setup, <1>types, <2>2 DEF SessionSetup, NewContext, Session
  <2>. QED
    BY <2>3, <2>4 DEF OfferInv, ContextKept, OfferMade, Opening, Choosing
<1>discovery. ASSUME NEW eimAuthorized \in BOOLEAN, NEW wantsCert \in BOOLEAN,
                     ServiceDiscovery(eimAuthorized, wantsCert)
              PROVE  OfferInv'
  <2>1. phase = "reading" /\ state = "ServiceDiscovery"
    BY <1>discovery, <1>accepted DEF ServiceDiscovery, Follows
  <2>2. /\ sess'.auth = sess.auth /\ sess'.resumed = sess.resumed /\ sess'.tls = sess.tls
        /\ UNCHANGED <<ctx, paused>> /\ state' = "ServiceDiscovery"
    BY <1>discovery, <1>types, <2>1 DEF ServiceDiscovery, Session, Stays, Fails, Raises, Stops
  <2>3. CASE phase' = "stopping"
    <3>1. stopAction' = "terminate" /\ obj' = obj
      BY <1>discovery, <2>1, <2>3 DEF ServiceDiscovery, Stays, Fails, Raises, Stops
    <3>2. ~obj.expecting => sess' = sess
      BY <1>discovery, <2>1, <2>3 DEF ServiceDiscovery, Handler, Stays
    <3>. QED
      BY <1>config, <2>1, <2>2, <2>3, <3>1, <3>2 DEF OfferInv, ContextKept, OfferMade, Fits
  <2>4. CASE phase' = "reading"
    <3>. DEFINE Due == IF sess.resumed THEN {paused.auth}
                       ELSE IF eimAuthorized THEN {"eim"}
                       ELSE {a \in config.auth : a = "pnc" => sess.tls}
    <3>1. sess'.offered = AuthOptions(eimAuthorized) /\ sess'.eim = eimAuthorized
      BY <1>discovery, <1>types, <2>4 DEF ServiceDiscovery, Session, Fails, Raises, Stops
    <3>2. sess.auth = None => AuthOptions(eimAuthorized) = Due
      <4>. SUFFICES ASSUME sess.auth = None PROVE AuthOptions(eimAuthorized) = Due
        OBVIOUS
      <4>1. ctx.auth = IF sess.resumed THEN {paused.auth} ELSE {}
        BY <2>1 DEF OfferInv, ContextKept, Opening
      <4>2. CASE sess.resumed
        BY <4>1, <4>2 DEF AuthOptions
      <4>3. CASE ~sess.resumed
        BY <4>1, <4>3 DEF AuthOptions
      <4>. QED
        BY <4>2, <4>3
    <3>3. sess.auth = None => Fits(sess.offered)'
      BY <1>config, <2>2, <3>1, <3>2 DEF Fits
    <3>. QED
      BY <2>1, <2>2, <2>4, <3>3 DEF OfferInv, ContextKept, OfferMade, Opening, Choosing
  <2>. QED
    BY <1>discovery, <2>1, <2>3, <2>4 DEF ServiceDiscovery, Stays, Fails, Raises, Stops
<1>detail. ASSUME NEW offered \in BOOLEAN, ServiceDetail(offered) PROVE OfferInv'
  <2>1. /\ phase = "reading"
        /\ state = "ServiceDetail" \/ (state = "ServiceDiscovery" /\ ~obj.expecting)
    BY <1>detail, <1>types, AcceptedTypes DEF ServiceDetail, Receive, Follows
  <2>2. state' = "ServiceDetail" /\ phase' = "reading" /\ UNCHANGED <<sess, ctx, paused>>
    BY <1>detail, <2>1 DEF ServiceDetail, Stays
  <2>. QED
    BY <1>config, <2>1, <2>2 DEF OfferInv, ContextKept, OfferMade, Fits, Opening, Choosing
<1>selection. ASSUME NEW services, NEW a \in Auths, PaymentServiceSelection(services, a)
              PROVE  OfferInv'
  <2>1. CASE Fails(evse) /\ UNCHANGED sess
    BY <1>selection, <1>config, <2>1, EndKeepsOffer DEF PaymentServiceSelection, Fails
  <2>2. CASE /\ phase' = phase /\ state' = "PaymentServiceSelection"
             /\ sess' = [sess EXCEPT !.auth = a]
             /\ ctx' = [ctx EXCEPT !.auth = {a}]
    <3>1. phase = "reading"
      BY <1>selection, <1>accepted DEF PaymentServiceSelection
    <3>2. sess'.auth = a /\ ctx'.auth = {a} /\ a # None
      BY <1>types, <2>2, V2Constants DEF Session, Context
    <3>. QED
      BY <2>2, <3>1, <3>2 DEF OfferInv, ContextKept, OfferMade, Opening
  <2>. QED
    BY <1>selection, <2>1, <2>2 DEF PaymentServiceSelection, Stays
<1>installation. ASSUME CertificateInstallation PROVE OfferInv'
  <2>1. phase = "reading" /\ state \notin Opening \cup Choosing
    BY <1>installation, <1>late DEF CertificateInstallation, Opening, Choosing
  <2>. QED
    BY <1>installation, <2>1, LateKeepsOffer DEF CertificateInstallation, Goes, Raises,
       Fails, Stops, Opening, Choosing
<1>details. ASSUME NEW verdict, PaymentDetails(verdict) PROVE OfferInv'
  <2>1. phase = "reading" /\ state \notin Opening \cup Choosing
    BY <1>details, <1>late DEF PaymentDetails, Opening, Choosing
  <2>2. sess'.auth = sess.auth
    BY <1>details, <1>types DEF PaymentDetails, Session
  <2>. QED
    BY <1>details, <2>1, <2>2, LateKeepsOffer DEF PaymentDetails, Goes, Fails, Raises, Stops,
       Opening, Choosing
<1>authorization. ASSUME NEW signature, NEW status, NEW ready,
                         Authorization(signature, status, ready)
                  PROVE  OfferInv'
  <2>1. phase = "reading" /\ state \notin Opening \cup Choosing
    BY <1>authorization, <1>late DEF Authorization, Opening, Choosing
  <2>2. sess'.auth = sess.auth /\ UNCHANGED <<ctx, paused>>
    BY <1>authorization, <1>types DEF Authorization, Session
  <2>3. \/ phase' = "reading" /\ state' \notin Opening \cup Choosing
        \/ phase' = "stopping" /\ stopAction' = "terminate"
    BY <1>authorization, <2>1 DEF Authorization, Goes, Stays, Raises, Fails, Stops, Opening,
       Choosing
  <2>. QED
    BY <2>1, <2>2, <2>3, LateKeepsOffer
<1>parameters. ASSUME NEW mode, NEW schedules, ChargeParameterDiscovery(mode, schedules)
               PROVE  OfferInv'
  <2>1. phase = "reading" /\ state \notin Opening \cup Choosing
    BY <1>parameters, <1>late DEF ChargeParameterDiscovery, Opening, Choosing
  <2>2. sess'.auth = sess.auth /\ UNCHANGED <<ctx, paused>>
    BY <1>parameters, <1>types DEF ChargeParameterDiscovery, Session
  <2>3. \/ phase' = "reading" /\ state' \notin Opening \cup Choosing
        \/ phase' = "stopping" /\ stopAction' = "terminate"
    BY <1>parameters, <2>1 DEF ChargeParameterDiscovery, AfterParameters, Goes, Stays, Fails,
       Raises, Stops, Opening, Choosing
  <2>. QED
    BY <2>1, <2>2, <2>3, LateKeepsOffer
<1>power. ASSUME NEW id, NEW ok,
                 \/ PowerDeliveryInvalid(id, ok) \/ PowerDeliveryStart(id, ok)
                 \/ PowerDeliveryStop(id, ok) \/ PowerDeliveryRenegotiate(id)
          PROVE  OfferInv'
  <2>0. Receive("PowerDelivery")
    BY <1>power DEF PowerDeliveryInvalid, PowerDeliveryStart, PowerDeliveryStop,
       PowerDeliveryRenegotiate
  <2>1. phase = "reading" /\ state \notin Opening \cup Choosing
    BY <2>0, <1>late DEF Opening, Choosing
  <2>2. sess'.auth = sess.auth /\ UNCHANGED <<ctx, paused>>
    BY <1>power, <1>types DEF PowerDeliveryInvalid, PowerDeliveryStart, PowerDeliveryStop,
       PowerDeliveryRenegotiate, Session
  <2>3. \/ phase' = "reading" /\ state' \notin Opening \cup Choosing
        \/ phase' = "stopping" /\ stopAction' = "terminate"
    BY <1>power, <2>1 DEF PowerDeliveryInvalid, PowerDeliveryStart, PowerDeliveryStop,
       PowerDeliveryRenegotiate, Goes, Stays, Fails, Stops, Opening, Choosing
  <2>. QED
    BY <2>1, <2>2, <2>3, LateKeepsOffer
<1>cable. ASSUME NEW evError, NEW closed, NEW isolation, CableCheck(evError, closed, isolation)
          PROVE  OfferInv'
  <2>1. phase = "reading" /\ state \notin Opening \cup Choosing
    BY <1>cable, <1>late DEF CableCheck, Opening, Choosing
  <2>2. sess'.auth = sess.auth /\ UNCHANGED <<ctx, paused>>
    BY <1>cable, <1>types DEF CableCheck, Session
  <2>3. \/ phase' = "reading" /\ state' \notin Opening \cup Choosing
        \/ phase' = "stopping" /\ stopAction' = "terminate"
    BY <1>cable, <2>1 DEF CableCheck, Goes, Stays, Fails, Stops, Opening, Choosing
  <2>. QED
    BY <2>1, <2>2, <2>3, LateKeepsOffer
<1>others. ASSUME \/ \E ok \in BOOLEAN : PreCharge(ok) \/ CurrentDemand(ok)
                  \/ \E signature \in Signatures : MeteringReceipt(signature)
                  \/ ChargingStatus \/ WeldingDetection
           PROVE  OfferInv'
  <2>1. phase = "reading" /\ state \notin Opening \cup Choosing
    BY <1>others, <1>late DEF PreCharge, CurrentDemand, MeteringReceipt, ChargingStatus,
       WeldingDetection, Opening, Choosing
  <2>2. UNCHANGED <<sess, ctx, paused>>
    BY <1>others DEF PreCharge, CurrentDemand, MeteringReceipt, ChargingStatus, WeldingDetection
  <2>3. \/ phase' = "reading" /\ state' \notin Opening \cup Choosing
        \/ phase' = "stopping" /\ stopAction' = "terminate"
    BY <1>others, <2>1 DEF PreCharge, CurrentDemand, MeteringReceipt, ChargingStatus,
       WeldingDetection, Stays, Raises, Fails, Stops, Opening, Choosing
  <2>. QED
    BY <2>1, <2>2, <2>3, LateKeepsOffer
<1>stop. ASSUME NEW action, SessionStop(action) PROVE OfferInv'
  <2>1. phase = "reading" /\ state \notin Opening \cup Choosing
    BY <1>stop, <1>late DEF SessionStop, Opening, Choosing
  <2>2. sess.auth # None /\ ctx.auth = {sess.auth}
    BY <2>1 DEF OfferInv, ContextKept
  <2>3. phase' = "stopping" /\ stopAction' = action /\ UNCHANGED sess
    BY <1>stop DEF SessionStop, Stops
  <2>4. action = "pause" => ctx' = ctx /\ paused'.auth = sess.auth
    BY <1>stop DEF SessionStop
  <2>. QED
    BY <2>2, <2>3, <2>4 DEF OfferInv, ContextKept, OfferMade
<1>. QED
  BY <1>same, <1>connect, <1>disconnect, <1>lost, <1>refuse, <1>sap, <1>setup, <1>discovery,
     <1>detail, <1>selection, <1>installation, <1>details, <1>authorization, <1>parameters,
     <1>power, <1>cable, <1>others, <1>stop, <1>error
  DEF Next, Dead, Identify, Charge

\* A vehicle that comes back after a pause is offered exactly the option it had
\* selected before; any other is offered exactly what the configuration, the
\* security of its connection and an EIM authorization allow, whoever paused
\* before it (get_services, SessionSetup, ev_session_context).
THEOREM V2OfferFitsSession == Spec => []OfferFitsSession
<1>1. Init => OfferInv
  BY DEF Init, InitLoop, NewSession, NoContext, OfferInv, ContextKept, OfferMade
<1>2. OfferInv => OfferFitsSession
  BY DEF OfferInv, OfferMade, Fits, OfferFitsSession
<1>. QED
  BY <1>1, <1>2, OfferNext, V2TypeOK, PTL DEF Spec
=============================================================================
