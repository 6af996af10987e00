---------------------------- MODULE SeccV20Proofs ----------------------------
(***************************************************************************)
(* Proofs about the ISO 15118-20 state machine, for every configuration    *)
(* and any set of schedules: its types, that the charging loop is reached  *)
(* as agreed, and that it implements ChargingSession as far as SeccV20     *)
(* states it.                                                              *)
(*                                                                         *)
(* Half of the states let any listed request pass, so less follows from    *)
(* the flags of an object than in the other protocols; what holds follows  *)
(* from the class of the state and from the attributes that only grow.     *)
(***************************************************************************)
EXTENDS SeccV20, TLAPS

\* The states that come with the choice of a service.
Chosen ==
    {"ACChargeParameterDiscovery", "DCChargeParameterDiscovery", "ScheduleExchange",
     "DCCableCheck", "DCPreCharge", "PowerDelivery", "ACChargeLoop", "DCChargeLoop",
     "DCWeldingDetection"}

\* The states after the authorization.
AfterAuthorization == Chosen \cup {"ServiceDiscovery", "ServiceDetail", "ServiceSelection"}

Cleared == sess.decided \/ sess.renegotiated

\* Only a renegotiation leads past a decision that is still open, and the output
\* is live only in a session that stop() has not ended.
ClearedKept ==
    /\ (phase = "reading" /\ state \in AfterAuthorization) => Cleared
    /\ (phase = "reading" /\ state = "Authorization" /\ ~obj.expecting) => Cleared
    /\ evse.power # "off" => phase \in {"reading", "dead"}

\* A service comes from the station's list by way of the details that were sent.
ServiceKept ==
    /\ sess.matched \subseteq config.services
    /\ sess.detailed \subseteq sess.matched
    /\ (phase = "reading" /\ state \in Chosen) => sess.service \in sess.detailed

IInv ==
    /\ TypeOK
    /\ ClearedKept
    /\ ServiceKept
    /\ ReachedAsAgreed

\* The requests that a state lists besides its own.
Follows(s, type) ==
    \/ s = "AuthorizationSetup" /\ type \in {"Authorization", "CertificateInstallation",
          "SessionStop"}
    \/ s = "Authorization" /\ type \in {"CertificateInstallation", "ServiceDiscovery",
          "SessionStop"}
    \/ s = "ServiceDiscovery" /\ type \in {"ServiceDetail", "SessionStop"}
    \/ s = "ServiceDetail" /\ type \in {"ServiceSelection", "SessionStop"}
    \/ s = "ServiceSelection" /\ type \in {"SessionStop"}
    \/ s = "ACChargeParameterDiscovery" /\ type \in {"SessionStop"}
    \/ s = "DCChargeParameterDiscovery" /\ type \in {"SessionStop"}
    \/ s = "ScheduleExchange" /\ type \in {"DCCableCheck", "PowerDelivery", "SessionStop"}
    \/ s = "DCCableCheck" /\ type \in {"SessionStop"}
    \/ s = "DCPreCharge" /\ type \in {"PowerDelivery"}
    \/ s = "PowerDelivery" /\ type \in {"DCWeldingDetection", "SessionStop"}
    \/ s = "ACChargeLoop" /\ type \in {"PowerDelivery", "SessionStop"}
    \/ s = "DCChargeLoop" /\ type \in {"PowerDelivery"}
    \/ s = "DCWeldingDetection" /\ type \in {"SessionStop"}

\* What check_msg accepts, with the lists of the states spelled out.
LEMMA AcceptedTypes ==
    ASSUME state \in States, obj \in Flags, NEW type, Accepts(type)
    PROVE  type = state \/ ((state \in Relaxed \/ ~obj.expecting) /\ Follows(state, type))
<1>0. PICK i \in 1 .. Len(Expected[state]) :
          Expected[state][i] = type /\ (state \notin Relaxed /\ obj.expecting => i = 1)
  BY DEF Accepts, AcceptedBy, Lists
<1>1. CASE state = "SupportedAppProtocol"
  BY <1>0, <1>1 DEF Expected, Follows, Flags
<1>2. CASE state = "SessionSetup"
  BY <1>0, <1>2 DEF Expected, Follows, Flags
<1>3. CASE state = "AuthorizationSetup"
  BY <1>0, <1>3 DEF Expected, Follows, Flags
<1>4. CASE state = "Authorization"
  BY <1>0, <1>4 DEF Expected, Follows, Flags
<1>5. CASE state = "ServiceDiscovery"
  BY <1>0, <1>5 DEF Expected, Follows, Flags
<1>6. CASE state = "ServiceDetail"
  BY <1>0, <1>6 DEF Expected, Follows, Flags
<1>7. CASE state = "ServiceSelection"
  BY <1>0, <1>7 DEF Expected, Follows, Flags
<1>8. CASE state = "ACChargeParameterDiscovery"
  BY <1>0, <1>8 DEF Expected, Follows, Flags
<1>9. CASE state = "DCChargeParameterDiscovery"
  BY <1>0, <1>9 DEF Expected, Follows, Flags
<1>10. CASE state = "ScheduleExchange"
  BY <1>0, <1>10 DEF Expected, Follows, Flags
<1>11. CASE state = "DCCableCheck"
  BY <1>0, <1>11 DEF Expected, Follows, Flags
<1>12. CASE state = "DCPreCharge"
  BY <1>0, <1>12 DEF Expected, Follows, Flags
<1>13. CASE state = "PowerDelivery"
  BY <1>0, <1>13 DEF Expected, Follows, Flags
<1>14. CASE state = "ACChargeLoop"
  BY <1>0, <1>14 DEF Expected, Follows, Flags
<1>15. CASE state = "DCChargeLoop"
  BY <1>0, <1>15 DEF Expected, Follows, Flags
<1>16. CASE state = "DCWeldingDetection"
  BY <1>0, <1>16 DEF Expected, Follows, Flags
<1>17. CASE state = "SessionStop"
  BY <1>0, <1>17 DEF Expected, Follows, Flags
<1>. QED
  BY <1>1, <1>2, <1>3, <1>4, <1>5, <1>6, <1>7, <1>8, <1>9, <1>10,
     <1>11, <1>12, <1>13, <1>14, <1>15, <1>16, <1>17
  DEF States, Expected

Types == Requests \cup {"SupportedAppProtocol", None}

\* The end of a session keeps the invariant.
LEMMA EndKeeps ==
    ASSUME IInv, NEW a \in {"terminate", "pause"}, NEW r \in {"ok", "failed", "none"},
           NEW e \in Evse, Stops(a, r, e), last' \in Types, UNCHANGED config,
           sess' \in Session, sess'.matched = sess.matched, sess'.detailed = sess.detailed
    PROVE  IInv'
<1>1. phase' = "stopping" /\ evse' \in Evse /\ evse'.power = "off"
  BY DEF Stops, StopCharger, Evse, Uses
<1>2. TypeOK'
  BY <1>1 DEF IInv, TypeOK, LoopTypeOK, Stops, Types
<1>. QED
  BY <1>1, <1>2 DEF IInv, ClearedKept, ServiceKept, ReachedAsAgreed

LEMMA InitIInv == Init => IInv
<1>. SUFFICES ASSUME Init PROVE IInv
  OBVIOUS
<1>1. TypeOK
  BY DEF Init, InitLoop, TypeOK, LoopTypeOK, States, Expected, Fresh, Flags, Evse, Uses,
     NewSession, Session
<1>. QED
  BY <1>1 DEF Init, InitLoop, IInv, ClearedKept, ServiceKept, ReachedAsAgreed, NewSession

LEMMA NextIInv == IInv /\ [Next]_vars => IInv'
<1>. SUFFICES ASSUME IInv, [Next]_vars PROVE IInv'
  OBVIOUS
<1>types. /\ phase \in {"idle", "reading", "stopping", "dead"} /\ state \in States /\ obj \in Flags
          /\ last \in Types /\ reply \in {"ok", "failed", "none"}
          /\ stopAction \in {"terminate", "pause"} /\ evse \in Evse
          /\ config \in Configs /\ config \in Config /\ sess \in Session
  BY V20Constants DEF IInv, TypeOK, LoopTypeOK, Types
<1>names. States = AfterAuthorization \cup {"SupportedAppProtocol", "SessionSetup",
                       "AuthorizationSetup", "Authorization", "SessionStop"}
  BY DEF States, Expected, AfterAuthorization, Chosen
<1>known. States \cup {"CertificateInstallation"} \subseteq Types
  BY DEF Types, Requests
<1>flags. /\ Fresh \in Flags /\ Fresh.expecting
          /\ \A t : Handler(t) \in Flags
          /\ \A t : \A b \in BOOLEAN : /\ [Handler(t) EXCEPT !.expecting = b] \in Flags
                                       /\ [Handler(t) EXCEPT !.expecting = b].expecting = b
  <2>1. Fresh \in Flags /\ Fresh.expecting
    BY DEF Fresh, Flags
  <2>2. \A t : Handler(t) \in Flags
    BY <1>types, <2>1 DEF Handler
  <2>3. ASSUME NEW o \in Flags, NEW b \in BOOLEAN
        PROVE  [o EXCEPT !.expecting = b] \in Flags /\ [o EXCEPT !.expecting = b].expecting = b
    BY DEF Flags
  <2>. QED
    BY <2>1, <2>2, <2>3
<1>accepted. \A type : Accepts(type) =>
                 type = state \/ ((state \in Relaxed \/ ~obj.expecting) /\ Follows(state, type))
  BY <1>types, AcceptedTypes
<1>kept. UNCHANGED config
  BY DEF Next, vars
<1>connect. ASSUME Connect PROVE IInv'
  <2>1. phase' = "reading" /\ state' = "SupportedAppProtocol" /\ obj' = Fresh /\ evse' = evse
        /\ last' = None /\ reply' = "ok" /\ stopAction' = "terminate" /\ phase = "idle"
    BY <1>connect DEF Connect, StartLoop
  <2>2. sess' \in Session /\ sess'.matched = {} /\ sess'.detailed = {}
    BY <1>connect DEF Connect, NewSession, Session
  <2>3. TypeOK'
    BY <1>types, <1>names, <1>flags, <1>kept, <2>1, <2>2 DEF TypeOK, LoopTypeOK
  <2>. QED
    BY <1>types, <2>1, <2>2, <2>3
    DEF IInv, ClearedKept, ServiceKept, ReachedAsAgreed, AfterAuthorization, Chosen, Loops
<1>disconnect. ASSUME Disconnect PROVE IInv'
  <2>1. TypeOK'
    BY <1>disconnect, <1>types, <1>kept DEF Disconnect, EndLoop, TypeOK, LoopTypeOK, Types
  <2>. QED
    BY <1>disconnect, <1>kept, <2>1
    DEF Disconnect, EndLoop, IInv, ClearedKept, ServiceKept, ReachedAsAgreed
<1>lost. ASSUME ConnectionLost PROVE IInv'
  BY <1>lost, <1>types, <1>kept, EndKeeps DEF ConnectionLost, Lost
<1>error. ASSUME ConnectionError PROVE IInv'
  <2>1. TypeOK'
    BY <1>error, <1>types, <1>kept DEF ConnectionError, ReadError, TypeOK, LoopTypeOK, Types
  <2>. QED
    BY <1>error, <1>kept, <2>1
    DEF ConnectionError, ReadError, IInv, ClearedKept, ServiceKept, ReachedAsAgreed
<1>bad. ASSUME BadMessage PROVE IInv'
  BY <1>bad, <1>types, <1>kept, EndKeeps DEF BadMessage, Undecodable, Raises, Types
<1>refuse. ASSUME NEW type \in Requests, Refuse(type) PROVE IInv'
  BY <1>refuse, <1>types, <1>kept, EndKeeps DEF Refuse, Fails, Types
<1>sap. ASSUME SupportedAppProtocol PROVE IInv'
  <2>0. phase = "reading" /\ Accepts("SupportedAppProtocol") /\ last' = "SupportedAppProtocol" /\ "SupportedAppProtocol" \in States
        /\ last' \in Types
    BY <1>sap, <1>names, <1>known DEF SupportedAppProtocol, Receive, AfterAuthorization, Chosen
  <2>1. "SupportedAppProtocol" = state \/ ((state \in Relaxed \/ ~obj.expecting) /\ Follows(state, "SupportedAppProtocol"))
    BY <2>0, <1>accepted
  <2>2. sess' \in Session
    BY <1>sap, <1>types DEF SupportedAppProtocol, Session, Config
  <2>3. CASE phase' = "stopping"
    <3>1. sess'.matched = sess.matched /\ sess'.detailed = sess.detailed
      BY <1>sap, <1>types, <2>0, <2>3 DEF SupportedAppProtocol, Goes, Stays, Session
    <3>. QED
      BY <1>sap, <1>types, <1>kept, <2>0, <2>2, <2>3, <3>1, EndKeeps
      DEF SupportedAppProtocol, Fails, Raises, Goes, Stays
  <2>4. CASE phase' = "reading"
    <3>1. TypeOK'
      BY <1>sap, <1>types, <1>names, <1>flags, <1>known, <1>kept, <2>0, <2>2, <2>4
      DEF SupportedAppProtocol, Goes, Stays, Stops, Fails, Raises, TypeOK, LoopTypeOK, Types,
         AfterAuthorization, Chosen
    <3>2. ClearedKept'
      BY <1>sap, <1>types, <1>flags, <2>0, <2>1, <2>2, <2>4
      DEF SupportedAppProtocol, Goes, Stays, Stops, Fails, Raises, Follows, Session, IInv, ClearedKept,
         AfterAuthorization, Chosen, Cleared, Relaxed
    <3>3. ServiceKept'
      BY <1>sap, <1>types, <1>kept, <2>0, <2>1, <2>2, <2>4
      DEF SupportedAppProtocol, Goes, Stays, Stops, Fails, Raises, Follows, Session, IInv, ServiceKept,
         Chosen
    <3>4. ReachedAsAgreed'
      BY <1>sap, <1>types, <1>kept, <2>0, <2>1, <2>2, <2>4
      DEF SupportedAppProtocol, Goes, Stays, Stops, Fails, Raises, Follows, Session, IInv, ReachedAsAgreed,
         Loops
    <3>. QED
      BY <3>1, <3>2, <3>3, <3>4 DEF IInv
  <2>. QED
    BY <1>sap, <2>0, <2>3, <2>4 DEF SupportedAppProtocol, Goes, Stays, Stops, Fails, Raises
<1>setup. ASSUME SessionSetup PROVE IInv'
  <2>0. phase = "reading" /\ Accepts("SessionSetup") /\ last' = "SessionSetup" /\ "SessionSetup" \in States
        /\ last' \in Types
    BY <1>setup, <1>names, <1>known DEF SessionSetup, Receive, AfterAuthorization, Chosen
  <2>1. "SessionSetup" = state \/ ((state \in Relaxed \/ ~obj.expecting) /\ Follows(state, "SessionSetup"))
    BY <2>0, <1>accepted
  <2>2. sess' \in Session
    BY <1>setup, <1>types DEF SessionSetup, Session, Config
  <2>3. CASE phase' = "stopping"
    <3>1. sess'.matched = sess.matched /\ sess'.detailed = sess.detailed
      BY <1>setup, <1>types, <2>0, <2>3 DEF SessionSetup, Goes, Stays, Session
    <3>. QED
      BY <1>setup, <1>types, <1>kept, <2>0, <2>2, <2>3, <3>1, EndKeeps
      DEF SessionSetup, Fails, Raises, Goes, Stays
  <2>4. CASE phase' = "reading"
    <3>1. TypeOK'
      BY <1>setup, <1>types, <1>names, <1>flags, <1>known, <1>kept, <2>0, <2>2, <2>4
      DEF SessionSetup, Goes, Stays, Stops, Fails, Raises, TypeOK, LoopTypeOK, Types,
         AfterAuthorization, Chosen
    <3>2. ClearedKept'
      BY <1>setup, <1>types, <1>flags, <2>0, <2>1, <2>2, <2>4
      DEF SessionSetup, Goes, Stays, Stops, Fails, Raises, Follows, Session, IInv, ClearedKept,
         AfterAuthorization, Chosen, Cleared, Relaxed
    <3>3. ServiceKept'
      BY <1>setup, <1>types, <1>kept, <2>0, <2>1, <2>2, <2>4
      DEF SessionSetup, Goes, Stays, Stops, Fails, Raises, Follows, Session, IInv, ServiceKept,
         Chosen
    <3>4. ReachedAsAgreed'
      BY <1>setup, <1>types, <1>kept, <2>0, <2>1, <2>2, <2>4
      DEF SessionSetup, Goes, Stays, Stops, Fails, Raises, Follows, Session, IInv, ReachedAsAgreed,
         Loops
    <3>. QED
      BY <3>1, <3>2, <3>3, <3>4 DEF IInv
  <2>. QED
    BY <1>setup, <2>0, <2>3, <2>4 DEF SessionSetup, Goes, Stays, Stops, Fails, Raises
<1>authsetup. ASSUME AuthorizationSetup PROVE IInv'
  <2>0. phase = "reading" /\ Accepts("AuthorizationSetup") /\ last' = "AuthorizationSetup" /\ "AuthorizationSetup" \in States
        /\ last' \in Types
    BY <1>authsetup, <1>names, <1>known DEF AuthorizationSetup, Receive, AfterAuthorization, Chosen
  <2>1. "AuthorizationSetup" = state \/ ((state \in Relaxed \/ ~obj.expecting) /\ Follows(state, "AuthorizationSetup"))
    BY <2>0, <1>accepted
  <2>2. sess' \in Session
    BY <1>authsetup, <1>types DEF AuthorizationSetup, Session, Config
  <2>3. CASE phase' = "stopping"
    <3>1. sess'.matched = sess.matched /\ sess'.detailed = sess.detailed
      BY <1>authsetup, <1>types, <2>0, <2>3 DEF AuthorizationSetup, Goes, Stays, Session
    <3>. QED
      BY <1>authsetup, <1>types, <1>kept, <2>0, <2>2, <2>3, <3>1, EndKeeps
      DEF AuthorizationSetup, Fails, Raises, Goes, Stays
  <2>4. CASE phase' = "reading"
    <3>1. TypeOK'
      BY <1>authsetup, <1>types, <1>names, <1>flags, <1>known, <1>kept, <2>0, <2>2, <2>4
      DEF AuthorizationSetup, Goes, Stays, Stops, Fails, Raises, TypeOK, LoopTypeOK, Types,
         AfterAuthorization, Chosen
    <3>2. ClearedKept'
      BY <1>authsetup, <1>types, <1>flags, <2>0, <2>1, <2>2, <2>4
      DEF AuthorizationSetup, Goes, Stays, Stops, Fails, Raises, Follows, Session, IInv, ClearedKept,
         AfterAuthorization, Chosen, Cleared, Relaxed
    <3>3. ServiceKept'
      BY <1>authsetup, <1>types, <1>kept, <2>0, <2>1, <2>2, <2>4
      DEF AuthorizationSetup, Goes, Stays, Stops, Fails, Raises, Follows, Session, IInv, ServiceKept,
         Chosen
    <3>4. ReachedAsAgreed'
      BY <1>authsetup, <1>types, <1>kept, <2>0, <2>1, <2>2, <2>4
      DEF AuthorizationSetup, Goes, Stays, Stops, Fails, Raises, Follows, Session, IInv, ReachedAsAgreed,
         Loops
    <3>. QED
      BY <3>1, <3>2, <3>3, <3>4 DEF IInv
  <2>. QED
    BY <1>authsetup, <2>0, <2>3, <2>4 DEF AuthorizationSetup, Goes, Stays, Stops, Fails, Raises
<1>install. ASSUME CertificateInstallation PROVE IInv'
  <2>0. phase = "reading" /\ Accepts("CertificateInstallation") /\ last' = "CertificateInstallation" /\ last' \in Types
    BY <1>install, <1>names, <1>known DEF CertificateInstallation, Receive, AfterAuthorization, Chosen
  <2>. QED
    BY <1>install, <1>types, <1>kept, <2>0, EndKeeps DEF CertificateInstallation, Raises
<1>authorization. ASSUME NEW pncParams \in BOOLEAN, NEW signature, NEW status,
              NEW code \in {"ok", "failed"},
              Authorization(pncParams, signature, status, code)
              PROVE IInv'
  <2>0. phase = "reading" /\ Accepts("Authorization") /\ last' = "Authorization" /\ "Authorization" \in States
        /\ last' \in Types
    BY <1>authorization, <1>names, <1>known DEF Authorization, Receive, AfterAuthorization, Chosen
  <2>1. "Authorization" = state \/ ((state \in Relaxed \/ ~obj.expecting) /\ Follows(state, "Authorization"))
    BY <2>0, <1>accepted
  <2>2. sess' \in Session
    BY <1>authorization, <1>types DEF Authorization, Session, Config
  <2>3. CASE phase' = "stopping"
    <3>1. sess'.matched = sess.matched /\ sess'.detailed = sess.detailed
      BY <1>authorization, <1>types, <2>0, <2>3 DEF Authorization, Goes, Stays, Session
    <3>. QED
      BY <1>authorization, <1>types, <1>kept, <2>0, <2>2, <2>3, <3>1, EndKeeps
      DEF Authorization, Fails, Raises, Goes, Stays
  <2>4. CASE phase' = "reading"
    <3>1. TypeOK'
      BY <1>authorization, <1>types, <1>names, <1>flags, <1>known, <1>kept, <2>0, <2>2, <2>4
      DEF Authorization, Decided, Goes, Stays, Stops, Fails, Raises, TypeOK, LoopTypeOK, Types,
         AfterAuthorization, Chosen
    <3>2. ClearedKept'
      BY <1>authorization, <1>types, <1>flags, <2>0, <2>1, <2>2, <2>4
      DEF Authorization, Decided, Goes, Stays, Stops, Fails, Raises, Follows, Session, IInv, ClearedKept,
         AfterAuthorization, Chosen, Cleared, Relaxed
    <3>3. ServiceKept'
      BY <1>authorization, <1>types, <1>kept, <2>0, <2>1, <2>2, <2>4
      DEF Authorization, Decided, Goes, Stays, Stops, Fails, Raises, Follows, Session, IInv, ServiceKept,
         Chosen
    <3>4. ReachedAsAgreed'
      BY <1>authorization, <1>types, <1>kept, <2>0, <2>1, <2>2, <2>4
      DEF Authorization, Decided, Goes, Stays, Stops, Fails, Raises, Follows, Session, IInv, ReachedAsAgreed,
         Loops
    <3>. QED
      BY <3>1, <3>2, <3>3, <3>4 DEF IInv
  <2>. QED
    BY <1>authorization, <2>0, <2>3, <2>4 DEF Authorization, Goes, Stays, Stops, Fails, Raises
<1>discovery. ASSUME ServiceDiscovery PROVE IInv'
  <2>0. phase = "reading" /\ Accepts("ServiceDiscovery") /\ last' = "ServiceDiscovery" /\ "ServiceDiscovery" \in States
        /\ last' \in Types
    BY <1>discovery, <1>names, <1>known DEF ServiceDiscovery, Receive, AfterAuthorization, Chosen
  <2>1. "ServiceDiscovery" = state \/ ((state \in Relaxed \/ ~obj.expecting) /\ Follows(state, "ServiceDiscovery"))
    BY <2>0, <1>accepted
  <2>2. sess' \in Session
    BY <1>discovery, <1>types DEF ServiceDiscovery, Session, Config
  <2>3. CASE phase' = "stopping"
    <3>1. sess'.matched = sess.matched /\ sess'.detailed = sess.detailed
      BY <1>discovery, <1>types, <2>0, <2>3 DEF ServiceDiscovery, Goes, Stays, Session
    <3>. QED
      BY <1>discovery, <1>types, <1>kept, <2>0, <2>2, <2>3, <3>1, EndKeeps
      DEF ServiceDiscovery, Fails, Raises, Goes, Stays
  <2>4. CASE phase' = "reading"
    <3>1. TypeOK'
      BY <1>discovery, <1>types, <1>names, <1>flags, <1>known, <1>kept, <2>0, <2>2, <2>4
      DEF ServiceDiscovery, Goes, Stays, Stops, Fails, Raises, TypeOK, LoopTypeOK, Types,
         AfterAuthorization, Chosen
    <3>2. ClearedKept'
      BY <1>discovery, <1>types, <1>flags, <2>0, <2>1, <2>2, <2>4
      DEF ServiceDiscovery, Goes, Stays, Stops, Fails, Raises, Follows, Session, IInv, ClearedKept,
         AfterAuthorization, Chosen, Cleared, Relaxed
    <3>3. ServiceKept'
      BY <1>discovery, <1>types, <1>kept, <2>0, <2>1, <2>2, <2>4
      DEF ServiceDiscovery, Goes, Stays, Stops, Fails, Raises, Follows, Session, IInv, ServiceKept,
         Chosen
    <3>4. ReachedAsAgreed'
      BY <1>discovery, <1>types, <1>kept, <2>0, <2>1, <2>2, <2>4
      DEF ServiceDiscovery, Goes, Stays, Stops, Fails, Raises, Follows, Session, IInv, ReachedAsAgreed,
         Loops
    <3>. QED
      BY <3>1, <3>2, <3>3, <3>4 DEF IInv
  <2>. QED
    BY <1>discovery, <2>0, <2>3, <2>4 DEF ServiceDiscovery, Goes, Stays, Stops, Fails, Raises
<1>detail. ASSUME NEW s \in Services, NEW known \in BOOLEAN, ServiceDetail(s, known) PROVE IInv'
  <2>0. phase = "reading" /\ Accepts("ServiceDetail") /\ last' = "ServiceDetail" /\ "ServiceDetail" \in States
        /\ last' \in Types
    BY <1>detail, <1>names, <1>known DEF ServiceDetail, Receive, AfterAuthorization, Chosen
  <2>1. "ServiceDetail" = state \/ ((state \in Relaxed \/ ~obj.expecting) /\ Follows(state, "ServiceDetail"))
    BY <2>0, <1>accepted
  <2>2. sess' \in Session
    BY <1>detail, <1>types DEF ServiceDetail, Session, Config
  <2>3. CASE phase' = "stopping"
    <3>1. sess'.matched = sess.matched /\ sess'.detailed = sess.detailed
      BY <1>detail, <1>types, <2>0, <2>3 DEF ServiceDetail, Goes, Stays, Session
    <3>. QED
      BY <1>detail, <1>types, <1>kept, <2>0, <2>2, <2>3, <3>1, EndKeeps
      DEF ServiceDetail, Fails, Raises, Goes, Stays
  <2>4. CASE phase' = "reading"
    <3>1. TypeOK'
      BY <1>detail, <1>types, <1>names, <1>flags, <1>known, <1>kept, <2>0, <2>2, <2>4
      DEF ServiceDetail, Goes, Stays, Stops, Fails, Raises, TypeOK, LoopTypeOK, Types,
         AfterAuthorization, Chosen
    <3>2. ClearedKept'
      BY <1>detail, <1>types, <1>flags, <2>0, <2>1, <2>2, <2>4
      DEF ServiceDetail, Goes, Stays, Stops, Fails, Raises, Follows, Session, IInv, ClearedKept,
         AfterAuthorization, Chosen, Cleared, Relaxed
    <3>3. ServiceKept'
      BY <1>detail, <1>types, <1>kept, <2>0, <2>1, <2>2, <2>4
      DEF ServiceDetail, Goes, Stays, Stops, Fails, Raises, Follows, Session, IInv, ServiceKept,
         Chosen
    <3>4. ReachedAsAgreed'
      BY <1>detail, <1>types, <1>kept, <2>0, <2>1, <2>2, <2>4
      DEF ServiceDetail, Goes, Stays, Stops, Fails, Raises, Follows, Session, IInv, ReachedAsAgreed,
         Loops
    <3>. QED
      BY <3>1, <3>2, <3>3, <3>4 DEF IInv
  <2>. QED
    BY <1>detail, <2>0, <2>3, <2>4 DEF ServiceDetail, Goes, Stays, Stops, Fails, Raises
<1>selection. ASSUME NEW s \in Services, NEW mode \in Modes, ServiceSelection(s, mode) PROVE IInv'
  <2>0. phase = "reading" /\ Accepts("ServiceSelection") /\ last' = "ServiceSelection" /\ "ServiceSelection" \in States
        /\ last' \in Types
    BY <1>selection, <1>names, <1>known DEF ServiceSelection, Selectable, Receive, AfterAuthorization, Chosen
  <2>1. "ServiceSelection" = state \/ ((state \in Relaxed \/ ~obj.expecting) /\ Follows(state, "ServiceSelection"))
    BY <2>0, <1>accepted
  <2>2. sess' \in Session
    BY <1>selection, <1>types DEF ServiceSelection, Selectable, Session, Config
  <2>3. CASE phase' = "stopping"
    <3>1. sess'.matched = sess.matched /\ sess'.detailed = sess.detailed
      BY <1>selection, <1>types, <2>0, <2>3 DEF ServiceSelection, Selectable, Goes, Stays, Session
    <3>. QED
      BY <1>selection, <1>types, <1>kept, <2>0, <2>2, <2>3, <3>1, EndKeeps
      DEF ServiceSelection, Selectable, Fails, Raises, Goes, Stays
  <2>4. CASE phase' = "reading"
    <3>1. TypeOK'
      BY <1>selection, <1>types, <1>names, <1>flags, <1>known, <1>kept, <2>0, <2>2, <2>4
      DEF ServiceSelection, Selectable, Goes, Stays, Stops, Fails, Raises, TypeOK, LoopTypeOK, Types,
         AfterAuthorization, Chosen
    <3>2. ClearedKept'
      BY <1>selection, <1>types, <1>flags, <2>0, <2>1, <2>2, <2>4
      DEF ServiceSelection, Selectable, Goes, Stays, Stops, Fails, Raises, Follows, Session, IInv, ClearedKept,
         AfterAuthorization, Chosen, Cleared, Relaxed
    <3>3. ServiceKept'
      BY <1>selection, <1>types, <1>kept, <2>0, <2>1, <2>2, <2>4
      DEF ServiceSelection, Selectable, Goes, Stays, Stops, Fails, Raises, Follows, Session, IInv, ServiceKept,
         Chosen
    <3>4. ReachedAsAgreed'
      BY <1>selection, <1>types, <1>kept, <2>0, <2>1, <2>2, <2>4
      DEF ServiceSelection, Selectable, Goes, Stays, Stops, Fails, Raises, Follows, Session, IInv, ReachedAsAgreed,
         Loops
    <3>. QED
      BY <3>1, <3>2, <3>3, <3>4 DEF IInv
  <2>. QED
    BY <1>selection, <2>0, <2>3, <2>4 DEF ServiceSelection, Selectable, Goes, Stays, Stops, Fails, Raises
<1>acparams. ASSUME NEW given, ACChargeParameterDiscovery(given) PROVE IInv'
  <2>0. phase = "reading" /\ Accepts("ACChargeParameterDiscovery") /\ last' = "ACChargeParameterDiscovery" /\ "ACChargeParameterDiscovery" \in States
        /\ last' \in Types
    BY <1>acparams, <1>names, <1>known DEF ACChargeParameterDiscovery, ChargeParameterDiscovery, Receive, AfterAuthorization, Chosen
  <2>1. "ACChargeParameterDiscovery" = state \/ ((state \in Relaxed \/ ~obj.expecting) /\ Follows(state, "ACChargeParameterDiscovery"))
    BY <2>0, <1>accepted
  <2>2. sess' \in Session
    BY <1>acparams, <1>types DEF ACChargeParameterDiscovery, ChargeParameterDiscovery, Session, Config
  <2>3. CASE phase' = "stopping"
    <3>1. sess'.matched = sess.matched /\ sess'.detailed = sess.detailed
      BY <1>acparams, <1>types, <2>0, <2>3 DEF ACChargeParameterDiscovery, ChargeParameterDiscovery, Goes, Stays, Session
    <3>. QED
      BY <1>acparams, <1>types, <1>kept, <2>0, <2>2, <2>3, <3>1, EndKeeps
      DEF ACChargeParameterDiscovery, ChargeParameterDiscovery, Fails, Raises, Goes, Stays
  <2>4. CASE phase' = "reading"
    <3>1. TypeOK'
      BY <1>acparams, <1>types, <1>names, <1>flags, <1>known, <1>kept, <2>0, <2>2, <2>4
      DEF ACChargeParameterDiscovery, ChargeParameterDiscovery, Goes, Stays, Stops, Fails, Raises, TypeOK, LoopTypeOK, Types,
         AfterAuthorization, Chosen
    <3>2. ClearedKept'
      BY <1>acparams, <1>types, <1>flags, <2>0, <2>1, <2>2, <2>4
      DEF ACChargeParameterDiscovery, ChargeParameterDiscovery, Goes, Stays, Stops, Fails, Raises, Follows, Session, IInv, ClearedKept,
         AfterAuthorization, Chosen, Cleared, Relaxed
    <3>3. ServiceKept'
      BY <1>acparams, <1>types, <1>kept, <2>0, <2>1, <2>2, <2>4
      DEF ACChargeParameterDiscovery, ChargeParameterDiscovery, Goes, Stays, Stops, Fails, Raises, Follows, Session, IInv, ServiceKept,
         Chosen
    <3>4. ReachedAsAgreed'
      BY <1>acparams, <1>types, <1>kept, <2>0, <2>1, <2>2, <2>4
      DEF ACChargeParameterDiscovery, ChargeParameterDiscovery, Goes, Stays, Stops, Fails, Raises, Follows, Session, IInv, ReachedAsAgreed,
         Loops
    <3>. QED
      BY <3>1, <3>2, <3>3, <3>4 DEF IInv
  <2>. QED
    BY <1>acparams, <2>0, <2>3, <2>4 DEF ACChargeParameterDiscovery, ChargeParameterDiscovery, Goes, Stays, Stops, Fails, Raises
<1>dcparams. ASSUME NEW given, DCChargeParameterDiscovery(given) PROVE IInv'
  <2>0. phase = "reading" /\ Accepts("DCChargeParameterDiscovery") /\ last' = "DCChargeParameterDiscovery" /\ "DCChargeParameterDiscovery" \in States
        /\ last' \in Types
    BY <1>dcparams, <1>names, <1>known DEF DCChargeParameterDiscovery, ChargeParameterDiscovery, Receive, AfterAuthorization, Chosen
  <2>1. "DCChargeParameterDiscovery" = state \/ ((state \in Relaxed \/ ~obj.expecting) /\ Follows(state, "DCChargeParameterDiscovery"))
    BY <2>0, <1>accepted
  <2>2. sess' \in Session
    BY <1>dcparams, <1>types DEF DCChargeParameterDiscovery, ChargeParameterDiscovery, Session, Config
  <2>3. CASE phase' = "stopping"
    <3>1. sess'.matched = sess.matched /\ sess'.detailed = sess.detailed
      BY <1>dcparams, <1>types, <2>0, <2>3 DEF DCChargeParameterDiscovery, ChargeParameterDiscovery, Goes, Stays, Session
    <3>. QED
      BY <1>dcparams, <1>types, <1>kept, <2>0, <2>2, <2>3, <3>1, EndKeeps
      DEF DCChargeParameterDiscovery, ChargeParameterDiscovery, Fails, Raises, Goes, Stays
  <2>4. CASE phase' = "reading"
    <3>1. TypeOK'
      BY <1>dcparams, <1>types, <1>names, <1>flags, <1>known, <1>kept, <2>0, <2>2, <2>4
      DEF DCChargeParameterDiscovery, ChargeParameterDiscovery, Goes, Stays, Stops, Fails, Raises, TypeOK, LoopTypeOK, Types,
         AfterAuthorization, Chosen
    <3>2. ClearedKept'
      BY <1>dcparams, <1>types, <1>flags, <2>0, <2>1, <2>2, <2>4
      DEF DCChargeParameterDiscovery, ChargeParameterDiscovery, Goes, Stays, Stops, Fails, Raises, Follows, Session, IInv, ClearedKept,
         AfterAuthorization, Chosen, Cleared, Relaxed
    <3>3. ServiceKept'
      BY <1>dcparams, <1>types, <1>kept, <2>0, <2>1, <2>2, <2>4
      DEF DCChargeParameterDiscovery, ChargeParameterDiscovery, Goes, Stays, Stops, Fails, Raises, Follows, Session, IInv, ServiceKept,
         Chosen
    <3>4. ReachedAsAgreed'
      BY <1>dcparams, <1>types, <1>kept, <2>0, <2>1, <2>2, <2>4
      DEF DCChargeParameterDiscovery, ChargeParameterDiscovery, Goes, Stays, Stops, Fails, Raises, Follows, Session, IInv, ReachedAsAgreed,
         Loops
    <3>. QED
      BY <3>1, <3>2, <3>3, <3>4 DEF IInv
  <2>. QED
    BY <1>dcparams, <2>0, <2>3, <2>4 DEF DCChargeParameterDiscovery, ChargeParameterDiscovery, Goes, Stays, Stops, Fails, Raises
<1>schedule. ASSUME NEW given, NEW answered \in BOOLEAN, NEW ready \in BOOLEAN,
              NEW schedules \in SUBSET ScheduleIds,
              ScheduleExchange(given, answered, ready, schedules) PROVE IInv'
  <2>0. phase = "reading" /\ Accepts("ScheduleExchange") /\ last' = "ScheduleExchange" /\ "ScheduleExchange" \in States
        /\ last' \in Types
    BY <1>schedule, <1>names, <1>known DEF ScheduleExchange, Receive, AfterAuthorization, Chosen
  <2>1. "ScheduleExchange" = state \/ ((state \in Relaxed \/ ~obj.expecting) /\ Follows(state, "ScheduleExchange"))
    BY <2>0, <1>accepted
  <2>2. sess' \in Session
    BY <1>schedule, <1>types DEF ScheduleExchange, Session, Config
  <2>3. CASE phase' = "stopping"
    <3>1. sess'.matched = sess.matched /\ sess'.detailed = sess.detailed
      BY <1>schedule, <1>types, <2>0, <2>3 DEF ScheduleExchange, Goes, Stays, Session
    <3>. QED
      BY <1>schedule, <1>types, <1>kept, <2>0, <2>2, <2>3, <3>1, EndKeeps
      DEF ScheduleExchange, Fails, Raises, Goes, Stays
  <2>4. CASE phase' = "reading"
    <3>1. TypeOK'
      BY <1>schedule, <1>types, <1>names, <1>flags, <1>known, <1>kept, <2>0, <2>2, <2>4
      DEF ScheduleExchange, Goes, Stays, Stops, Fails, Raises, TypeOK, LoopTypeOK, Types,
         AfterAuthorization, Chosen
    <3>2. ClearedKept'
      BY <1>schedule, <1>types, <1>flags, <2>0, <2>1, <2>2, <2>4
      DEF ScheduleExchange, Goes, Stays, Stops, Fails, Raises, Follows, Session, IInv, ClearedKept,
         AfterAuthorization, Chosen, Cleared, Relaxed
    <3>3. ServiceKept'
      BY <1>schedule, <1>types, <1>kept, <2>0, <2>1, <2>2, <2>4
      DEF ScheduleExchange, Goes, Stays, Stops, Fails, Raises, Follows, Session, IInv, ServiceKept,
         Chosen
    <3>4. ReachedAsAgreed'
      BY <1>schedule, <1>types, <1>kept, <2>0, <2>1, <2>2, <2>4
      DEF ScheduleExchange, Goes, Stays, Stops, Fails, Raises, Follows, Session, IInv, ReachedAsAgreed,
         Loops
    <3>. QED
      BY <3>1, <3>2, <3>3, <3>4 DEF IInv
  <2>. QED
    BY <1>schedule, <2>0, <2>3, <2>4 DEF ScheduleExchange, Goes, Stays, Stops, Fails, Raises
<1>precharge. ASSUME NEW finished \in BOOLEAN, NEW fine \in BOOLEAN, DCPreCharge(finished, fine) PROVE IInv'
  <2>0. phase = "reading" /\ Accepts("DCPreCharge") /\ last' = "DCPreCharge" /\ "DCPreCharge" \in States
        /\ last' \in Types
    BY <1>precharge, <1>names, <1>known DEF DCPreCharge, Receive, AfterAuthorization, Chosen
  <2>1. "DCPreCharge" = state \/ ((state \in Relaxed \/ ~obj.expecting) /\ Follows(state, "DCPreCharge"))
    BY <2>0, <1>accepted
  <2>t. [evse EXCEPT !.power = "precharge"] \in Evse /\ [evse EXCEPT !.power = "precharge"].hlc = evse.hlc
    BY <1>types DEF Evse, Uses
  <2>2. sess' \in Session
    BY <1>precharge, <1>types DEF DCPreCharge, Session, Config
  <2>3. CASE phase' = "stopping"
    <3>1. sess'.matched = sess.matched /\ sess'.detailed = sess.detailed
      BY <1>precharge, <1>types, <2>0, <2>3 DEF DCPreCharge, Goes, Stays, Session
    <3>. QED
      BY <1>precharge, <1>types, <1>kept, <2>0, <2>2, <2>3, <3>1, <2>t, EndKeeps
      DEF DCPreCharge, Fails, Raises, Goes, Stays
  <2>4. CASE phase' = "reading"
    <3>1. TypeOK'
      BY <1>precharge, <1>types, <1>names, <1>flags, <1>known, <1>kept, <2>0, <2>2, <2>4, <2>t
      DEF DCPreCharge, Goes, Stays, Stops, Fails, Raises, TypeOK, LoopTypeOK, Types,
         AfterAuthorization, Chosen
    <3>2. ClearedKept'
      BY <1>precharge, <1>types, <1>flags, <2>0, <2>1, <2>2, <2>4
      DEF DCPreCharge, Goes, Stays, Stops, Fails, Raises, Follows, Session, IInv, ClearedKept,
         AfterAuthorization, Chosen, Cleared, Relaxed
    <3>3. ServiceKept'
      BY <1>precharge, <1>types, <1>kept, <2>0, <2>1, <2>2, <2>4
      DEF DCPreCharge, Goes, Stays, Stops, Fails, Raises, Follows, Session, IInv, ServiceKept,
         Chosen
    <3>4. ReachedAsAgreed'
      BY <1>precharge, <1>types, <1>kept, <2>0, <2>1, <2>2, <2>4, <2>t
      DEF DCPreCharge, Goes, Stays, Stops, Fails, Raises, Follows, Session, IInv, ReachedAsAgreed,
         Loops
    <3>. QED
      BY <3>1, <3>2, <3>3, <3>4 DEF IInv
  <2>. QED
    BY <1>precharge, <2>0, <2>3, <2>4 DEF DCPreCharge, Goes, Stays, Stops, Fails, Raises
<1>ongoing. ASSUME PowerDeliveryOngoing PROVE IInv'
  <2>0. phase = "reading" /\ Accepts("PowerDelivery") /\ last' = "PowerDelivery" /\ "PowerDelivery" \in States
        /\ last' \in Types
    BY <1>ongoing, <1>names, <1>known DEF PowerDeliveryOngoing, Receive, AfterAuthorization, Chosen
  <2>1. "PowerDelivery" = state \/ ((state \in Relaxed \/ ~obj.expecting) /\ Follows(state, "PowerDelivery"))
    BY <2>0, <1>accepted
  <2>2. sess' \in Session
    BY <1>ongoing, <1>types DEF PowerDeliveryOngoing, Session, Config
  <2>3. CASE phase' = "stopping"
    <3>1. sess'.matched = sess.matched /\ sess'.detailed = sess.detailed
      BY <1>ongoing, <1>types, <2>0, <2>3 DEF PowerDeliveryOngoing, Goes, Stays, Session
    <3>. QED
      BY <1>ongoing, <1>types, <1>kept, <2>0, <2>2, <2>3, <3>1, EndKeeps
      DEF PowerDeliveryOngoing, Fails, Raises, Goes, Stays
  <2>4. CASE phase' = "reading"
    <3>1. TypeOK'
      BY <1>ongoing, <1>types, <1>names, <1>flags, <1>known, <1>kept, <2>0, <2>2, <2>4
      DEF PowerDeliveryOngoing, Goes, Stays, Stops, Fails, Raises, TypeOK, LoopTypeOK, Types,
         AfterAuthorization, Chosen
    <3>2. ClearedKept'
      BY <1>ongoing, <1>types, <1>flags, <2>0, <2>1, <2>2, <2>4
      DEF PowerDeliveryOngoing, Goes, Stays, Stops, Fails, Raises, Follows, Session, IInv, ClearedKept,
         AfterAuthorization, Chosen, Cleared, Relaxed
    <3>3. ServiceKept'
      BY <1>ongoing, <1>types, <1>kept, <2>0, <2>1, <2>2, <2>4
      DEF PowerDeliveryOngoing, Goes, Stays, Stops, Fails, Raises, Follows, Session, IInv, ServiceKept,
         Chosen
    <3>4. ReachedAsAgreed'
      BY <1>ongoing, <1>types, <1>kept, <2>0, <2>1, <2>2, <2>4
      DEF PowerDeliveryOngoing, Goes, Stays, Stops, Fails, Raises, Follows, Session, IInv, ReachedAsAgreed,
         Loops
    <3>. QED
      BY <3>1, <3>2, <3>3, <3>4 DEF IInv
  <2>. QED
    BY <1>ongoing, <2>0, <2>3, <2>4 DEF PowerDeliveryOngoing, Goes, Stays, Stops, Fails, Raises
<1>stop. ASSUME NEW opened \in BOOLEAN, PowerDeliveryStop(opened) PROVE IInv'
  <2>0. phase = "reading" /\ Accepts("PowerDelivery") /\ last' = "PowerDelivery" /\ "PowerDelivery" \in States
        /\ last' \in Types
    BY <1>stop, <1>names, <1>known DEF PowerDeliveryStop, Receive, AfterAuthorization, Chosen
  <2>1. "PowerDelivery" = state \/ ((state \in Relaxed \/ ~obj.expecting) /\ Follows(state, "PowerDelivery"))
    BY <2>0, <1>accepted
  <2>. DEFINE ended == StopCharger([evse EXCEPT !.hlc = FALSE])
  <2>t. ended \in Evse /\ ended.power = "off"
    BY <1>types DEF Evse, Uses, StopCharger
  <2>2. sess' \in Session
    BY <1>stop, <1>types DEF PowerDeliveryStop, Session, Config
  <2>. HIDE DEF ended
  <2>3. CASE phase' = "stopping"
    <3>1. sess'.matched = sess.matched /\ sess'.detailed = sess.detailed
      BY <1>stop, <1>types, <2>0, <2>3 DEF PowerDeliveryStop, Goes, Stays, Session
    <3>. QED
      BY <1>stop, <1>types, <1>kept, <2>0, <2>2, <2>3, <3>1, <2>t, EndKeeps
      DEF PowerDeliveryStop, Fails, Raises, Goes, Stays, ended
  <2>4. CASE phase' = "reading"
    <3>1. TypeOK'
      BY <1>stop, <1>types, <1>names, <1>flags, <1>known, <1>kept, <2>0, <2>2, <2>4, <2>t
      DEF PowerDeliveryStop, Goes, Stays, Stops, Fails, Raises, TypeOK, LoopTypeOK, Types,
         AfterAuthorization, Chosen, ended
    <3>2. ClearedKept'
      BY <1>stop, <1>types, <1>flags, <2>0, <2>1, <2>2, <2>4
      DEF PowerDeliveryStop, Goes, Stays, Stops, Fails, Raises, Follows, Session, IInv, ClearedKept,
         AfterAuthorization, Chosen, Cleared, Relaxed
    <3>3. ServiceKept'
      BY <1>stop, <1>types, <1>kept, <2>0, <2>1, <2>2, <2>4
      DEF PowerDeliveryStop, Goes, Stays, Stops, Fails, Raises, Follows, Session, IInv, ServiceKept,
         Chosen
    <3>4. ReachedAsAgreed'
      BY <1>stop, <1>types, <1>kept, <2>0, <2>1, <2>2, <2>4, <2>t
      DEF PowerDeliveryStop, Goes, Stays, Stops, Fails, Raises, Follows, Session, IInv, ReachedAsAgreed,
         Loops, ended
    <3>. QED
      BY <3>1, <3>2, <3>3, <3>4 DEF IInv
  <2>. QED
    BY <1>stop, <2>0, <2>3, <2>4 DEF PowerDeliveryStop, Goes, Stays, Stops, Fails, Raises
<1>acloop. ASSUME NEW given, ACChargeLoop(given) PROVE IInv'
  <2>0. phase = "reading" /\ Accepts("ACChargeLoop") /\ last' = "ACChargeLoop" /\ "ACChargeLoop" \in States
        /\ last' \in Types
    BY <1>acloop, <1>names, <1>known DEF ACChargeLoop, Receive, AfterAuthorization, Chosen
  <2>1. "ACChargeLoop" = state \/ ((state \in Relaxed \/ ~obj.expecting) /\ Follows(state, "ACChargeLoop"))
    BY <2>0, <1>accepted
  <2>2. sess' \in Session
    BY <1>acloop, <1>types DEF ACChargeLoop, Session, Config
  <2>3. CASE phase' = "stopping"
    <3>1. sess'.matched = sess.matched /\ sess'.detailed = sess.detailed
      BY <1>acloop, <1>types, <2>0, <2>3 DEF ACChargeLoop, Goes, Stays, Session
    <3>. QED
      BY <1>acloop, <1>types, <1>kept, <2>0, <2>2, <2>3, <3>1, EndKeeps
      DEF ACChargeLoop, Fails, Raises, Goes, Stays
  <2>4. CASE phase' = "reading"
    <3>1. TypeOK'
      BY <1>acloop, <1>types, <1>names, <1>flags, <1>known, <1>kept, <2>0, <2>2, <2>4
      DEF ACChargeLoop, Goes, Stays, Stops, Fails, Raises, TypeOK, LoopTypeOK, Types,
         AfterAuthorization, Chosen
    <3>2. ClearedKept'
      BY <1>acloop, <1>types, <1>flags, <2>0, <2>1, <2>2, <2>4
      DEF ACChargeLoop, Goes, Stays, Stops, Fails, Raises, Follows, Session, IInv, ClearedKept,
         AfterAuthorization, Chosen, Cleared, Relaxed
    <3>3. ServiceKept'
      BY <1>acloop, <1>types, <1>kept, <2>0, <2>1, <2>2, <2>4
      DEF ACChargeLoop, Goes, Stays, Stops, Fails, Raises, Follows, Session, IInv, ServiceKept,
         Chosen
    <3>4. ReachedAsAgreed'
      BY <1>acloop, <1>types, <1>kept, <2>0, <2>1, <2>2, <2>4
      DEF ACChargeLoop, Goes, Stays, Stops, Fails, Raises, Follows, Session, IInv, ReachedAsAgreed,
         Loops
    <3>. QED
      BY <3>1, <3>2, <3>3, <3>4 DEF IInv
  <2>. QED
    BY <1>acloop, <2>0, <2>3, <2>4 DEF ACChargeLoop, Goes, Stays, Stops, Fails, Raises
<1>dcloop. ASSUME NEW given, NEW fine \in BOOLEAN, DCChargeLoop(given, fine) PROVE IInv'
  <2>0. phase = "reading" /\ Accepts("DCChargeLoop") /\ last' = "DCChargeLoop" /\ "DCChargeLoop" \in States
        /\ last' \in Types
    BY <1>dcloop, <1>names, <1>known DEF DCChargeLoop, Receive, AfterAuthorization, Chosen
  <2>1. "DCChargeLoop" = state \/ ((state \in Relaxed \/ ~obj.expecting) /\ Follows(state, "DCChargeLoop"))
    BY <2>0, <1>accepted
  <2>t. [evse EXCEPT !.power = LoopCommand(sess.service)] \in Evse /\ [evse EXCEPT !.power = LoopCommand(sess.service)].hlc = evse.hlc
    BY <1>types DEF Evse, Uses, LoopCommand
  <2>2. sess' \in Session
    BY <1>dcloop, <1>types DEF DCChargeLoop, Session, Config
  <2>3. CASE phase' = "stopping"
    <3>1. sess'.matched = sess.matched /\ sess'.detailed = sess.detailed
      BY <1>dcloop, <1>types, <2>0, <2>3 DEF DCChargeLoop, Goes, Stays, Session
    <3>. QED
      BY <1>dcloop, <1>types, <1>kept, <2>0, <2>2, <2>3, <3>1, <2>t, EndKeeps
      DEF DCChargeLoop, Fails, Raises, Goes, Stays
  <2>4. CASE phase' = "reading"
    <3>1. TypeOK'
      BY <1>dcloop, <1>types, <1>names, <1>flags, <1>known, <1>kept, <2>0, <2>2, <2>4, <2>t
      DEF DCChargeLoop, Goes, Stays, Stops, Fails, Raises, TypeOK, LoopTypeOK, Types,
         AfterAuthorization, Chosen
    <3>2. ClearedKept'
      BY <1>dcloop, <1>types, <1>flags, <2>0, <2>1, <2>2, <2>4
      DEF DCChargeLoop, Goes, Stays, Stops, Fails, Raises, Follows, Session, IInv, ClearedKept,
         AfterAuthorization, Chosen, Cleared, Relaxed
    <3>3. ServiceKept'
      BY <1>dcloop, <1>types, <1>kept, <2>0, <2>1, <2>2, <2>4
      DEF DCChargeLoop, Goes, Stays, Stops, Fails, Raises, Follows, Session, IInv, ServiceKept,
         Chosen
    <3>4. ReachedAsAgreed'
      BY <1>dcloop, <1>types, <1>kept, <2>0, <2>1, <2>2, <2>4, <2>t
      DEF DCChargeLoop, Goes, Stays, Stops, Fails, Raises, Follows, Session, IInv, ReachedAsAgreed,
         Loops
    <3>. QED
      BY <3>1, <3>2, <3>3, <3>4 DEF IInv
  <2>. QED
    BY <1>dcloop, <2>0, <2>3, <2>4 DEF DCChargeLoop, Goes, Stays, Stops, Fails, Raises
<1>welding. ASSUME DCWeldingDetection PROVE IInv'
  <2>0. phase = "reading" /\ Accepts("DCWeldingDetection") /\ last' = "DCWeldingDetection" /\ "DCWeldingDetection" \in States
        /\ last' \in Types
    BY <1>welding, <1>names, <1>known DEF DCWeldingDetection, Receive, AfterAuthorization, Chosen
  <2>1. "DCWeldingDetection" = state \/ ((state \in Relaxed \/ ~obj.expecting) /\ Follows(state, "DCWeldingDetection"))
    BY <2>0, <1>accepted
  <2>2. sess' \in Session
    BY <1>welding, <1>types DEF DCWeldingDetection, Session, Config
  <2>3. CASE phase' = "stopping"
    <3>1. sess'.matched = sess.matched /\ sess'.detailed = sess.detailed
      BY <1>welding, <1>types, <2>0, <2>3 DEF DCWeldingDetection, Goes, Stays, Session
    <3>. QED
      BY <1>welding, <1>types, <1>kept, <2>0, <2>2, <2>3, <3>1, EndKeeps
      DEF DCWeldingDetection, Fails, Raises, Goes, Stays
  <2>4. CASE phase' = "reading"
    <3>1. TypeOK'
      BY <1>welding, <1>types, <1>names, <1>flags, <1>known, <1>kept, <2>0, <2>2, <2>4
      DEF DCWeldingDetection, Goes, Stays, Stops, Fails, Raises, TypeOK, LoopTypeOK, Types,
         AfterAuthorization, Chosen
    <3>2. ClearedKept'
      BY <1>welding, <1>types, <1>flags, <2>0, <2>1, <2>2, <2>4
      DEF DCWeldingDetection, Goes, Stays, Stops, Fails, Raises, Follows, Session, IInv, ClearedKept,
         AfterAuthorization, Chosen, Cleared, Relaxed
    <3>3. ServiceKept'
      BY <1>welding, <1>types, <1>kept, <2>0, <2>1, <2>2, <2>4
      DEF DCWeldingDetection, Goes, Stays, Stops, Fails, Raises, Follows, Session, IInv, ServiceKept,
         Chosen
    <3>4. ReachedAsAgreed'
      BY <1>welding, <1>types, <1>kept, <2>0, <2>1, <2>2, <2>4
      DEF DCWeldingDetection, Goes, Stays, Stops, Fails, Raises, Follows, Session, IInv, ReachedAsAgreed,
         Loops
    <3>. QED
      BY <3>1, <3>2, <3>3, <3>4 DEF IInv
  <2>. QED
    BY <1>welding, <2>0, <2>3, <2>4 DEF DCWeldingDetection, Goes, Stays, Stops, Fails, Raises
<1>end. ASSUME NEW kind \in {"terminate", "pause", "renegotiate"}, NEW supported \in BOOLEAN,
              SessionStop(kind, supported) PROVE IInv'
  <2>0. phase = "reading" /\ Accepts("SessionStop") /\ last' = "SessionStop" /\ "SessionStop" \in States
        /\ last' \in Types
    BY <1>end, <1>names, <1>known DEF SessionStop, Receive, AfterAuthorization, Chosen
  <2>1. "SessionStop" = state \/ ((state \in Relaxed \/ ~obj.expecting) /\ Follows(state, "SessionStop"))
    BY <2>0, <1>accepted
  <2>2. sess' \in Session
    BY <1>end, <1>types DEF SessionStop, Session, Config
  <2>3. CASE phase' = "stopping"
    <3>1. sess'.matched = sess.matched /\ sess'.detailed = sess.detailed
      BY <1>end, <1>types, <2>0, <2>3 DEF SessionStop, Goes, Stays, Session
    <3>. QED
      BY <1>end, <1>types, <1>kept, <2>0, <2>2, <2>3, <3>1, EndKeeps
      DEF SessionStop, Fails, Raises, Goes, Stays
  <2>4. CASE phase' = "reading"
    <3>1. TypeOK'
      BY <1>end, <1>types, <1>names, <1>flags, <1>known, <1>kept, <2>0, <2>2, <2>4
      DEF SessionStop, Goes, Stays, Stops, Fails, Raises, TypeOK, LoopTypeOK, Types,
         AfterAuthorization, Chosen
    <3>2. ClearedKept'
      BY <1>end, <1>types, <1>flags, <2>0, <2>1, <2>2, <2>4
      DEF SessionStop, Goes, Stays, Stops, Fails, Raises, Follows, Session, IInv, ClearedKept,
         AfterAuthorization, Chosen, Cleared, Relaxed
    <3>3. ServiceKept'
      BY <1>end, <1>types, <1>kept, <2>0, <2>1, <2>2, <2>4
      DEF SessionStop, Goes, Stays, Stops, Fails, Raises, Follows, Session, IInv, ServiceKept,
         Chosen
    <3>4. ReachedAsAgreed'
      BY <1>end, <1>types, <1>kept, <2>0, <2>1, <2>2, <2>4
      DEF SessionStop, Goes, Stays, Stops, Fails, Raises, Follows, Session, IInv, ReachedAsAgreed,
         Loops
    <3>. QED
      BY <3>1, <3>2, <3>3, <3>4 DEF IInv
  <2>. QED
    BY <1>end, <2>0, <2>3, <2>4 DEF SessionStop, Goes, Stays, Stops, Fails, Raises
<1>cable. ASSUME NEW closed, NEW isolation, DCCableCheck(closed, isolation) PROVE IInv'
  <2>. DEFINE o == [Handler("DCCableCheck") EXCEPT !.checked = TRUE]
              contactors == o.contactors \/ closed = "yes"
              tried == [o EXCEPT !.contactors = contactors]
              testing == IF Handler("DCCableCheck").checked
                           THEN evse ELSE [evse EXCEPT !.power = "insulation"]
              tested == [sess EXCEPT !.isolated = Isolated(isolation)]
  <2>0. phase = "reading" /\ Accepts("DCCableCheck") /\ last' = "DCCableCheck"
        /\ {"DCCableCheck", "DCPreCharge"} \subseteq States /\ last' \in Types
    BY <1>cable, <1>names, <1>known DEF DCCableCheck, Receive, AfterAuthorization, Chosen
  <2>1. Cleared /\ sess.service \in sess.detailed
    <3>1. state \in {"DCCableCheck", "ScheduleExchange"}
      BY <2>0, <1>accepted DEF Follows
    <3>. QED
      BY <2>0, <3>1 DEF IInv, ClearedKept, ServiceKept, AfterAuthorization, Chosen
  <2>2. tried \in Flags
    <3>1. o \in Flags
      BY <1>flags DEF Flags
    <3>2. contactors \in BOOLEAN
      OBVIOUS
    <3>. HIDE DEF o, contactors
    <3>. QED
      BY <3>1, <3>2 DEF Flags
  <2>3. testing \in Evse
    BY <1>types DEF Evse, Uses
  <2>4. /\ tested \in Session /\ tested.isolated = Isolated(isolation)
        /\ tested.decided = sess.decided /\ tested.renegotiated = sess.renegotiated
        /\ tested.matched = sess.matched /\ tested.detailed = sess.detailed
        /\ tested.service = sess.service
    <3>1. Isolated(isolation) \in BOOLEAN
      BY DEF Isolated
    <3>. QED
      BY <1>types, <3>1 DEF Session
  <2>. HIDE DEF testing, tried, tested
  <2>5. CASE Fails(testing) /\ UNCHANGED sess
    BY <2>0, <2>3, <2>5, <1>types, <1>kept, EndKeeps DEF Fails
  <2>6. CASE Isolated(isolation) /\ Goes("DCPreCharge") /\ sess' = tested /\ evse' = testing
    <3>1. TypeOK'
      BY <2>0, <2>3, <2>4, <2>6, <1>types, <1>flags, <1>kept DEF Goes, TypeOK, LoopTypeOK, Types
    <3>2. ClearedKept'
      BY <2>0, <2>1, <2>4, <2>6 DEF Goes, ClearedKept, Cleared
    <3>3. ServiceKept' /\ ReachedAsAgreed'
      BY <2>0, <2>1, <2>4, <2>6, <1>kept DEF Goes, IInv, ServiceKept, ReachedAsAgreed, Loops
    <3>. QED
      BY <3>1, <3>2, <3>3 DEF IInv
  <2>7. CASE Stays("DCCableCheck", tried, "ok") /\ UNCHANGED sess /\ evse' = testing
    <3>1. TypeOK'
      BY <2>0, <2>2, <2>3, <2>7, <1>types, <1>kept DEF Stays, TypeOK, LoopTypeOK, Types
    <3>2. ClearedKept'
      BY <2>0, <2>1, <2>7 DEF Stays, ClearedKept, Cleared
    <3>3. ServiceKept' /\ ReachedAsAgreed'
      BY <2>0, <2>1, <2>7, <1>kept DEF Stays, IInv, ServiceKept, ReachedAsAgreed, Loops
    <3>. QED
      BY <3>1, <3>2, <3>3 DEF IInv
  <2>. QED
    BY <1>cable, <2>5, <2>6, <2>7 DEF DCCableCheck, Passed, testing, tried, tested
<1>go. ASSUME NEW progress, NEW id \in ScheduleIds \cup {None}, NEW closed \in BOOLEAN,
              PowerDeliveryGo(progress, id, closed)
  PROVE  IInv'
  <2>. DEFINE announced == [evse EXCEPT !.hlc = TRUE]
              loop == LoopOf(sess.service)
              agreed == [sess EXCEPT !.schedule = IF sess.mode = "scheduled" THEN id ELSE None]
              live == IF sess.service = "ac"
                        THEN [announced EXCEPT !.power = "charging"] ELSE announced
  <2>0. phase = "reading" /\ Accepts("PowerDelivery") /\ last' = "PowerDelivery"
        /\ loop \in States /\ last' \in Types
    BY <1>go, <1>names, <1>known DEF PowerDeliveryGo, Receive, LoopOf, AfterAuthorization, Chosen
  <2>1. Cleared /\ sess.service \in sess.detailed
    <3>1. state = "PowerDelivery" \/ Follows(state, "PowerDelivery")
      BY <2>0, <1>accepted
    <3>. QED
      BY <2>0, <3>1 DEF IInv, ClearedKept, ServiceKept, AfterAuthorization, Chosen, Follows
  <2>2. /\ announced \in Evse /\ [announced EXCEPT !.hlc = FALSE] \in Evse
        /\ live \in Evse /\ live.hlc
    BY <1>types DEF Evse, Uses
  <2>3. /\ agreed \in Session
        /\ agreed.decided = sess.decided /\ agreed.renegotiated = sess.renegotiated
        /\ agreed.matched = sess.matched /\ agreed.detailed = sess.detailed
        /\ agreed.service = sess.service /\ agreed.mode = sess.mode
        /\ agreed.schedules = sess.schedules /\ agreed.isolated = sess.isolated
        /\ agreed.schedule = IF sess.mode = "scheduled" THEN id ELSE None
    BY <1>types DEF Session
  <2>. HIDE DEF announced, live, agreed, loop
  <2>4. CASE (Fails(evse) \/ Raises(evse) \/ Fails([announced EXCEPT !.hlc = FALSE]))
             /\ UNCHANGED sess
    BY <2>0, <2>2, <2>4, <1>types, <1>kept, EndKeeps DEF Fails, Raises
  <2>5. CASE ScheduleKnown(id) /\ Goes(loop) /\ evse' = live /\ sess' = agreed
    <3>1. TypeOK'
      BY <2>0, <2>2, <2>3, <2>5, <1>types, <1>flags, <1>kept DEF Goes, TypeOK, LoopTypeOK, Types
    <3>2. ClearedKept'
      BY <2>0, <2>1, <2>3, <2>5, <1>flags DEF Goes, ClearedKept, Cleared
    <3>3. ServiceKept'
      BY <2>0, <2>1, <2>3, <2>5, <1>kept DEF Goes, IInv, ServiceKept
    <3>4. ReachedAsAgreed'
      BY <2>0, <2>1, <2>2, <2>3, <2>5, <1>kept
      DEF Goes, IInv, ServiceKept, ReachedAsAgreed, ScheduleKnown, LoopOf, loop
    <3>. QED
      BY <3>1, <3>2, <3>3, <3>4 DEF IInv
  <2>. QED
    BY <1>go, <2>4, <2>5 DEF PowerDeliveryGo, announced, live, agreed, loop
<1>stutter. ASSUME UNCHANGED vars PROVE IInv'
  BY <1>stutter DEF vars, loopVars, IInv, TypeOK, LoopTypeOK, ClearedKept, Cleared, ServiceKept,
     ReachedAsAgreed
<1>. QED
  BY <1>connect, <1>disconnect, <1>lost, <1>error, <1>bad, <1>refuse, <1>sap, <1>setup, <1>authsetup,
     <1>install, <1>authorization, <1>discovery, <1>detail, <1>selection, <1>acparams,
     <1>dcparams, <1>schedule, <1>cable, <1>precharge, <1>ongoing, <1>stop, <1>go, <1>acloop,
     <1>dcloop, <1>welding, <1>end, <1>stutter
  DEF Next, Dead, Identify, Select, Charge

\* The inductive invariant holds in every behaviour.
THEOREM V20Invariant == Spec => []IInv
BY InitIInv, NextIInv, PTL DEF Spec

\* The charging loop of every session is that of an offered and detailed service,
\* announced and on schedule, and a DC cable is pre-charged only after its test.
THEOREM V20ReachedAsAgreed == Spec => []ReachedAsAgreed
<1>1. IInv => ReachedAsAgreed
  BY DEF IInv
<1>. QED
  BY V20Invariant, <1>1, PTL

-----------------------------------------------------------------------------
(***************************************************************************)
(* The refinement.                                                         *)
(***************************************************************************)
SameSession ==
    /\ phase = "reading" /\ phase' = "reading"
    /\ Cleared' = Cleared

LEMMA StepIsSilent ==
    ASSUME SameSession, evse'.power = evse.power
    PROVE  UNCHANGED Promise!vars
BY DEF SameSession, Cleared, Promise!vars

LEMMA StepSwitchesOff ==
    ASSUME SameSession, evse'.power = "off"
    PROVE  Promise!SwitchOff
BY DEF SameSession, Cleared, Promise!SwitchOff

LEMMA StepSwitchesOn ==
    ASSUME SameSession, phase = "reading", Cleared, NEW u \in Uses, evse'.power = u
    PROVE  Promise!SwitchOn(u) /\ u \in Promise!Purposes
BY DEF SameSession, Cleared, Promise!SwitchOn, Promise!Purposes, Uses

LEMMA StepAuthorizes ==
    ASSUME phase = "reading", phase' = "reading", ~Cleared, Cleared', evse'.power = evse.power
    PROVE  Promise!Authorize
BY DEF Cleared, Promise!Authorize

\* Every end of a session, by whatever step, closes the abstract one.
LEMMA EndCloses ==
    ASSUME phase = "reading", NEW a, NEW r, NEW e \in Evse, Stops(a, r, e)
    PROVE  Promise!Close
<1>1. phase' = "stopping" /\ evse'.power = "off"
  BY DEF Stops, StopCharger, Evse
<1>. QED
  BY <1>1 DEF Promise!Close

LEMMA PromiseStep == IInv /\ IInv' /\ [Next]_vars => [Promise!Next]_(Promise!vars)
<1>. SUFFICES ASSUME IInv, IInv', [Next]_vars PROVE Promise!Next \/ UNCHANGED Promise!vars
  OBVIOUS
<1>. DEFINE Kept == Promise!Next \/ UNCHANGED Promise!vars
<1>types. /\ state \in States /\ obj \in Flags /\ evse \in Evse /\ sess \in Session
          /\ sess' \in Session
  BY DEF IInv, TypeOK, LoopTypeOK
<1>accepted. \A type : Accepts(type) =>
                 type = state \/ ((state \in Relaxed \/ ~obj.expecting) /\ Follows(state, type))
  BY <1>types, AcceptedTypes
<1>close. ASSUME phase = "reading", NEW a, NEW r, NEW e \in Evse, Stops(a, r, e) PROVE Kept
  BY <1>close, EndCloses DEF Promise!Next
<1>silent. ASSUME phase = "reading", phase' = "reading", evse'.power = evse.power,
                  sess'.decided = sess.decided, sess'.renegotiated = sess.renegotiated
  PROVE  Kept
  BY <1>silent, StepIsSilent DEF SameSession, Cleared
<1>cleared. ASSUME phase = "reading", phase' = "reading", UNCHANGED evse, Cleared => Cleared'
  PROVE  Kept
  <2>1. CASE Cleared' = Cleared
    BY <1>cleared, <2>1, StepIsSilent DEF SameSession
  <2>2. CASE ~Cleared /\ Cleared'
    BY <1>cleared, <2>2, StepAuthorizes DEF Promise!Next
  <2>. QED
    BY <1>cleared, <1>types, <2>1, <2>2 DEF Cleared, Session
<1>connect. ASSUME Connect PROVE Kept
  <2>1. Promise!Open
    BY <1>connect DEF Connect, StartLoop, NewSession, Promise!Open
  <2>. QED
    BY <2>1 DEF Promise!Next
<1>disconnect. ASSUME Disconnect PROVE Kept
  BY <1>disconnect DEF Disconnect, EndLoop, Promise!vars
<1>lost. ASSUME ConnectionLost PROVE Kept
  BY <1>lost, <1>types, <1>close DEF ConnectionLost, Lost
<1>error. ASSUME ConnectionError PROVE Kept
  <2>1. Promise!Abandon
    BY <1>error DEF ConnectionError, ReadError, Promise!Abandon
  <2>. QED
    BY <2>1 DEF Promise!Next
<1>bad. ASSUME BadMessage PROVE Kept
  BY <1>bad, <1>types, <1>close DEF BadMessage, Undecodable, Raises
<1>refuse. ASSUME NEW type \in Requests, Refuse(type) PROVE Kept
  BY <1>refuse, <1>types, <1>close DEF Refuse, Fails
<1>open. ASSUME SupportedAppProtocol \/ SessionSetup \/ AuthorizationSetup
                \/ CertificateInstallation
  PROVE  Kept
  BY <1>open, <1>types, <1>close, <1>silent
  DEF SupportedAppProtocol, SessionSetup, AuthorizationSetup, CertificateInstallation, Receive,
     Goes, Stays, Fails, Raises
<1>authorization. ASSUME NEW pncParams \in BOOLEAN, NEW signature, NEW status, NEW code,
                         Authorization(pncParams, signature, status, code)
  PROVE  Kept
  <2>1. /\ phase = "reading"
        /\ Raises(evse) \/ Fails(evse) \/ (phase' = "reading" /\ UNCHANGED evse)
    BY <1>authorization DEF Authorization, Receive, Stays
  <2>2. Cleared => Cleared'
    BY <1>authorization, <1>types DEF Authorization, Cleared, Session
  <2>. QED
    BY <2>1, <2>2, <1>types, <1>close, <1>cleared DEF Raises, Fails
<1>discovery. ASSUME ServiceDiscovery PROVE Kept
  <2>1. UNCHANGED <<sess.decided, sess.renegotiated>>
    BY <1>discovery, <1>types DEF ServiceDiscovery, Session
  <2>. QED
    BY <1>discovery, <1>silent, <2>1 DEF ServiceDiscovery, Receive, Stays
<1>detail. ASSUME NEW s, NEW known \in BOOLEAN, ServiceDetail(s, known) PROVE Kept
  <2>1. UNCHANGED <<sess.decided, sess.renegotiated>>
    BY <1>detail, <1>types DEF ServiceDetail, Session
  <2>. QED
    BY <1>detail, <1>types, <1>close, <1>silent, <2>1 DEF ServiceDetail, Receive, Stays, Raises
<1>selection. ASSUME NEW s, NEW mode, ServiceSelection(s, mode) PROVE Kept
  <2>1. UNCHANGED <<sess.decided, sess.renegotiated>>
    BY <1>selection, <1>types DEF ServiceSelection, Session
  <2>. QED
    BY <1>selection, <1>types, <1>close, <1>silent, <2>1 DEF ServiceSelection, Receive, Goes, Fails
<1>parameters. ASSUME NEW given,
                      ACChargeParameterDiscovery(given) \/ DCChargeParameterDiscovery(given)
  PROVE  Kept
  BY <1>parameters, <1>types, <1>close, <1>silent
  DEF ACChargeParameterDiscovery, DCChargeParameterDiscovery, ChargeParameterDiscovery, Receive,
     Goes, Raises
<1>schedule. ASSUME NEW given, NEW answered \in BOOLEAN, NEW ready \in BOOLEAN, NEW schedules,
                    ScheduleExchange(given, answered, ready, schedules)
  PROVE  Kept
  <2>1. UNCHANGED <<sess.decided, sess.renegotiated>>
    BY <1>schedule, <1>types DEF ScheduleExchange, Session
  <2>2. \/ Raises(evse) \/ Fails(evse) \/ (phase' = "reading" /\ UNCHANGED evse)
    BY <1>schedule DEF ScheduleExchange, Receive, Goes, Stays
  <2>. QED
    BY <1>schedule, <1>types, <1>close, <1>silent, <2>1, <2>2
    DEF ScheduleExchange, Receive, Raises, Fails
<1>cable. ASSUME NEW closed, NEW isolation, DCCableCheck(closed, isolation) PROVE Kept
  <2>. DEFINE testing == IF Handler("DCCableCheck").checked
                           THEN evse ELSE [evse EXCEPT !.power = "insulation"]
  <2>1. phase = "reading" /\ Cleared
    <3>1. phase = "reading" /\ state \in {"DCCableCheck", "ScheduleExchange"}
      BY <1>cable, <1>accepted DEF DCCableCheck, Receive, Follows
    <3>. QED
      BY <3>1 DEF IInv, ClearedKept, AfterAuthorization, Chosen
  <2>2. testing \in Evse /\ testing.power \in {evse.power, "insulation"} /\ "insulation" \in Uses
    BY <1>types DEF Evse, Uses
  <2>. HIDE DEF testing
  <2>3. UNCHANGED <<sess.decided, sess.renegotiated>>
    BY <1>cable, <1>types DEF DCCableCheck, Session
  <2>4. CASE Fails(testing)
    BY <2>1, <2>2, <2>4, <1>close DEF Fails
  <2>5. CASE phase' = "reading" /\ evse' = testing
    <3>1. SameSession
      BY <2>1, <2>3, <2>5 DEF SameSession, Cleared
    <3>2. CASE testing.power = evse.power
      BY <2>5, <3>1, <3>2, StepIsSilent
    <3>3. CASE testing.power = "insulation"
      BY <2>1, <2>2, <2>5, <3>1, <3>3, StepSwitchesOn DEF Promise!Next
    <3>. QED
      BY <2>2, <3>2, <3>3
  <2>. QED
    BY <1>cable, <2>1, <2>4, <2>5 DEF DCCableCheck, Goes, Stays, testing
<1>precharge. ASSUME NEW finished \in BOOLEAN, NEW fine \in BOOLEAN, DCPreCharge(finished, fine)
  PROVE  Kept
  <2>1. phase = "reading" /\ Cleared
    <3>1. phase = "reading" /\ state = "DCPreCharge"
      BY <1>precharge, <1>accepted DEF DCPreCharge, Receive, Follows
    <3>. QED
      BY <3>1 DEF IInv, ClearedKept, AfterAuthorization, Chosen
  <2>2. CASE phase' = "reading" /\ evse' = [evse EXCEPT !.power = "precharge"]
    <3>1. evse'.power = "precharge" /\ "precharge" \in Uses
      BY <2>2, <1>types DEF Evse, Uses
    <3>2. SameSession
      BY <1>precharge, <2>1, <2>2 DEF DCPreCharge, SameSession, Cleared
    <3>. QED
      BY <2>1, <3>1, <3>2, StepSwitchesOn DEF Promise!Next
  <2>. QED
    BY <1>precharge, <1>types, <1>close, <1>silent, <2>1, <2>2 DEF DCPreCharge, Goes, Stays, Fails
<1>ongoing. ASSUME PowerDeliveryOngoing PROVE Kept
  BY <1>ongoing, <1>silent DEF PowerDeliveryOngoing, Receive, Stays
<1>stop. ASSUME NEW opened \in BOOLEAN, PowerDeliveryStop(opened) PROVE Kept
  <2>. DEFINE ended == StopCharger([evse EXCEPT !.hlc = FALSE])
  <2>1. phase = "reading" /\ ended \in Evse /\ ended.power = "off"
    BY <1>stop, <1>types DEF PowerDeliveryStop, Receive, StopCharger, Evse, Uses
  <2>. HIDE DEF ended
  <2>2. CASE Fails(ended)
    BY <2>1, <2>2, <1>close DEF Fails
  <2>3. CASE phase' = "reading" /\ evse' = ended /\ UNCHANGED sess
    BY <2>1, <2>3, StepSwitchesOff DEF SameSession, Cleared, Promise!Next
  <2>. QED
    BY <1>stop, <2>1, <2>2, <2>3 DEF PowerDeliveryStop, Stays, ended
<1>go. ASSUME NEW progress, NEW id, NEW closed \in BOOLEAN, PowerDeliveryGo(progress, id, closed)
  PROVE  Kept
  <2>. DEFINE announced == [evse EXCEPT !.hlc = TRUE]
              live == IF sess.service = "ac"
                        THEN [announced EXCEPT !.power = "charging"] ELSE announced
  <2>1. phase = "reading" /\ Cleared
    <3>1. phase = "reading" /\ (state = "PowerDelivery" \/ Follows(state, "PowerDelivery"))
      BY <1>go, <1>accepted DEF PowerDeliveryGo, Receive
    <3>. QED
      BY <3>1 DEF IInv, ClearedKept, AfterAuthorization, Chosen, Follows
  <2>2. /\ [announced EXCEPT !.hlc = FALSE] \in Evse
        /\ live.power \in {evse.power, "charging"} /\ "charging" \in Uses
    BY <1>types DEF Evse, Uses
  <2>. HIDE DEF announced, live
  <2>3. UNCHANGED <<sess.decided, sess.renegotiated>>
    BY <1>go, <1>types DEF PowerDeliveryGo, Session
  <2>4. CASE Fails(evse) \/ Raises(evse) \/ Fails([announced EXCEPT !.hlc = FALSE])
    BY <2>1, <2>2, <2>4, <1>types, <1>close DEF Fails, Raises
  <2>5. CASE phase' = "reading" /\ evse' = live
    <3>1. SameSession
      BY <2>1, <2>3, <2>5 DEF SameSession, Cleared
    <3>2. CASE live.power = evse.power
      BY <2>5, <3>1, <3>2, StepIsSilent
    <3>3. CASE live.power = "charging"
      BY <2>1, <2>2, <2>5, <3>1, <3>3, StepSwitchesOn DEF Promise!Next
    <3>. QED
      BY <2>2, <3>2, <3>3
  <2>. QED
    BY <1>go, <2>1, <2>4, <2>5 DEF PowerDeliveryGo, Goes, announced, live
<1>acloop. ASSUME NEW given, ACChargeLoop(given) PROVE Kept
  BY <1>acloop, <1>types, <1>close, <1>silent DEF ACChargeLoop, Receive, Stays, Raises
<1>dcloop. ASSUME NEW given, NEW fine \in BOOLEAN, DCChargeLoop(given, fine) PROVE Kept
  <2>. DEFINE u == LoopCommand(sess.service)
  <2>1. phase = "reading" /\ Cleared
    <3>1. phase = "reading" /\ state = "DCChargeLoop"
      BY <1>dcloop, <1>accepted DEF DCChargeLoop, Receive, Follows
    <3>. QED
      BY <3>1 DEF IInv, ClearedKept, AfterAuthorization, Chosen
  <2>2. CASE phase' = "reading" /\ evse' = [evse EXCEPT !.power = u]
    <3>1. evse'.power = u /\ u \in Uses
      BY <2>2, <1>types DEF Evse, Uses, LoopCommand
    <3>2. SameSession
      BY <1>dcloop, <2>1, <2>2 DEF DCChargeLoop, SameSession, Cleared
    <3>. HIDE DEF u
    <3>. QED
      BY <2>1, <3>1, <3>2, StepSwitchesOn DEF Promise!Next
  <2>. QED
    BY <1>dcloop, <1>types, <1>close, <2>1, <2>2 DEF DCChargeLoop, Stays, Fails, Raises
<1>welding. ASSUME DCWeldingDetection PROVE Kept
  BY <1>welding, <1>silent DEF DCWeldingDetection, Receive, Stays
<1>end. ASSUME NEW kind, NEW supported \in BOOLEAN, SessionStop(kind, supported) PROVE Kept
  <2>1. \/ Stops("terminate", "ok", evse) \/ Stops("pause", "ok", evse)
        \/ phase' = "reading" /\ UNCHANGED evse
    BY <1>end DEF SessionStop, Receive, Goes
  <2>2. Cleared => Cleared'
    BY <1>end, <1>types DEF SessionStop, Cleared, Session
  <2>3. phase = "reading"
    BY <1>end DEF SessionStop, Receive
  <2>. QED
    BY <2>1, <2>2, <2>3, <1>types, <1>close, <1>cleared
<1>stutter. ASSUME UNCHANGED vars PROVE Kept
  BY <1>stutter DEF vars, loopVars, Promise!vars
<1>. QED
  BY <1>connect, <1>disconnect, <1>lost, <1>error, <1>bad, <1>refuse, <1>open, <1>authorization,
     <1>discovery, <1>detail, <1>selection, <1>parameters, <1>schedule, <1>cable, <1>precharge,
     <1>ongoing, <1>stop, <1>go, <1>acloop, <1>dcloop, <1>welding, <1>end, <1>stutter
  DEF Next, Dead, Identify, Select, Charge

\* The state machine implements the abstract station as far as SeccV20 says: the
\* output goes on only after a decision of the backend or a renegotiation, and is
\* off with the end of the session, in every order of requests.
THEOREM V20KeepsPromise == Spec => KeepsPromise
<1>1. Init => Promise!Init
  BY DEF Init, InitLoop, Promise!Init
<1>. QED
  BY <1>1, V20Invariant, PromiseStep, PTL DEF Spec, KeepsPromise, Promise!Spec
=============================================================================
