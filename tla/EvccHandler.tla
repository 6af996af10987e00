----------------------------- MODULE EvccHandler -----------------------------
(***************************************************************************)
(* The vehicle's communication session handler                             *)
(* (iso15118/evcc/comm_session_handler.py) with its UDP client: discovery  *)
(* of a station with retries and cycles, the connection, the protocol      *)
(* negotiation, and the restart after a session has failed.                *)
(*                                                                         *)
(* Every SDP request waits for one datagram or a timeout, so the handler   *)
(* has at most one notification at a time; but a datagram that comes late  *)
(* stays in the UDP client's queue and answers the next request.           *)
(***************************************************************************)
EXTENDS EvccSession, Sequences

CONSTANTS
    MaxRequests,  \* SDP_MAX_REQUEST_COUNTER
    MaxCycles,    \* config.sdp_retry_cycles
    MaxAttempts,  \* config.auto_restart_max_attempts; 0, no limit, is left out
    Backlog       \* bound: how many datagrams are in the UDP client's queue

ASSUME HandlerConstants ==
    /\ MaxRequests \in Nat \ {0}
    /\ MaxCycles \in Nat \ {0}
    /\ MaxAttempts \in Nat \ {0}
    /\ Backlog \in Nat

VARIABLES
    hPhase,     \* "starting"; "discovering": in send_and_receive; "session";
                \* "idle": waits for a notification though none is under way;
                \* "polling": in the loop of send_sdp, the UDP client not started;
                \* "over": the loop is left; "crashed": by an exception
    retries,    \* sdp_retries_number
    cycles,     \* _sdp_retry_cycles
    attempts,   \* _auto_restart_attempts
    asked,      \* history: the SDP requests of this cycle
    started,    \* udp_client.started
    backlog,    \* the UDP client's queue
    supported,  \* config.supported_protocols
    protocol    \* that of the session

counters == <<retries, cycles, attempts, asked>>
hVars == <<hPhase, counters, started, backlog, supported, protocol>>

Protocols == {"din", "v2", "v20"}

ASSUME NoneIsNoProtocol == None \notin Protocols

\* Bytes that are no V2GTP message, a V2GTP message that is no valid SDP response,
\* one with the address of a TCP or a TLS server, one for wireless communication.
Datagrams == {"garbage", "invalid", "plain", "tls", "wireless"}

-----------------------------------------------------------------------------
(***************************************************************************)
(* restart_sdp, send_sdp and handle_sdp_failed.  A request is sent, and    *)
(* counted, only when the UDP client is started.  Nothing starts it again: *)
(* without it send_sdp polls for ever, and the handler waits for send_sdp. *)
(***************************************************************************)

\* Slip: the first request of a cycle is not counted.
CycleUncounted(left) ==
    /\ cycles' = left
    /\ retries' = MaxRequests
    /\ \/ started /\ hPhase' = "discovering" /\ asked' = 1
       \/ ~started /\ hPhase' = "polling" /\ asked' = 0

\* A new cycle with the given number of cycles left, and its first request.
Cycle(left) ==
    /\ cycles' = left
    /\ \/ /\ started
          /\ hPhase' = "discovering"
          /\ retries' = MaxRequests - 1
          /\ asked' = 1
       \/ /\ ~started
          /\ hPhase' = "polling"
          /\ retries' = MaxRequests
          /\ asked' = 0

Restarts == vehicle.restarts /\ attempts < MaxAttempts

\* Without an automatic restart the handler waits for what will not come.
SdpFailed(r) ==
    \/ /\ Restarts
       /\ attempts' = attempts + 1
       /\ Cycle(MaxCycles - 1)
    \/ /\ ~Restarts
       /\ hPhase' = "idle"
       /\ retries' = r
       /\ UNCHANGED <<cycles, attempts, asked>>

\* restart_sdp(True)
Restart ==
    \/ cycles > 0 /\ Cycle(cycles - 1) /\ UNCHANGED attempts
    \/ cycles = 0 /\ SdpFailed(retries)

\* restart_sdp(False)
Retry ==
    \/ /\ retries > 0 /\ started
       /\ hPhase' = "discovering"
       /\ retries' = retries - 1
       /\ asked' = asked + 1
       /\ UNCHANGED <<cycles, attempts>>
    \/ /\ retries > 0 /\ ~started
       /\ hPhase' = "polling"
       /\ UNCHANGED counters
    \/ retries = 0 /\ SdpFailed(MaxRequests)

-----------------------------------------------------------------------------
Start ==
    /\ hPhase = "starting"
    /\ Restart
    /\ UNCHANGED <<started, backlog, supported, protocol, evVars>>

\* error_received, for an error that the socket reports late (no route, a port
\* that nobody listens on), or connection_lost.
UdpError ==
    /\ hPhase \in {"starting", "discovering", "session", "idle"}
    /\ started
    /\ started' = FALSE
    /\ UNCHANGED <<hPhase, counters, backlog, supported, protocol, evVars>>

\* datagram_received
Datagram(kind) ==
    /\ hPhase \in {"discovering", "session", "idle", "polling"}
    /\ Len(backlog) < Backlog
    /\ backlog' = Append(backlog, kind)
    /\ UNCHANGED <<hPhase, counters, started, supported, protocol, evVars>>

\* No datagram within the time of an SDP request.
SdpTimeout ==
    /\ hPhase = "discovering" /\ backlog = <<>>
    /\ Retry
    /\ UNCHANGED <<started, backlog, supported, protocol, evVars>>

Arrives(kinds) ==
    /\ hPhase = "discovering" /\ backlog # <<>>
    /\ Head(backlog) \in kinds
    /\ backlog' = Tail(backlog)

\* A datagram that is no valid SDP response starts a new cycle.
BadResponse ==
    /\ Arrives({"invalid"})
    /\ Restart
    /\ UNCHANGED <<started, supported, protocol, evVars>>

\* Bytes that cannot be decoded are dropped, and nothing is sent in their place.
Undecodable ==
    /\ Arrives({"garbage"})
    /\ hPhase' = "idle"
    /\ UNCHANGED <<counters, started, supported, protocol, evVars>>

\* process_incoming_udp_packet raises NotImplementedError.
Wireless ==
    /\ Arrives({"wireless"})
    /\ hPhase' = "crashed"
    /\ UNCHANGED <<counters, started, supported, protocol, evVars>>

\* Slip: what the station signals is taken.
TrustsSignal(isTls) == FALSE

Mismatch(isTls) == (~isTls /\ vehicle.enforceTls) \/ (isTls /\ ~vehicle.useTls)

\* create_sap: over TLS, DIN SPEC 70121 is removed from the configuration.
Offered(isTls) == IF isTls THEN supported \ {"din"} ELSE supported

\* Neither a mismatch of security, a connection that fails nor an empty list of
\* protocols makes the handler try again; a connection that breaks while the
\* SupportedAppProtocolReq is sent raises out of the loop.
Response(isTls, connects) ==
    /\ Arrives(IF isTls THEN {"tls"} ELSE {"plain"})
    /\ \/ /\ Mismatch(isTls) \/ connects = "no"
          /\ hPhase' = "idle"
          /\ UNCHANGED <<supported, protocol, evVars>>
       \/ /\ ~Mismatch(isTls) /\ connects # "no"
          /\ supported' = Offered(isTls)
          /\ \/ /\ Offered(isTls) = {}
                /\ hPhase' = "idle"
                /\ UNCHANGED <<protocol, evVars>>
             \/ /\ Offered(isTls) # {} /\ connects = "breaks"
                /\ hPhase' = "crashed"
                /\ UNCHANGED <<protocol, evVars>>
             \/ /\ Offered(isTls) # {} /\ connects = "yes"
                /\ hPhase' = "session"
                /\ protocol' = None
                /\ Begins(isTls)
    /\ UNCHANGED <<counters, started>>

\* The station names a protocol of the list, or one that is not in it.
SupportedAppProtocol(p) ==
    /\ Awaits("SupportedAppProtocol")
    /\ \/ /\ p \in supported
          /\ Asks("SessionSetup", "SessionSetup")
          /\ protocol' = p
       \/ /\ p \notin supported
          /\ Quits
          /\ UNCHANGED protocol
    /\ UNCHANGED <<vehicle, clock, tls, pilot, full, ev, hPhase, counters, started, backlog,
                   supported>>

\* A StopNotification: after a success the loop is left.
SessionEnded ==
    /\ hPhase = "session" /\ evPhase = "ended"
    /\ evPhase' = "none"
    /\ \/ /\ outcome = "success"
          /\ hPhase' = "over"
          /\ attempts' = 0
          /\ UNCHANGED <<retries, cycles, asked>>
       \/ /\ outcome = "failure"
          /\ Restart
    /\ UNCHANGED <<started, backlog, supported, protocol, vehicle, evState, request, built,
                   clock, tls, pilot, full, outcome, ev>>

InitHandler ==
    /\ hPhase = "starting"
    /\ retries = MaxRequests
    /\ cycles = MaxCycles
    /\ attempts = 0
    /\ asked = 0
    /\ started = TRUE
    /\ backlog = <<>>
    /\ protocol = None

HandlerTypeOK ==
    /\ hPhase \in {"starting", "discovering", "session", "idle", "polling", "over", "crashed"}
    /\ retries \in 0 .. MaxRequests
    /\ cycles \in 0 .. MaxCycles
    /\ attempts \in 0 .. MaxAttempts
    /\ asked \in Nat
    /\ started \in BOOLEAN
    /\ backlog \in Seq(Datagrams) /\ Len(backlog) <= Backlog
    /\ supported \subseteq Protocols
    /\ protocol \in Protocols \cup {None}
=============================================================================
