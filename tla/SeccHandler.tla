----------------------------- MODULE SeccHandler -----------------------------
(***************************************************************************)
(* The session handler of the ISO 15118 charging station (the SECC):       *)
(* CommunicationSessionHandler (iso15118/secc/comm_session_handler.py)     *)
(* with the TCP and UDP servers it drives (secc/transport) and the life of *)
(* a session's receive loop (shared/comm_session.py).                      *)
(*                                                                         *)
(* One coroutine takes notifications from one queue: an SDP request opens  *)
(* the TCP server, a TCP client gets a session and pauses discovery, the   *)
(* stop of a session takes the server down, forgets or keeps the session   *)
(* and resumes discovery.  Sessions run concurrently with it and are known *)
(* by the IP address of their peer, so a vehicle that connects again takes *)
(* the entry of a session that is still running.                           *)
(*                                                                         *)
(* The handler's own awaits (the start of the server, at most 10 s, and    *)
(* the cancellations) let sessions run, but everything they touch besides  *)
(* the queue is their own: an iteration of its loop is one step.           *)
(***************************************************************************)
EXTENDS Naturals, Sequences, FiniteSets

CONSTANTS
    Peers,        \* IP addresses of vehicles
    MaxSessions,  \* bound: TCP connections of a behaviour
    None          \* Python's None, and an absent key

ASSUME HandlerConstants ==
    /\ MaxSessions \in Nat
    /\ None \notin Nat \cup Peers \cup {"running", "over"}

Sessions == 1 .. MaxSessions

VARIABLES
    queue,      \* _rcv_queue
    st,         \* where each connection is, see States
    peer,       \* the IP address of each connection
    entry,      \* comm_sessions: the session known under an address
    current,    \* _current_peer_ip
    handler,    \* tcp_server_handler: None, or a task that is running or over
    address,    \* tcp_server.ipv6_address_host is set
    listening,  \* TCP servers that accept connections
    paused,     \* udp_server.pause_server
    alive,      \* get_from_rcv_queue has not raised
    cancelled,  \* sessions whose task end_current_session has cancelled
    eof         \* sessions whose reader has been given the end of the stream

vars == <<queue, st, peer, entry, current, handler, address, listening,
          paused, alive, cancelled, eof>>

\* "waiting": accepted, its notification is queued; "reading": in rcv_loop;
\* "stopping": in stop(), which takes five seconds; "notified": its
\* StopNotification is queued; "dead": a read error has ended its rcv_loop.
States == {"unused", "waiting", "reading", "stopping", "notified", "dead", "over"}

Datagram(kind) == [kind |-> kind, session |-> None, action |-> None]
Client(s) == [kind |-> "client", session |-> s, action |-> None]
Stop(s, action) == [kind |-> "stop", session |-> s, action |-> action]

Notifications ==
    {Datagram(k) : k \in {"sdp", "wireless"}}
        \cup {Client(s) : s \in Sessions}
        \cup {Stop(s, a) : s \in Sessions, a \in {"terminate", "pause"}}

Init ==
    /\ queue = <<>>
    /\ st = [s \in Sessions |-> "unused"]
    /\ peer = [s \in Sessions |-> None]
    /\ entry = [p \in Peers |-> None]
    /\ current = None
    /\ handler = None /\ listening = 0 /\ address = FALSE
    /\ paused = FALSE
    /\ alive = TRUE
    /\ cancelled = {} /\ eof = {}

-----------------------------------------------------------------------------
(***************************************************************************)
(* The network and the application.                                        *)
(***************************************************************************)

\* A discovery request arrives: datagram_received drops it while the server
\* is paused.  At most one of them is in the queue.
ReceiveDatagram(kind) ==
    /\ alive /\ ~paused
    /\ \A i \in 1 .. Len(queue) : queue[i].kind \in {"client", "stop"}
    /\ queue' = Append(queue, Datagram(kind))
    /\ UNCHANGED <<st, peer, entry, current, handler, address, listening,
                   paused, alive, cancelled, eof>>

\* TCPServer.__call__: a vehicle connects.  The name of its peer is None when a
\* TLS connection is lost before this callback has run.
Connect(s, p) ==
    /\ listening > 0
    /\ st[s] = "unused"
    /\ \A r \in Sessions : r < s => st[r] # "unused"
    /\ st' = [st EXCEPT ![s] = "waiting"]
    /\ peer' = [peer EXCEPT ![s] = p]
    /\ queue' = Append(queue, Client(s))
    /\ UNCHANGED <<entry, current, handler, address, listening, paused, alive,
                   cancelled, eof>>

\* The vehicle closes the connection.
PeerCloses(s) ==
    /\ st[s] \in {"waiting", "reading"}
    /\ eof' = eof \cup {s}
    /\ UNCHANGED <<queue, st, peer, entry, current, handler, address, listening,
                   paused, alive, cancelled>>

-----------------------------------------------------------------------------
(***************************************************************************)
(* A session's rcv_loop.                                                   *)
(***************************************************************************)

\* The loop leaves for stop(): the end of the stream, a timeout, an error or a
\* message that ends the session.  Only a SessionStopReq can ask for a pause.
BeginStop(s) ==
    /\ st[s] = "reading"
    /\ st' = [st EXCEPT ![s] = "stopping"]
    /\ UNCHANGED <<queue, peer, entry, current, handler, address, listening,
                   paused, alive, cancelled, eof>>

\* The read raises something else than a timeout or a reset (ssl.SSLError, any
\* other OSError): nothing around it catches it, the task of the session only
\* logs it.  There is no stop(), the connection stays open, and nothing is put.
ReadError(s) ==
    /\ st[s] = "reading"
    /\ st' = [st EXCEPT ![s] = "dead"]
    /\ UNCHANGED <<queue, peer, entry, current, handler, address, listening,
                   paused, alive, cancelled, eof>>

\* Slip: a peer that has gone is not reported.
NotifyStopUnlessEof(s, action) ==
    /\ st[s] = "stopping"
    /\ action = "pause" => s \notin eof
    /\ st' = [st EXCEPT ![s] = "notified"]
    /\ queue' = IF s \in eof THEN queue ELSE Append(queue, Stop(s, action))
    /\ UNCHANGED <<peer, entry, current, handler, address, listening, paused,
                   alive, cancelled, eof>>

\* stop() has closed the connection: the loop puts its StopNotification.
NotifyStop(s, action) ==
    /\ st[s] = "stopping"
    /\ action = "pause" => s \notin eof
    /\ st' = [st EXCEPT ![s] = "notified"]
    /\ queue' = Append(queue, Stop(s, action))
    /\ UNCHANGED <<peer, entry, current, handler, address, listening, paused,
                   alive, cancelled, eof>>

-----------------------------------------------------------------------------
(***************************************************************************)
(* get_from_rcv_queue: one iteration for each kind of notification.        *)
(***************************************************************************)
Take(kind) ==
    /\ alive /\ queue # <<>> /\ Head(queue).kind = kind
    /\ queue' = Tail(queue)

\* Slip: it is replaced only once the new one is bound.
ProcessSdpRequestLate ==
    /\ Take("sdp")
    /\ \/ handler' = "running" /\ listening' = 1
       \/ handler' = "over" /\ listening' = listening
    /\ address' = TRUE /\ alive' = alive
    /\ UNCHANGED <<st, peer, entry, current, paused, cancelled, eof>>

\* process_sdp_request with start_tcp_server: the task that is running is
\* cancelled, which closes its server, and a new one is started.  When its
\* address cannot be read or its socket cannot be bound its task ends, only the
\* status says so, and the request is answered all the same: with the address
\* that is known.  inet_pton raises on None, which nothing catches.
ProcessSdpRequest ==
    /\ Take("sdp")
    /\ \/ handler' = "running" /\ listening' = 1 /\ address' = TRUE
       \/ handler' = "over" /\ listening' = 0 /\ address' \in {address, TRUE}
    /\ alive' = address'
    /\ UNCHANGED <<st, peer, entry, current, paused, cancelled, eof>>

\* process_incoming_udp_packet: a request for wireless discovery raises
\* NotImplementedError, which nothing catches: the handler's task ends.
ProcessWireless ==
    /\ Take("wireless")
    /\ alive' = FALSE
    /\ UNCHANGED <<st, peer, entry, current, handler, address, listening, paused,
                   cancelled, eof>>

\* A client gets a session, with the context of the session known under its
\* address, and takes the entry.  The session it takes it from is left alone.
ProcessClient ==
    LET s == Head(queue).session IN
    /\ Take("client")
    /\ peer[s] # None
    /\ paused' = TRUE
    /\ st' = [st EXCEPT ![s] = "reading"]
    /\ entry' = [entry EXCEPT ![peer[s]] = s]
    /\ current' = peer[s]
    /\ UNCHANGED <<peer, handler, address, listening, alive, cancelled, eof>>

\* A client without an address: looking it up raises TypeError, which nothing
\* catches, after discovery has been paused.
ProcessNamelessClient ==
    /\ Take("client")
    /\ peer[Head(queue).session] = None
    /\ paused' = TRUE
    /\ alive' = FALSE
    /\ UNCHANGED <<st, peer, entry, current, handler, address, listening,
                   cancelled, eof>>

\* The try block of end_current_session.  cancel_task(None) raises before the
\* session's task is cancelled; an unknown address raises after the server's
\* task is.  The server's task, cancelled, closes its server and ends.
CancelTasks(p) ==
    /\ listening' = IF handler = "running" THEN 0 ELSE listening
    /\ cancelled' = IF handler # None /\ entry[p] # None
                      THEN cancelled \cup {entry[p]} ELSE cancelled

\* Slip: discovery is resumed only when the session is forgotten.
EndKnownSessionForgets(p, action) ==
    /\ entry[p] # None
    /\ entry' = IF action = "terminate" THEN [entry EXCEPT ![p] = None] ELSE entry
    /\ handler' = None
    /\ current' = None
    /\ paused' = (paused /\ action = "pause")

\* The rest of it: TERMINATE forgets the session, PAUSE keeps it.
EndKnownSession(p, action) ==
    /\ entry[p] # None
    /\ entry' = IF action = "terminate" THEN [entry EXCEPT ![p] = None] ELSE entry
    /\ handler' = None
    /\ current' = None
    /\ paused' = FALSE

\* An unknown address: the finally block raises KeyError, which the caller
\* swallows, and what follows the block is skipped.
EndUnknownSession(p) ==
    /\ entry[p] = None
    /\ handler' = IF handler = None THEN None ELSE "over"
    /\ UNCHANGED <<entry, current, paused>>

ProcessStop ==
    LET n == Head(queue)
        p == peer[n.session]
    IN  /\ Take("stop")
        /\ CancelTasks(p)
        /\ EndKnownSession(p, n.action) \/ EndUnknownSession(p)
        /\ st' = [st EXCEPT ![n.session] = "over"]
        /\ UNCHANGED <<peer, address, alive, eof>>

GetFromRcvQueue ==
    \/ ProcessSdpRequest \/ ProcessWireless
    \/ ProcessClient \/ ProcessNamelessClient \/ ProcessStop

Next ==
    \/ \E kind \in {"sdp", "wireless"} : ReceiveDatagram(kind)
    \/ \E s \in Sessions, p \in Peers \cup {None} : Connect(s, p)
    \/ \E s \in Sessions : PeerCloses(s) \/ BeginStop(s) \/ ReadError(s)
    \/ \E s \in Sessions, action \in {"terminate", "pause"} : NotifyStop(s, action)
    \/ GetFromRcvQueue

Spec == Init /\ [][Next]_vars

(***************************************************************************)
(* The event loop serves the handler and the sessions, and every vehicle   *)
(* stops, leaves or falls silent at last: the timeout of rcv_loop then     *)
(* ends the session, unless a read error has taken the loop.               *)
(***************************************************************************)
FairSpec ==
    /\ Spec
    /\ WF_vars(GetFromRcvQueue)
    /\ \A s \in Sessions : WF_vars(BeginStop(s))
    /\ \A s \in Sessions : WF_vars(NotifyStop(s, "terminate"))

-----------------------------------------------------------------------------
TypeOK ==
    /\ queue \in Seq(Notifications)
    /\ st \in [Sessions -> States]
    /\ peer \in [Sessions -> Peers \cup {None}]
    /\ entry \in [Peers -> Sessions \cup {None}]
    /\ current \in Peers \cup {None}
    /\ handler \in {None, "running", "over"}
    /\ listening \in {0, 1}
    /\ address \in BOOLEAN
    /\ paused \in BOOLEAN
    /\ alive \in BOOLEAN
    /\ cancelled \subseteq Sessions
    /\ eof \subseteq Sessions

\* Discovery can always be resumed: while it is paused, some address is known
\* and its session has not been ended, so its stop will find the entry and
\* reach resume_udp_server.  It holds although the stop of a replaced session
\* takes the entry of its successor: that stop resumes discovery too.  The one
\* session that keeps its entry and may never stop is one whose loop a read
\* error has ended (comm_session.py:473); a handler that has raised is over.
DiscoveryRecoverable ==
    (paused /\ alive) =>
        \E p \in Peers :
            /\ entry[p] # None
            /\ st[entry[p]] \in {"reading", "stopping", "notified", "dead"}

\* There is at most one TCP server, and the task that closes it is the one the
\* handler would cancel, in whatever order requests, stops of sessions that
\* are known and stops of sessions that are not arrive.
ListenerOwned == listening = IF handler = "running" THEN 1 ELSE 0

\* A session that a read error has ended still holds its entry, and there is no
\* other session whose stop could resume discovery.
Abandoned ==
    /\ \E p \in Peers : entry[p] # None /\ st[entry[p]] = "dead"
    /\ \A s \in Sessions :
           st[s] \notin {"waiting", "reading", "stopping", "notified"}

\* Discovery is resumed after every pause, unless the handler has raised or the
\* last session is one that a read error has ended without a StopNotification:
\* then only a vehicle that connects without discovery can get it resumed.
DiscoveryResumes == paused ~> (~paused \/ ~alive \/ Abandoned)

=============================================================================
