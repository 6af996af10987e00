----------------------------- MODULE DoipServer -----------------------------
(***************************************************************************)
(* doip_lib/server.py: the DoIP server, its simulated outages and its TCP  *)
(* sessions.  Coroutines of one event loop interleave at their awaits; a   *)
(* step is what runs between two of them.  Time passes, one second per     *)
(* tick, only when every coroutine waits, so that equal deadlines meet.    *)
(*                                                                         *)
(* Server.wait_closed is taken as in Python before 3.12, where it returns  *)
(* at once after close(), so that the awaits of it in restart_tcp_server,  *)
(* serve_forever and the async with are no points of interleaving.  From   *)
(* 3.12 on it waits for the clients that are still connected.              *)
(***************************************************************************)
EXTENDS Naturals, FiniteSets

CONSTANTS
    Sessions,     \* connections the server can have at a time
    Datagrams,    \* udp_message_handler tasks that can exist at a time
    MaxMessages,  \* bound: messages sent by clients, TCP and UDP together
    StopCount,    \* 3: long messages that stop the server
    OutageTcp,    \* 3: seconds a session sleeps before it starts the server
    OutageUdp     \* 5: seconds before the UDP and the cancelled server restart

ASSUME DoipConstants ==
    /\ IsFiniteSet(Sessions) /\ IsFiniteSet(Datagrams)
    /\ MaxMessages \in Nat
    /\ StopCount \in Nat \ {0} /\ OutageTcp \in Nat /\ OutageUdp \in Nat

\* A server object is referred to only by self.tcp_server and by the coroutine
\* that created it, and none is created while another listens: two names that
\* alternate tell a new server from the one it replaces.
Servers == {1, 2}
Owners == Sessions \cup {"run"}        \* who can be inside start_tcp_server
Tasks == Owners \cup Datagrams

\* "none" is the owner of a server that nobody awaits.
ASSUME NoneIsNoTask == "none" \notin Tasks

VARIABLES
    tcpServer,   \* self.tcp_server: a server, or 0 for None
    listening,   \* the servers whose sockets are open
    newest,      \* the server created last
    owner,       \* per server: who awaits its serve_forever, or "none"
    restart,     \* should_restart_tcp
    gathered,    \* run has left its gather and is in its loop
    count,       \* _should_stop_cnt
    udp,         \* is the UDP socket bound?
    pc,          \* control point of every coroutine
    timer,       \* seconds it still sleeps
    client,      \* per session: what its client does
    sent         \* messages sent so far

vars == <<tcpServer, listening, newest, owner, restart, gathered, count, udp,
          pc, timer, client, sent>>

Points == {"start", "create", "enter", "serving", "cancelled", "restart",
           "loop", "off", "read", "stopped", "udpBind"}

TypeOK ==
    /\ tcpServer \in {0} \cup Servers
    /\ listening \subseteq Servers
    /\ newest \in Servers
    /\ owner \in [Servers -> Owners \cup {"none"}]
    /\ restart \in BOOLEAN /\ gathered \in BOOLEAN
    /\ count \in 0 .. StopCount
    /\ udp \in BOOLEAN
    /\ pc \in [Tasks -> Points]
    /\ timer \in [Tasks -> Nat]
    /\ client \in [Sessions -> {"none", "open", "sentLong", "sentShort",
                                "waits", "answered"}]
    /\ sent \in 0 .. MaxMessages

\* gather has started start_tcp_server; start_udp_server has bound its socket
Init ==
    /\ tcpServer = 0
    /\ listening = {}
    /\ newest = 1
    /\ owner = [s \in Servers |-> "none"]
    /\ restart = FALSE
    /\ gathered = FALSE
    /\ count = 0
    /\ udp = TRUE
    /\ pc = [t \in Tasks |-> IF t = "run" THEN "start" ELSE "off"]
    /\ timer = [t \in Tasks |-> 0]
    /\ client = [s \in Sessions |-> "none"]
    /\ sent = 0

\* Coroutine t is at point p and its sleep is over.
At(t, p) == pc[t] = p /\ timer[t] = 0
Goto(t, p) == pc' = [pc EXCEPT ![t] = p] /\ UNCHANGED timer
Sleep(t, p, d) == pc' = [pc EXCEPT ![t] = p] /\ timer' = [timer EXCEPT ![t] = d]

\* Server.close: the socket is closed and whoever awaits serve_forever gets
\* a CancelledError; p and d are where, and after how long, t goes on.
Close(s, t, p, d) ==
    /\ listening' = listening \ {s}
    /\ owner' = [owner EXCEPT ![s] = "none"]
    /\ pc' = [x \in Tasks |-> IF x = t THEN p
                              ELSE IF x = owner[s] THEN "cancelled" ELSE pc[x]]
    /\ timer' = [timer EXCEPT ![t] = d]

-----------------------------------------------------------------------------
(* start_tcp_server and restart_tcp_server *)

\* start_tcp_server returns to the loop of run, which sleeps a second, or to
\* the session, whose next read finds the end of the stream.
Resume(t) == IF t = "run" THEN "loop" ELSE "off"
ResumeAfter(t) == IF t = "run" THEN 1 ELSE 0
RunFlags(t, returns) ==
    IF t = "run" /\ returns
    THEN /\ gathered' = TRUE
         /\ restart' = (restart /\ ~gathered)
         /\ count' = IF gathered THEN 0 ELSE count
    ELSE UNCHANGED <<gathered, restart, count>>

\* async with server: await server.serve_forever().  serve_forever raises
\* RuntimeError for a closed server and for one that is already awaited; the
\* async with closes the server then too.
CanServe(s) == s \in listening /\ owner[s] = "none"
ServeForever(t, s) ==
    IF CanServe(s)
    THEN /\ owner' = [owner EXCEPT ![s] = t]
         /\ Goto(t, "serving")
         /\ UNCHANGED listening
    ELSE Close(s, t, Resume(t), ResumeAfter(t))

\* start_tcp_server up to its first await
EnterStart(t) ==
    IF tcpServer = 0
    THEN Goto(t, "create") /\ UNCHANGED <<listening, owner>>
    ELSE ServeForever(t, tcpServer)

StartTcp(t) ==
    /\ At(t, "start")
    /\ EnterStart(t)
    /\ RunFlags(t, tcpServer # 0 /\ ~CanServe(tcpServer))
    /\ UNCHANGED <<tcpServer, newest, udp, client, sent>>

\* asyncio.start_server has resolved the address and binds the port; a port in
\* use raises OSError, which start_tcp_server logs.
CreateServer(t) ==
    /\ At(t, "create")
    /\ IF listening # {}
       THEN /\ Sleep(t, Resume(t), ResumeAfter(t))
            /\ RunFlags(t, TRUE)
            /\ UNCHANGED <<listening, newest>>
       ELSE /\ newest' = 3 - newest
            /\ listening' = {3 - newest}
            /\ Goto(t, "enter")
            /\ UNCHANGED <<gathered, restart, count>>
    /\ UNCHANGED <<tcpServer, owner, udp, client, sent>>

\* self.tcp_server = the new server, and serve_forever
AssignServer(t) ==
    /\ At(t, "enter")
    /\ tcpServer' = newest
    /\ ServeForever(t, newest)
    /\ RunFlags(t, ~CanServe(newest))
    /\ UNCHANGED <<newest, udp, client, sent>>

\* except asyncio.CancelledError: sleep(5), then restart_tcp_server
Cancelled(t) ==
    /\ At(t, "cancelled")
    /\ Sleep(t, "restart", OutageUdp)
    /\ UNCHANGED <<tcpServer, listening, newest, owner, restart, gathered,
                   count, udp, client, sent>>

\* Mutant: self.tcp_server keeps the closed server, which cannot serve again.
RestartTcpKeeps(t) ==
    /\ At(t, "restart")
    /\ IF tcpServer = 0
       THEN Goto(t, "create") /\ UNCHANGED <<listening, owner>>
       ELSE Close(tcpServer, t, Resume(t), ResumeAfter(t))
    /\ RunFlags(t, tcpServer # 0)
    /\ UNCHANGED <<tcpServer, newest, udp, client, sent>>

\* Mutant: self.tcp_server is dropped without being closed.
RestartTcpDrops(t) ==
    /\ At(t, "restart")
    /\ Goto(t, "create")
    /\ tcpServer' = 0
    /\ UNCHANGED <<listening, newest, owner, restart, gathered, count, udp, client, sent>>

\* restart_tcp_server: close, self.tcp_server = None, start_tcp_server up to
\* its first await
RestartTcp(t) ==
    /\ At(t, "restart")
    /\ IF tcpServer = 0
       THEN Goto(t, "create") /\ UNCHANGED <<listening, owner>>
       ELSE Close(tcpServer, t, "create", 0)
    /\ tcpServer' = 0
    /\ UNCHANGED <<newest, restart, gathered, count, udp, client, sent>>

\* The loop of run, reached only if start_tcp_server returns.
RunLoop ==
    /\ At("run", "loop")
    /\ IF restart THEN Goto("run", "restart") ELSE Sleep("run", "loop", 1)
    /\ UNCHANGED <<tcpServer, listening, newest, owner, restart, gathered,
                   count, udp, client, sent>>

-----------------------------------------------------------------------------
(* handle_tcp_session *)

\* A client connects while a server listens.
Connect(s) ==
    /\ listening # {}
    /\ pc[s] = "off"
    /\ sent < MaxMessages
    /\ client' = [client EXCEPT ![s] = "open"]
    /\ Goto(s, "read")
    /\ UNCHANGED <<tcpServer, listening, newest, owner, restart, gathered,
                   count, udp, sent>>

\* It sends a long message or a routing activation request and closes its
\* side; or it sends the request and waits for the answer.
Send(s, how) ==
    /\ pc[s] = "read"
    /\ client[s] = "open"
    /\ sent < MaxMessages
    /\ sent' = sent + 1
    /\ client' = [client EXCEPT ![s] = how]
    /\ UNCHANGED <<tcpServer, listening, newest, owner, restart, gathered,
                   count, udp, pc, timer>>

\* await reader.read() returns only at the end of the stream, with everything
\* the client sent.  The activation is answered, the next read returns
\* nothing, and the session ends.
Activate(s) ==
    /\ At(s, "read")
    /\ client[s] = "sentShort"
    /\ client' = [client EXCEPT ![s] = "answered"]
    /\ Goto(s, "off")
    /\ UNCHANGED <<tcpServer, listening, newest, owner, restart, gathered, count, udp,
                   sent>>

\* len(data) >= 50: the third long message clears the count and closes the
\* server.  When there is no server object, nothing is closed: the AttributeError
\* is logged and the session ends.  So it does, without the sleep and the restart,
\* when writer.wait_closed() raises.
LongMessage(s) ==
    /\ At(s, "read")
    /\ client[s] = "sentLong"
    /\ client' = [client EXCEPT ![s] = "none"]
    /\ IF count + 1 < StopCount
       THEN /\ count' = count + 1
            /\ Goto(s, "off")
            /\ UNCHANGED <<listening, owner>>
       ELSE /\ count' = 0
            /\ IF tcpServer = 0
               THEN Goto(s, "off") /\ UNCHANGED <<listening, owner>>
               ELSE \/ Close(tcpServer, s, "stopped", OutageTcp)
                    \/ Close(tcpServer, s, "off", 0)
    /\ UNCHANGED <<tcpServer, newest, restart, gathered, udp, sent>>

\* after sleep(3): self.should_restart_tcp = True; await start_tcp_server()
SessionRestarts(s) ==
    /\ At(s, "stopped")
    /\ restart' = TRUE
    /\ EnterStart(s)
    /\ UNCHANGED <<tcpServer, newest, gathered, count, udp, client, sent>>

-----------------------------------------------------------------------------
(* The UDP server *)

\* datagram_received creates a task of udp_message_handler; a datagram of 100
\* bytes or more counts, and the third closes the transport.
LongDatagram(d) ==
    /\ udp
    /\ pc[d] = "off"
    /\ sent < MaxMessages
    /\ sent' = sent + 1
    /\ Goto(d, "read")
    /\ UNCHANGED <<tcpServer, listening, newest, owner, restart, gathered, count, udp,
                   client>>

\* Mutant: the test for the count comes before the increment.
UdpHandlerLate(d) ==
    /\ At(d, "read")
    /\ IF count < StopCount
       THEN count' = count + 1 /\ Goto(d, "off") /\ UNCHANGED udp
       ELSE count' = 0 /\ udp' = FALSE /\ Sleep(d, "udpBind", OutageUdp)
    /\ UNCHANGED <<tcpServer, listening, newest, owner, restart, gathered,
                   client, sent>>

UdpHandler(d) ==
    /\ At(d, "read")
    /\ IF count + 1 < StopCount
       THEN count' = count + 1 /\ Goto(d, "off") /\ UNCHANGED udp
       ELSE count' = 0 /\ udp' = FALSE /\ Sleep(d, "udpBind", OutageUdp)
    /\ UNCHANGED <<tcpServer, listening, newest, owner, restart, gathered, client, sent>>

\* start_udp_server: binding a port in use raises, which is logged
UdpBind(d) ==
    /\ At(d, "udpBind")
    /\ Goto(d, "off")
    /\ udp' = TRUE
    /\ count' = IF udp THEN count ELSE 0
    /\ UNCHANGED <<tcpServer, listening, newest, owner, restart, gathered, client, sent>>

-----------------------------------------------------------------------------
Coroutine(t) ==
    \/ t \in Owners /\ (\/ StartTcp(t) \/ CreateServer(t) \/ AssignServer(t)
                        \/ Cancelled(t) \/ RestartTcp(t))
    \/ t = "run" /\ RunLoop
    \/ t \in Sessions /\ (Activate(t) \/ LongMessage(t) \/ SessionRestarts(t))
    \/ t \in Datagrams /\ (UdpHandler(t) \/ UdpBind(t))

\* A coroutine that can run now: the others sleep, serve, read or are done.
Runnable(t) ==
    /\ timer[t] = 0
    /\ pc[t] \notin {"off", "serving"}
    /\ (t \in Sessions /\ pc[t] = "read") => client[t] \notin {"open", "waits"}

Tick ==
    /\ ~ \E t \in Tasks : Runnable(t)
    /\ \E t \in Tasks : timer[t] > 0
    /\ timer' = [t \in Tasks |-> IF timer[t] > 0 THEN timer[t] - 1 ELSE 0]
    /\ UNCHANGED <<tcpServer, listening, newest, owner, restart, gathered, count, udp,
                   pc, client, sent>>

Clients ==
    \/ \E s \in Sessions : Connect(s)
    \/ \E s \in Sessions, how \in {"sentLong", "sentShort", "waits"} :
          Send(s, how)
    \/ \E d \in Datagrams : LongDatagram(d)

Next == Clients \/ Tick \/ \E t \in Tasks : Coroutine(t)

Spec == Init /\ [][Next]_vars

\* The event loop runs every ready coroutine, and time passes.
FairSpec == Spec /\ WF_vars(Tick) /\ \A t \in Tasks : WF_vars(Coroutine(t))

-----------------------------------------------------------------------------
(* Properties *)

\* TCP sessions and UDP handlers count in one variable, which they compare with
\* StopCount for equality: in whichever order they count and restarts clear it,
\* it is never left at StopCount, from where the next message would jump over the
\* test for good; and every variable keeps its type.  (It does not say that the
\* message which clears the count stops a server: see LongMessage.)
CountBelowStop == TypeOK /\ count < StopCount

\* However the outages of sessions, datagrams and run overlap, a server that
\* listens is the one of self.tcp_server, or the coroutine that has just created
\* it will put it there.  One that nobody refers to could not be closed any more
\* and would keep the port from every later restart.
PortKnown ==
    \A s \in listening :
        s = tcpServer \/ (s = newest /\ \E t \in Owners : pc[t] = "enter")

\* The comment in handle_tcp_session says that the server stops for a while and
\* starts again: from every outage the TCP and the UDP port come back.
PortsComeBack == []<>(listening # {}) /\ []<>udp

=============================================================================
