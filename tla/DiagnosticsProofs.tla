------------------------- MODULE DiagnosticsProofs -------------------------
(***************************************************************************)
(* Proofs about the three parts of the simulated vehicle that answer       *)
(* diagnostic requests: the DoIP server (DoipServer), the vehicle task on  *)
(* 0x7DF (Throttle) and the UDS simulator (UdsEcho).  They share no state. *)
(***************************************************************************)
EXTENDS DoipServer, Throttle, UdsEcho, TLAPS

-----------------------------------------------------------------------------
(***************************************************************************)
(* DoipServer, for any number of sessions and datagrams and any length of  *)
(* the outages: the count of long messages that TCP sessions and UDP       *)
(* handlers share stays below the one that stops a server, and a server    *)
(* that listens is known to the object.  The second needs to know whom a   *)
(* close cancels, which is part of the first invariant.                    *)
(***************************************************************************)

\* Every server that is awaited is open, and its owner is serving it.
OwnersServe ==
    /\ \A s \in Servers : owner[s] # "none" =>
          s \in listening /\ pc[owner[s]] = "serving"
    /\ \A t \in Owners : pc[t] = "serving" => \E s \in Servers : owner[s] = t

\* serve_forever of a server is awaited by one coroutine, and a coroutine
\* awaits one server: a close that cancels the owner of a server cancels it
\* for no other server.
OneServerEach ==
    \A s, r \in Servers : (owner[s] = owner[r] /\ s # r) => owner[s] = "none"

\* What a coroutine that serves, and only such a one, owns.
Served ==
    /\ OwnersServe
    /\ OneServerEach

DoipInv == CountBelowStop /\ Served

-----------------------------------------------------------------------------
(***************************************************************************)
(* Moves of a coroutine that does not serve.                               *)
(***************************************************************************)

\* A coroutine that moves from one await to the next, neither of them
\* serve_forever, disturbs no owner.
LEMMA MoveKeeps ==
    ASSUME TypeOK, Served,
           NEW t \in Tasks, NEW p \in Points \ {"serving"},
           pc[t] # "serving", pc' = [pc EXCEPT ![t] = p],
           UNCHANGED <<owner, listening>>
    PROVE  Served'
<1>1. \A x \in Tasks : pc'[x] = "serving" <=> pc[x] = "serving"
  BY DEF TypeOK
<1>2. \A s \in Servers : owner[s] \in Owners \cup {"none"}
  BY DEF TypeOK
<1>. QED
  BY <1>1, <1>2 DEF Served, OwnersServe, OneServerEach, Tasks

\* Server.close cancels the coroutine that awaits the server, and no other.
LEMMA CloseKeeps ==
    ASSUME TypeOK, Served,
           NEW s \in Servers, NEW t \in Tasks, NEW p \in Points \ {"serving"},
           NEW d, pc[t] # "serving", Close(s, t, p, d)
    PROVE  Served'
<1>1. \A r \in Servers : owner[r] \in Owners \cup {"none"}
  BY DEF TypeOK
<1>2. owner' = [owner EXCEPT ![s] = "none"] /\ listening' = listening \ {s}
  BY DEF Close
<1>3. \A r \in Servers : owner'[r] = IF r = s THEN "none" ELSE owner[r]
  BY <1>2 DEF TypeOK
<1>4. \A x \in Tasks : pc'[x] = "serving" <=> (pc[x] = "serving" /\ x # owner[s])
  BY DEF Close
<1>5. \A r \in Servers : owner'[r] # "none" =>
          r \in listening' /\ pc'[owner'[r]] = "serving"
  <2>1. SUFFICES ASSUME NEW r \in Servers, owner'[r] # "none"
                 PROVE  r \in listening' /\ pc'[owner'[r]] = "serving"
    OBVIOUS
  <2>2. r # s /\ owner'[r] = owner[r] /\ owner[r] \in Tasks
    BY <2>1, <1>1, <1>3 DEF Tasks
  <2>3. r \in listening /\ pc[owner[r]] = "serving"
    BY <2>1, <2>2 DEF Served, OwnersServe
  <2>4. owner[r] # owner[s]
    BY <2>1, <2>2 DEF Served, OneServerEach
  <2>. QED BY <2>2, <2>3, <2>4, <1>2, <1>4
<1>6. \A x \in Owners : pc'[x] = "serving" => \E r \in Servers : owner'[r] = x
  BY <1>3, <1>4 DEF Served, OwnersServe, Tasks
<1>7. OneServerEach'
  BY <1>3 DEF Served, OneServerEach
<1>. QED BY <1>5, <1>6, <1>7 DEF Served, OwnersServe

\* serve_forever: the coroutine becomes the owner of an open server nobody
\* awaits, or closes the server.
LEMMA ServeKeeps ==
    ASSUME TypeOK, Served,
           NEW s \in Servers, NEW t \in Owners,
           pc[t] # "serving", ServeForever(t, s)
    PROVE  Served'
<1>1. t \in Tasks /\ t # "none" /\ Resume(t) \in Points \ {"serving"}
  BY NoneIsNoTask DEF Tasks, Resume, Points
<1>2. CASE ~CanServe(s)
  BY <1>1, <1>2, CloseKeeps DEF ServeForever
<1>3. CASE CanServe(s)
  <2>1. owner' = [owner EXCEPT ![s] = t] /\ listening' = listening
    BY <1>3 DEF ServeForever
  <2>2. pc' = [pc EXCEPT ![t] = "serving"]
    BY <1>3 DEF ServeForever, Goto
  <2>3. s \in listening /\ owner[s] = "none"
    BY <1>3 DEF CanServe
  <2>4. \A r \in Servers : owner'[r] = IF r = s THEN t ELSE owner[r]
    BY <2>1 DEF TypeOK
  <2>5. \A x \in Tasks : pc'[x] = IF x = t THEN "serving" ELSE pc[x]
    BY <2>2, <1>1 DEF TypeOK
  <2>6. \A r \in Servers : owner[r] \in Owners \cup {"none"} /\ owner[r] # t
    BY <1>1 DEF TypeOK, Served, OwnersServe
  <2>7. OwnersServe'
    <3>1. \A r \in Servers : owner'[r] # "none" =>
              r \in listening' /\ pc'[owner'[r]] = "serving"
      BY <2>1, <2>3, <2>4, <2>5, <2>6, <1>1 DEF Served, OwnersServe, Tasks
    <3>2. \A x \in Owners : pc'[x] = "serving" => \E r \in Servers : owner'[r] = x
      <4>1. SUFFICES ASSUME NEW x \in Owners, pc'[x] = "serving"
                     PROVE  \E r \in Servers : owner'[r] = x
        OBVIOUS
      <4>2. CASE x = t
        BY <4>2, <2>4
      <4>3. CASE x # t
        <5>1. pc[x] = "serving"
          BY <4>1, <4>3, <2>5 DEF Tasks
        <5>2. PICK r \in Servers : owner[r] = x
          BY <5>1 DEF Served, OwnersServe
        <5>3. x # "none"
          BY NoneIsNoTask DEF Tasks
        <5>. QED BY <5>2, <5>3, <2>3, <2>4
      <4>. QED BY <4>2, <4>3
    <3>. QED BY <3>1, <3>2 DEF OwnersServe
  <2>8. OneServerEach'
    BY <2>4, <2>6 DEF Served, OneServerEach
  <2>. QED BY <2>7, <2>8 DEF Served
<1>. QED BY <1>2, <1>3

-----------------------------------------------------------------------------
(***************************************************************************)
(* What the shared pieces of the handlers leave well typed.                *)
(***************************************************************************)

\* The part of the type invariant that Close and ServeForever touch.
ServersTyped ==
    /\ listening \subseteq Servers
    /\ owner \in [Servers -> Owners \cup {"none"}]
    /\ pc \in [Tasks -> Points]
    /\ timer \in [Tasks -> Nat]

\* Closing a server keeps the types.
LEMMA CloseTyped ==
    ASSUME TypeOK, NEW s \in Servers, NEW t \in Tasks, NEW p \in Points,
           NEW d \in Nat, Close(s, t, p, d)
    PROVE  ServersTyped'
<1>1. "cancelled" \in Points
  BY DEF Points
<1>. QED BY <1>1 DEF TypeOK, Close, ServersTyped

\* So does serve_forever.
LEMMA ServeTyped ==
    ASSUME TypeOK, NEW s \in Servers, NEW t \in Owners, ServeForever(t, s)
    PROVE  ServersTyped'
<1>1. /\ t \in Tasks
      /\ {"serving", Resume(t)} \subseteq Points
      /\ ResumeAfter(t) \in Nat
  BY DEF Tasks, Points, Resume, ResumeAfter
<1>2. CASE CanServe(s)
  BY <1>1, <1>2 DEF TypeOK, ServeForever, Goto, ServersTyped
<1>3. CASE ~CanServe(s)
  BY <1>1, <1>3, CloseTyped DEF ServeForever
<1>. QED BY <1>2, <1>3

\* start_tcp_server up to its first await.
LEMMA EnterStartKeeps ==
    ASSUME TypeOK, Served, NEW t \in Owners, pc[t] # "serving", EnterStart(t)
    PROVE  ServersTyped' /\ Served'
<1>1. t \in Tasks /\ "create" \in Points \ {"serving"}
  BY DEF Tasks, Points
<1>2. CASE tcpServer = 0
  <2>1. pc' = [pc EXCEPT ![t] = "create"] /\ UNCHANGED <<timer, listening, owner>>
    BY <1>2 DEF EnterStart, Goto
  <2>2. Served'
    BY <1>1, <2>1, MoveKeeps
  <2>. QED BY <1>1, <2>1, <2>2 DEF TypeOK, ServersTyped
<1>3. CASE tcpServer # 0
  <2>1. tcpServer \in Servers /\ ServeForever(t, tcpServer)
    BY <1>3 DEF TypeOK, EnterStart
  <2>. QED BY <2>1, ServeTyped, ServeKeeps
<1>. QED BY <1>2, <1>3

\* The flags of run, and the count it clears when it restarts the server.
LEMMA FlagsTyped ==
    ASSUME CountBelowStop, NEW t, NEW returns, RunFlags(t, returns)
    PROVE  /\ restart' \in BOOLEAN /\ gathered' \in BOOLEAN
           /\ count' \in 0 .. StopCount /\ count' < StopCount
<1>1. /\ restart \in BOOLEAN /\ gathered \in BOOLEAN
      /\ count \in 0 .. StopCount /\ count < StopCount
      /\ 0 \in 0 .. StopCount /\ 0 < StopCount
  BY DoipConstants DEF CountBelowStop, TypeOK
<1>2. CASE t = "run" /\ returns
  <2>1. /\ gathered' = TRUE
        /\ restart' = (restart /\ ~gathered)
        /\ count' = IF gathered THEN 0 ELSE count
    BY <1>2 DEF RunFlags
  <2>2. restart' \in BOOLEAN /\ gathered' \in BOOLEAN
    BY <2>1, Zenon
  <2>3. count' \in 0 .. StopCount /\ count' < StopCount
    BY <2>1, <1>1
  <2>. QED BY <2>2, <2>3
<1>3. CASE ~(t = "run" /\ returns)
  BY <1>1, <1>3 DEF RunFlags
<1>. QED BY <1>2, <1>3

\* An action that leaves the shared count alone, or clears it, need only keep
\* the rest of the types.
LEMMA Assemble ==
    ASSUME ServersTyped', Served',
           tcpServer' \in {0} \cup Servers, newest' \in Servers,
           restart' \in BOOLEAN, gathered' \in BOOLEAN, udp' \in BOOLEAN,
           count' \in 0 .. StopCount, count' < StopCount,
           client' \in [Sessions -> {"none", "open", "sentLong", "sentShort",
                                     "waits", "answered"}],
           sent' \in 0 .. MaxMessages
    PROVE  DoipInv'
BY DEF DoipInv, CountBelowStop, TypeOK, ServersTyped

\* Nobody serves at first.
LEMMA DoipInit == Init => DoipInv
<1>. SUFFICES ASSUME Init PROVE DoipInv
  OBVIOUS
<1>1. {"start", "off"} \subseteq Points
  BY DEF Points
<1>2. TypeOK
  <2>1. pc \in [Tasks -> Points]
    BY <1>1 DEF Init
  <2>2. /\ tcpServer \in {0} \cup Servers
        /\ listening \subseteq Servers
        /\ newest \in Servers
        /\ owner \in [Servers -> Owners \cup {"none"}]
    BY DEF Init, Servers
  <2>3. restart \in BOOLEAN /\ gathered \in BOOLEAN /\ udp \in BOOLEAN
    BY DEF Init
  <2>4. count \in 0 .. StopCount /\ sent \in 0 .. MaxMessages
    BY DoipConstants DEF Init
  <2>5. timer \in [Tasks -> Nat]
    BY DEF Init
  <2>6. client \in [Sessions -> {"none", "open", "sentLong", "sentShort",
                                  "waits", "answered"}]
    BY DEF Init
  <2>. QED BY <2>1, <2>2, <2>3, <2>4, <2>5, <2>6 DEF TypeOK
<1>3. CountBelowStop
  BY <1>2, DoipConstants DEF Init, CountBelowStop
<1>4. OwnersServe
  BY DEF Init, OwnersServe, Tasks, Owners
<1>5. OneServerEach
  BY DEF Init, OneServerEach
<1>. QED BY <1>3, <1>4, <1>5 DEF DoipInv, Served

-----------------------------------------------------------------------------
(***************************************************************************)
(* The coroutines that start the TCP server.                               *)
(***************************************************************************)

\* Each await of start_tcp_server and restart_tcp_server.
LEMMA OwnerKeeps ==
    ASSUME DoipInv, NEW t \in Owners,
           StartTcp(t) \/ CreateServer(t) \/ AssignServer(t) \/ Cancelled(t)
             \/ RestartTcp(t)
    PROVE  DoipInv'
<1>1. TypeOK /\ Served /\ CountBelowStop /\ t \in Tasks
  BY DEF DoipInv, CountBelowStop, Tasks
<1>2. CASE StartTcp(t)
  <2>1. ServersTyped' /\ Served'
    BY <1>1, <1>2, EnterStartKeeps DEF StartTcp, At
  <2>2. /\ restart' \in BOOLEAN /\ gathered' \in BOOLEAN
        /\ count' \in 0 .. StopCount /\ count' < StopCount
    BY <1>1, <1>2, FlagsTyped DEF StartTcp
  <2>. QED BY <2>1, <2>2, <1>1, <1>2, Assemble DEF StartTcp, TypeOK
<1>3. CASE CreateServer(t)
  <2>1. {Resume(t), "enter"} \subseteq Points \ {"serving"} /\ ResumeAfter(t) \in Nat
    BY DEF Points, Resume, ResumeAfter
  <2>2. pc[t] # "serving"
    BY <1>3 DEF CreateServer, At
  <2>3. CASE listening # {}
    <3>1. /\ pc' = [pc EXCEPT ![t] = Resume(t)]
          /\ timer' = [timer EXCEPT ![t] = ResumeAfter(t)]
          /\ UNCHANGED <<listening, newest, tcpServer, owner, udp, client, sent>>
          /\ RunFlags(t, TRUE)
      BY <1>3, <2>3 DEF CreateServer, Sleep
    <3>2. Served'
      BY <1>1, <2>1, <2>2, <3>1, MoveKeeps
    <3>3. ServersTyped'
      BY <1>1, <2>1, <3>1 DEF TypeOK, ServersTyped
    <3>4. /\ restart' \in BOOLEAN /\ gathered' \in BOOLEAN
          /\ count' \in 0 .. StopCount /\ count' < StopCount
      BY <1>1, <3>1, FlagsTyped
    <3>. QED BY <3>1, <3>2, <3>3, <3>4, <1>1, Assemble DEF TypeOK
  <2>4. CASE listening = {}
    <3>1. /\ newest' = 3 - newest
          /\ listening' = {3 - newest}
          /\ pc' = [pc EXCEPT ![t] = "enter"]
          /\ UNCHANGED <<timer, gathered, restart, count, tcpServer, owner,
                         udp, client, sent>>
      BY <1>3, <2>4 DEF CreateServer, Goto
    <3>2. 3 - newest \in Servers
      BY <1>1 DEF TypeOK, Servers
    <3>3. ServersTyped'
      BY <1>1, <2>1, <3>1, <3>2 DEF TypeOK, ServersTyped
    <3>4. \A s \in Servers : owner[s] = "none"
      BY <1>1, <2>4 DEF Served, OwnersServe
    <3>5. \A x \in Owners : pc[x] # "serving"
      BY <1>1, <3>4, NoneIsNoTask DEF Served, OwnersServe, Tasks
    <3>6. \A x \in Owners : pc'[x] # "serving"
      BY <1>1, <2>1, <3>1, <3>5 DEF TypeOK, Tasks
    <3>7. Served'
      BY <3>1, <3>4, <3>6 DEF Served, OwnersServe, OneServerEach
    <3>. QED BY <3>1, <3>2, <3>3, <3>7, <1>1, Assemble DEF TypeOK, CountBelowStop
  <2>. QED BY <2>3, <2>4
<1>4. CASE AssignServer(t)
  <2>1. newest \in Servers /\ pc[t] # "serving" /\ ServeForever(t, newest)
    BY <1>1, <1>4 DEF AssignServer, At, TypeOK
  <2>2. ServersTyped' /\ Served'
    BY <1>1, <2>1, ServeTyped, ServeKeeps
  <2>3. /\ restart' \in BOOLEAN /\ gathered' \in BOOLEAN
        /\ count' \in 0 .. StopCount /\ count' < StopCount
    BY <1>1, <1>4, FlagsTyped DEF AssignServer
  <2>. QED BY <2>1, <2>2, <2>3, <1>1, <1>4, Assemble DEF AssignServer, TypeOK
<1>5. CASE Cancelled(t)
  <2>1. "restart" \in Points \ {"serving"} /\ pc[t] # "serving" /\ OutageUdp \in Nat
    BY <1>5, DoipConstants DEF Points, Cancelled, At
  <2>2. /\ pc' = [pc EXCEPT ![t] = "restart"]
        /\ timer' = [timer EXCEPT ![t] = OutageUdp]
        /\ UNCHANGED <<tcpServer, listening, newest, owner, restart, gathered,
                       count, udp, client, sent>>
    BY <1>5 DEF Cancelled, Sleep
  <2>3. Served'
    BY <1>1, <2>1, <2>2, MoveKeeps
  <2>4. ServersTyped'
    BY <1>1, <2>1, <2>2 DEF TypeOK, ServersTyped
  <2>. QED BY <2>2, <2>3, <2>4, <1>1, Assemble DEF TypeOK, CountBelowStop
<1>6. CASE RestartTcp(t)
  <2>1. "create" \in Points \ {"serving"} /\ pc[t] # "serving" /\ 0 \in Nat
    BY <1>6 DEF Points, RestartTcp, At
  <2>2. ServersTyped' /\ Served'
    <3>1. CASE tcpServer = 0
      <4>1. pc' = [pc EXCEPT ![t] = "create"] /\ UNCHANGED <<timer, listening, owner>>
        BY <1>6, <3>1 DEF RestartTcp, Goto
      <4>2. Served'
        BY <1>1, <2>1, <4>1, MoveKeeps
      <4>. QED BY <1>1, <2>1, <4>1, <4>2 DEF TypeOK, ServersTyped
    <3>2. CASE tcpServer # 0
      <4>1. tcpServer \in Servers /\ Close(tcpServer, t, "create", 0)
        BY <1>1, <1>6, <3>2 DEF RestartTcp, TypeOK
      <4>. QED BY <1>1, <2>1, <4>1, CloseTyped, CloseKeeps
    <3>. QED BY <3>1, <3>2
  <2>. QED BY <2>2, <1>1, <1>6, Assemble DEF RestartTcp, TypeOK, CountBelowStop
<1>. QED BY <1>2, <1>3, <1>4, <1>5, <1>6

-----------------------------------------------------------------------------
(***************************************************************************)
(* The other steps.                                                        *)
(***************************************************************************)

\* A coroutine that only moves on, and sleeps, keeps what concerns the servers.
LEMMA SleepKeeps ==
    ASSUME TypeOK, Served, NEW t \in Tasks, NEW p \in Points \ {"serving"},
           pc[t] # "serving", UNCHANGED <<owner, listening>>,
           Goto(t, p) \/ \E d \in Nat : Sleep(t, p, d)
    PROVE  ServersTyped' /\ Served'
<1>1. pc' = [pc EXCEPT ![t] = p]
  BY DEF Goto, Sleep
<1>2. timer' \in [Tasks -> Nat]
  BY DEF Goto, Sleep, TypeOK
<1>3. Served'
  BY <1>1, MoveKeeps
<1>. QED BY <1>1, <1>2, <1>3 DEF TypeOK, ServersTyped

\* The loop of run.
LEMMA RunKeeps ==
    ASSUME DoipInv, RunLoop PROVE DoipInv'
<1>1. TypeOK /\ Served /\ CountBelowStop /\ "run" \in Tasks
  BY DEF DoipInv, CountBelowStop, Tasks, Owners
<1>2. {"restart", "loop"} \subseteq Points \ {"serving"} /\ pc["run"] # "serving"
  BY DEF Points, RunLoop, At
<1>3. UNCHANGED <<tcpServer, listening, newest, owner, restart, gathered,
                  count, udp, client, sent>>
  BY DEF RunLoop
<1>4. ServersTyped' /\ Served'
  <2>1. CASE restart
    BY <2>1, <1>1, <1>2, <1>3, SleepKeeps DEF RunLoop
  <2>2. CASE ~restart
    BY <2>2, <1>1, <1>2, <1>3, SleepKeeps DEF RunLoop
  <2>. QED BY <2>1, <2>2
<1>. QED BY <1>1, <1>3, <1>4, Assemble DEF TypeOK, CountBelowStop

\* The sessions count long messages and close the server at the last.
LEMMA SessionKeeps ==
    ASSUME DoipInv, NEW s \in Sessions,
           Activate(s) \/ LongMessage(s) \/ SessionRestarts(s)
    PROVE  DoipInv'
<1>1. TypeOK /\ Served /\ CountBelowStop /\ s \in Tasks /\ s \in Owners
  BY DEF DoipInv, CountBelowStop, Tasks, Owners
<1>2. {"off", "stopped"} \subseteq Points \ {"serving"}
  BY DEF Points
<1>3. CASE Activate(s)
  <2>1. /\ UNCHANGED <<tcpServer, listening, newest, owner, restart, gathered,
                       count, udp, sent>>
        /\ pc[s] # "serving" /\ Goto(s, "off")
        /\ client' = [client EXCEPT ![s] = "answered"]
    BY <1>3 DEF Activate, At
  <2>2. ServersTyped' /\ Served'
    BY <1>1, <1>2, <2>1, SleepKeeps
  <2>. QED BY <1>1, <2>1, <2>2, Assemble DEF TypeOK, CountBelowStop
<1>4. CASE LongMessage(s)
  <2>1. /\ UNCHANGED <<tcpServer, newest, restart, gathered, udp, sent>>
        /\ pc[s] # "serving"
        /\ client' = [client EXCEPT ![s] = "none"]
    BY <1>4 DEF LongMessage, At
  <2>2. CASE count + 1 < StopCount
    <3>1. /\ UNCHANGED <<listening, owner>>
          /\ Goto(s, "off")
          /\ count' = count + 1
      BY <1>4, <2>2 DEF LongMessage
    <3>2. ServersTyped' /\ Served'
      BY <1>1, <1>2, <2>1, <3>1, SleepKeeps
    <3>3. count' \in 0 .. StopCount /\ count' < StopCount
      BY <1>1, <2>2, <3>1, DoipConstants DEF TypeOK
    <3>. QED BY <1>1, <2>1, <3>2, <3>3, Assemble DEF TypeOK
  <2>3. CASE ~(count + 1 < StopCount)
    <3>1. count' = 0 /\ 0 \in 0 .. StopCount /\ 0 < StopCount
      BY <1>4, <2>3, DoipConstants DEF LongMessage
    <3>2. ServersTyped' /\ Served'
      <4>1. CASE tcpServer = 0
        BY <1>1, <1>2, <1>4, <2>1, <2>3, <4>1, SleepKeeps DEF LongMessage
      <4>2. CASE tcpServer # 0
        <5>1. tcpServer \in Servers /\ (\/ Close(tcpServer, s, "stopped", OutageTcp)
                                       \/ Close(tcpServer, s, "off", 0))
          BY <1>1, <1>4, <2>3, <4>2 DEF LongMessage, TypeOK
        <5>2. OutageTcp \in Nat /\ 0 \in Nat
          BY DoipConstants
        <5>. QED BY <1>1, <1>2, <2>1, <5>1, <5>2, CloseTyped, CloseKeeps
      <4>. QED BY <4>1, <4>2
    <3>. QED BY <1>1, <2>1, <3>1, <3>2, Assemble DEF TypeOK
  <2>. QED BY <2>2, <2>3
<1>5. CASE SessionRestarts(s)
  <2>1. /\ UNCHANGED <<tcpServer, newest, gathered, count, udp, client, sent>>
        /\ pc[s] # "serving" /\ restart' = TRUE /\ EnterStart(s)
    BY <1>5 DEF SessionRestarts, At
  <2>2. ServersTyped' /\ Served'
    BY <1>1, <2>1, EnterStartKeeps
  <2>. QED BY <1>1, <2>1, <2>2, Assemble DEF TypeOK, CountBelowStop
<1>. QED BY <1>3, <1>4, <1>5

\* The handlers of datagrams count in the same variable.
LEMMA DatagramKeeps ==
    ASSUME DoipInv, NEW d \in Datagrams, UdpHandler(d) \/ UdpBind(d)
    PROVE  DoipInv'
<1>1. TypeOK /\ Served /\ CountBelowStop /\ d \in Tasks
  BY DEF DoipInv, CountBelowStop, Tasks
<1>2. {"off", "udpBind"} \subseteq Points \ {"serving"}
  BY DEF Points
<1>3. /\ UNCHANGED <<tcpServer, listening, newest, owner, restart, gathered,
                     client, sent>>
      /\ pc[d] # "serving"
  BY DEF UdpHandler, UdpBind, At
<1>4. OutageUdp \in Nat /\ StopCount \in Nat /\ 0 < StopCount /\ 0 \in 0 .. StopCount
  BY DoipConstants
<1>5. CASE UdpHandler(d)
  <2>1. CASE count + 1 < StopCount
    <3>1. ServersTyped' /\ Served'
      BY <1>1, <1>2, <1>3, <1>5, <2>1, SleepKeeps DEF UdpHandler
    <3>2. count' = count + 1 /\ udp' = udp
      BY <1>5, <2>1 DEF UdpHandler
    <3>3. count' \in 0 .. StopCount /\ count' < StopCount
      BY <1>1, <1>4, <2>1, <3>2 DEF TypeOK
    <3>. QED BY <1>1, <1>3, <3>1, <3>2, <3>3, Assemble DEF TypeOK
  <2>2. CASE ~(count + 1 < StopCount)
    <3>1. Sleep(d, "udpBind", OutageUdp) /\ count' = 0 /\ udp' = FALSE
      BY <1>5, <2>2 DEF UdpHandler
    <3>2. ServersTyped' /\ Served'
      BY <1>1, <1>2, <1>3, <1>4, <3>1, SleepKeeps
    <3>. QED BY <1>1, <1>3, <1>4, <3>1, <3>2, Assemble DEF TypeOK
  <2>. QED BY <2>1, <2>2
<1>6. CASE UdpBind(d)
  <2>1. Goto(d, "off") /\ udp' = TRUE /\ count' = IF udp THEN count ELSE 0
    BY <1>6 DEF UdpBind
  <2>2. ServersTyped' /\ Served'
    BY <1>1, <1>2, <1>3, <2>1, SleepKeeps
  <2>3. count' \in 0 .. StopCount /\ count' < StopCount
    BY <1>1, <1>4, <2>1 DEF TypeOK, CountBelowStop
  <2>. QED BY <1>1, <1>3, <2>1, <2>2, <2>3, Assemble DEF TypeOK
<1>. QED BY <1>5, <1>6

\* Clients connect and send; time passes.
LEMMA OutsideKeeps ==
    ASSUME DoipInv, Clients \/ Tick PROVE DoipInv'
<1>1. TypeOK /\ Served /\ CountBelowStop
  BY DEF DoipInv, CountBelowStop
<1>2. "read" \in Points \ {"serving"}
  BY DEF Points
<1>3. ASSUME NEW s \in Sessions, Connect(s) PROVE DoipInv'
  <2>1. /\ UNCHANGED <<tcpServer, listening, newest, owner, restart, gathered,
                       count, udp, sent>>
        /\ pc[s] # "serving" /\ Goto(s, "read") /\ s \in Tasks
        /\ client' = [client EXCEPT ![s] = "open"]
    BY <1>3 DEF Connect, Tasks, Owners
  <2>2. ServersTyped' /\ Served'
    BY <1>1, <1>2, <2>1, SleepKeeps
  <2>. QED BY <1>1, <2>1, <2>2, Assemble DEF TypeOK, CountBelowStop
<1>4. ASSUME NEW s \in Sessions, NEW how \in {"sentLong", "sentShort", "waits"},
             Send(s, how)
      PROVE  DoipInv'
  <2>1. /\ UNCHANGED <<tcpServer, listening, newest, owner, restart, gathered,
                       count, udp, pc, timer>>
        /\ client' = [client EXCEPT ![s] = how]
        /\ sent' = sent + 1 /\ sent < MaxMessages
    BY <1>4 DEF Send
  <2>2. ServersTyped' /\ Served'
    BY <1>1, <2>1 DEF TypeOK, ServersTyped, Served, OwnersServe, OneServerEach
  <2>3. sent' \in 0 .. MaxMessages
    BY <1>1, <2>1, DoipConstants DEF TypeOK
  <2>4. client' \in [Sessions -> {"none", "open", "sentLong", "sentShort",
                                  "waits", "answered"}]
    BY <1>1, <2>1 DEF TypeOK
  <2>. QED BY <1>1, <2>1, <2>2, <2>3, <2>4, Assemble DEF TypeOK, CountBelowStop
<1>5. ASSUME NEW d \in Datagrams, LongDatagram(d) PROVE DoipInv'
  <2>1. /\ UNCHANGED <<tcpServer, listening, newest, owner, restart, gathered,
                       count, udp, client>>
        /\ pc[d] # "serving" /\ Goto(d, "read") /\ d \in Tasks
        /\ sent' = sent + 1 /\ sent < MaxMessages
    BY <1>5 DEF LongDatagram, Tasks
  <2>2. ServersTyped' /\ Served'
    BY <1>1, <1>2, <2>1, SleepKeeps
  <2>3. sent' \in 0 .. MaxMessages
    BY <1>1, <2>1, DoipConstants DEF TypeOK
  <2>. QED BY <1>1, <2>1, <2>2, <2>3, Assemble DEF TypeOK, CountBelowStop
<1>6. CASE Tick
  <2>1. /\ UNCHANGED <<tcpServer, listening, newest, owner, restart, gathered,
                       count, udp, pc, client, sent>>
        /\ timer' = [t \in Tasks |-> IF timer[t] > 0 THEN timer[t] - 1 ELSE 0]
    BY <1>6 DEF Tick
  <2>2. timer' \in [Tasks -> Nat]
    BY <1>1, <2>1 DEF TypeOK
  <2>3. ServersTyped' /\ Served'
    BY <1>1, <2>1, <2>2
    DEF TypeOK, ServersTyped, Served, OwnersServe, OneServerEach
  <2>. QED BY <1>1, <2>1, <2>3, Assemble DEF TypeOK, CountBelowStop
<1>. QED BY <1>3, <1>4, <1>5, <1>6 DEF Clients

\* Every step keeps the invariant.
LEMMA DoipNext == DoipInv /\ [Next]_vars => DoipInv'
<1>. SUFFICES ASSUME DoipInv, [Next]_vars PROVE DoipInv'
  OBVIOUS
<1>1. CASE Clients \/ Tick
  BY <1>1, OutsideKeeps
<1>2. ASSUME NEW t \in Tasks, Coroutine(t) PROVE DoipInv'
  BY <1>2, OwnerKeeps, RunKeeps, SessionKeeps, DatagramKeeps DEF Coroutine
<1>3. CASE UNCHANGED vars
  BY <1>3
  DEF vars, DoipInv, CountBelowStop, TypeOK, Served, OwnersServe, OneServerEach
<1>. QED BY <1>1, <1>2, <1>3 DEF Next

-----------------------------------------------------------------------------
(***************************************************************************)
(* The theorems about the DoIP server.                                     *)
(***************************************************************************)

\* The invariant, whatever the clients send and however the coroutines meet.
THEOREM DoipInvariant == Spec => []DoipInv
BY DoipInit, DoipNext, PTL DEF Spec

\* `_should_stop_cnt` never reaches the number that the handlers compare it
\* with for equality, in whichever order sessions and datagrams count.
THEOREM DoipCountBelowStop == Spec => []CountBelowStop
<1>1. DoipInv => CountBelowStop
  BY DEF DoipInv
<1>. QED BY <1>1, DoipInvariant, PTL

-----------------------------------------------------------------------------
(***************************************************************************)
(* The server that listens.  A coroutine that has created a server has not *)
(* yet stored it: until then self.tcp_server is another one or None, so    *)
(* that nobody can close the new one, and nobody else can create a server, *)
(* since the port is taken.                                                *)
(***************************************************************************)
Entering == {t \in Owners : pc[t] = "enter"}

PortKept ==
    /\ listening \subseteq {newest}
    /\ \A t, u \in Entering : t = u
    /\ Entering # {} => newest \in listening /\ tcpServer # newest
    /\ Entering = {} => tcpServer \in {0, newest}
    /\ PortKnown

\* A step in which nobody creates a server or stores one, and none is closed but
\* that of self.tcp_server, which may be forgotten then.
LEMMA PortRests ==
    ASSUME PortKept, Entering' = Entering, newest' = newest, newest \in Servers,
           \/ listening' = listening /\ tcpServer' = tcpServer
           \/ listening' = listening \ {tcpServer} /\ tcpServer' \in {tcpServer, 0}
    PROVE  PortKept'
<1>1. PortKnown <=> \A s \in listening : s = tcpServer \/ (s = newest /\ Entering # {})
  BY DEF PortKnown, Entering
<1>2. PortKnown' <=> \A s \in listening' : s = tcpServer' \/ (s = newest' /\ Entering' # {})
  BY DEF PortKnown, Entering
<1>3. 0 \notin Servers
  BY DEF Servers
<1>4. PortKnown'
  BY <1>1, <1>2 DEF PortKept
<1>. QED
  BY <1>3, <1>4 DEF PortKept

\* A coroutine moves on, neither from nor to the point where it stores a server.
LEMMA MoveEnters ==
    ASSUME TypeOK, NEW t \in Tasks, NEW p, pc[t] # "enter", p # "enter",
           pc' = [pc EXCEPT ![t] = p]
    PROVE  Entering' = Entering
<1>1. \A x \in Owners : pc'[x] = "enter" <=> pc[x] = "enter"
  BY DEF TypeOK, Tasks
<1>. QED
  BY <1>1 DEF Entering

\* A close cancels a coroutine that serves, never one that is about to store a
\* server of its own.
LEMMA CloseEnters ==
    ASSUME TypeOK, Served, NEW s \in Servers, NEW t \in Tasks, NEW p, NEW d,
           p # "enter", Close(s, t, p, d)
    PROVE  Entering' = Entering \ {t}
<1>1. owner[s] # "none" => pc[owner[s]] = "serving"
  BY DEF Served, OwnersServe
<1>2. \A x \in Owners : pc'[x] = IF x = t THEN p
                                 ELSE IF x = owner[s] THEN "cancelled" ELSE pc[x]
  BY DEF Close, Tasks
<1>3. \A x \in Owners : x # "none"
  BY NoneIsNoTask DEF Tasks
<1>4. \A x \in Owners : pc'[x] = "enter" <=> (pc[x] = "enter" /\ x # t)
  BY <1>1, <1>2, <1>3
<1>. QED
  BY <1>4 DEF Entering

\* start_tcp_server up to its first await.
LEMMA StartEnters ==
    ASSUME TypeOK, Served, NEW t \in Owners, pc[t] # "enter", EnterStart(t)
    PROVE  /\ Entering' = Entering
           /\ listening' \in {listening, listening \ {tcpServer}}
<1>1. t \in Tasks /\ t \notin Entering /\ Resume(t) # "enter"
  BY DEF Tasks, Entering, Resume
<1>2. CASE tcpServer = 0
  BY <1>1, <1>2, MoveEnters DEF EnterStart, Goto
<1>3. CASE tcpServer # 0 /\ CanServe(tcpServer)
  BY <1>1, <1>3, MoveEnters DEF EnterStart, ServeForever, Goto
<1>4. CASE tcpServer # 0 /\ ~CanServe(tcpServer)
  <2>1. tcpServer \in Servers /\ Close(tcpServer, t, Resume(t), ResumeAfter(t))
    BY <1>4 DEF EnterStart, ServeForever, TypeOK
  <2>2. Entering' = Entering \ {t}
    BY <1>1, <2>1, CloseEnters
  <2>. QED
    BY <1>1, <2>1, <2>2 DEF Close
<1>. QED
  BY <1>2, <1>3, <1>4

LEMMA OwnerKeepsPort ==
    ASSUME DoipInv, PortKept, NEW t \in Owners,
           StartTcp(t) \/ CreateServer(t) \/ AssignServer(t) \/ Cancelled(t)
             \/ RestartTcp(t)
    PROVE  PortKept'
<1>1. TypeOK /\ Served /\ t \in Tasks /\ newest \in Servers
      /\ Resume(t) # "enter"
  BY DEF DoipInv, CountBelowStop, TypeOK, Tasks, Resume
<1>2. CASE StartTcp(t)
  <2>1. pc[t] # "enter" /\ EnterStart(t) /\ UNCHANGED <<tcpServer, newest>>
    BY <1>2 DEF StartTcp, At
  <2>. QED
    BY <1>1, <2>1, StartEnters, PortRests
<1>3. CASE CreateServer(t) /\ listening # {}
  <2>1. /\ pc[t] # "enter" /\ pc' = [pc EXCEPT ![t] = Resume(t)]
        /\ UNCHANGED <<tcpServer, newest, listening>>
    BY <1>3 DEF CreateServer, At, Sleep
  <2>. QED
    BY <1>1, <2>1, MoveEnters, PortRests
<1>4. CASE CreateServer(t) /\ listening = {}
  <2>1. /\ newest' = 3 - newest /\ listening' = {3 - newest} /\ tcpServer' = tcpServer
        /\ pc' = [pc EXCEPT ![t] = "enter"]
    BY <1>4 DEF CreateServer, Goto
  <2>2. Entering = {} /\ tcpServer \in {0, newest}
    BY <1>4 DEF PortKept
  <2>3. Entering' = {t}
    <3>1. \A x \in Owners : pc'[x] = "enter" <=> x = t
      BY <1>1, <2>1, <2>2 DEF TypeOK, Tasks, Entering
    <3>. QED
      BY <3>1 DEF Entering
  <2>4. tcpServer # 3 - newest
    BY <1>1, <2>2 DEF Servers
  <2>5. PortKnown'
    BY <2>1, <2>3 DEF PortKnown, Entering
  <2>. QED
    BY <2>1, <2>3, <2>4, <2>5 DEF PortKept
<1>5. CASE AssignServer(t)
  <2>1. /\ pc[t] = "enter" /\ tcpServer' = newest /\ newest' = newest
        /\ ServeForever(t, newest)
    BY <1>5 DEF AssignServer, At
  <2>2. t \in Entering
    BY <2>1 DEF Entering
  <2>3. Entering' = {} /\ listening' \subseteq {newest}
    <3>1. CASE CanServe(newest)
      <4>1. pc' = [pc EXCEPT ![t] = "serving"] /\ listening' = listening
        BY <2>1, <3>1 DEF ServeForever, Goto
      <4>2. \A x \in Owners : pc'[x] # "enter"
        BY <1>1, <2>2, <4>1 DEF PortKept, Entering, TypeOK, Tasks
      <4>. QED
        BY <4>1, <4>2 DEF PortKept, Entering
    <3>2. CASE ~CanServe(newest)
      <4>1. Close(newest, t, Resume(t), ResumeAfter(t))
        BY <2>1, <3>2 DEF ServeForever
      <4>2. Entering' = Entering \ {t}
        BY <1>1, <4>1, CloseEnters
      <4>. QED
        BY <2>2, <4>1, <4>2 DEF PortKept, Close
    <3>. QED
      BY <3>1, <3>2
  <2>. QED
    BY <2>1, <2>3 DEF PortKept, PortKnown
<1>6. CASE Cancelled(t)
  <2>1. /\ pc[t] # "enter" /\ pc' = [pc EXCEPT ![t] = "restart"]
        /\ UNCHANGED <<tcpServer, newest, listening>>
    BY <1>6 DEF Cancelled, At, Sleep
  <2>. QED
    BY <1>1, <2>1, MoveEnters, PortRests
<1>7. CASE RestartTcp(t)
  <2>1. pc[t] # "enter" /\ tcpServer' = 0 /\ newest' = newest /\ t \notin Entering
    BY <1>7 DEF RestartTcp, At, Entering
  <2>2. CASE tcpServer = 0
    <3>1. pc' = [pc EXCEPT ![t] = "create"] /\ listening' = listening
      BY <1>7, <2>2 DEF RestartTcp, Goto
    <3>. QED
      BY <1>1, <2>1, <2>2, <3>1, MoveEnters, PortRests
  <2>3. CASE tcpServer # 0
    <3>1. tcpServer \in Servers /\ Close(tcpServer, t, "create", 0)
      BY <1>1, <1>7, <2>3 DEF RestartTcp, TypeOK
    <3>2. Entering' = Entering \ {t}
      BY <1>1, <3>1, CloseEnters
    <3>3. listening' = listening \ {tcpServer}
      BY <3>1 DEF Close
    <3>. QED
      BY <1>1, <2>1, <3>2, <3>3, PortRests
  <2>. QED
    BY <2>2, <2>3
<1>. QED BY <1>2, <1>3, <1>4, <1>5, <1>6, <1>7

LEMMA SessionKeepsPort ==
    ASSUME DoipInv, PortKept, NEW s \in Sessions,
           Activate(s) \/ LongMessage(s) \/ SessionRestarts(s)
    PROVE  PortKept'
<1>1. TypeOK /\ Served /\ s \in Tasks /\ s \in Owners /\ newest \in Servers
  BY DEF DoipInv, CountBelowStop, TypeOK, Tasks, Owners
<1>2. pc[s] # "enter" /\ s \notin Entering /\ UNCHANGED <<tcpServer, newest>>
  BY DEF Activate, LongMessage, SessionRestarts, At, Entering
<1>3. CASE Activate(s)
  <2>1. pc' = [pc EXCEPT ![s] = "off"] /\ listening' = listening
    BY <1>3 DEF Activate, Goto
  <2>. QED
    BY <1>1, <1>2, <2>1, MoveEnters, PortRests
<1>4. CASE LongMessage(s)
  <2>1. CASE Goto(s, "off") /\ listening' = listening
    BY <1>1, <1>2, <2>1, MoveEnters, PortRests DEF Goto
  <2>2. CASE /\ tcpServer # 0
             /\ Close(tcpServer, s, "stopped", OutageTcp) \/ Close(tcpServer, s, "off", 0)
    <3>1. tcpServer \in Servers
      BY <1>1, <2>2 DEF TypeOK
    <3>2. Entering' = Entering \ {s}
      BY <1>1, <2>2, <3>1, CloseEnters
    <3>3. listening' = listening \ {tcpServer}
      BY <2>2 DEF Close
    <3>. QED
      BY <1>1, <1>2, <3>2, <3>3, PortRests
  <2>. QED
    BY <1>4, <2>1, <2>2 DEF LongMessage
<1>5. CASE SessionRestarts(s)
  BY <1>1, <1>2, <1>5, StartEnters, PortRests DEF SessionRestarts
<1>. QED BY <1>3, <1>4, <1>5

LEMMA PortNext == DoipInv /\ PortKept /\ [Next]_vars => PortKept'
<1>. SUFFICES ASSUME DoipInv, PortKept, [Next]_vars PROVE PortKept'
  OBVIOUS
<1>1. TypeOK /\ newest \in Servers
  BY DEF DoipInv, CountBelowStop, TypeOK
<1>2. CASE RunLoop
  <2>1. /\ pc["run"] # "enter" /\ "run" \in Tasks
        /\ pc' = [pc EXCEPT !["run"] = "restart"] \/ pc' = [pc EXCEPT !["run"] = "loop"]
        /\ UNCHANGED <<tcpServer, newest, listening>>
    BY <1>2 DEF RunLoop, At, Goto, Sleep, Tasks, Owners
  <2>. QED
    BY <1>1, <2>1, MoveEnters, PortRests
<1>3. ASSUME NEW d \in Datagrams, UdpHandler(d) \/ UdpBind(d) PROVE PortKept'
  <2>1. /\ pc[d] # "enter" /\ d \in Tasks
        /\ pc' = [pc EXCEPT ![d] = "off"] \/ pc' = [pc EXCEPT ![d] = "udpBind"]
        /\ UNCHANGED <<tcpServer, newest, listening>>
    BY <1>3 DEF UdpHandler, UdpBind, At, Goto, Sleep, Tasks
  <2>. QED
    BY <1>1, <2>1, MoveEnters, PortRests
<1>4. ASSUME NEW t \in Tasks, Coroutine(t) PROVE PortKept'
  BY <1>2, <1>3, <1>4, OwnerKeepsPort, SessionKeepsPort DEF Coroutine
<1>5. ASSUME NEW s \in Tasks, pc[s] = "off", Goto(s, "read"),
             UNCHANGED <<tcpServer, newest, listening>>
      PROVE  PortKept'
  BY <1>1, <1>5, MoveEnters, PortRests DEF Goto
<1>6. ASSUME UNCHANGED <<tcpServer, newest, listening, pc>> PROVE PortKept'
  <2>1. Entering' = Entering
    BY <1>6 DEF Entering
  <2>. QED
    BY <1>1, <1>6, <2>1, PortRests
<1>7. CASE Clients \/ Tick \/ UNCHANGED vars
  <2>1. ASSUME NEW s \in Sessions, Connect(s) PROVE PortKept'
    BY <2>1, <1>5 DEF Connect, Tasks, Owners
  <2>2. ASSUME NEW d \in Datagrams, LongDatagram(d) PROVE PortKept'
    BY <2>2, <1>5 DEF LongDatagram, Tasks
  <2>3. ASSUME NEW s \in Sessions, NEW how, Send(s, how) PROVE PortKept'
    BY <2>3, <1>6 DEF Send
  <2>4. CASE Tick \/ UNCHANGED vars
    BY <2>4, <1>6 DEF Tick, vars
  <2>. QED
    BY <1>7, <2>1, <2>2, <2>3, <2>4 DEF Clients
<1>. QED BY <1>4, <1>7 DEF Next

\* Between the first start and any number of overlapping outages no listening
\* server gets lost: it is in self.tcp_server or about to be stored there.
THEOREM DoipPortKnown == Spec => []PortKnown
<1>1. Init => PortKept
  BY DEF Init, PortKept, PortKnown, Entering, Owners, Tasks
<1>2. PortKept => PortKnown
  BY DEF PortKept
<1>. QED BY <1>1, <1>2, PortNext, DoipInvariant, PTL DEF Spec

-----------------------------------------------------------------------------
(***************************************************************************)
(* The vehicle task (Throttle): two threads share its attributes without a *)
(* lock.  An increment is stored before it is wrapped, so a value may      *)
(* exceed its modulus; the invariant says when, and that it leaves room    *)
(* for one more increment at every other time.                             *)
(***************************************************************************)
\* Inside the loop of reset the index is one of range(255).
SweepKept ==
    \A t \in Threads :
        at[t] \in {"sweepSpeed", "sweepRpm", "sweepSend"} => sweep[t] < SweepLen

\* Only between the two assignments of get_data to _speed is there no room for
\* the next increment, and what get_data has loaded fits where it stores it.
SpeedKept ==
    /\ speed <= ByteMax
    /\ at["periodic"] \notin {"modLoad", "modStore"} => speed + 1 <= ByteMax
    /\ at["periodic"] = "incStore" => tmp <= ByteMax
    /\ at["periodic"] = "modStore" => tmp + 1 <= ByteMax

\* The same of _rpm.
RpmKept ==
    /\ rpm <= WordMax
    /\ at["periodic"] \notin {"rpmModLoad", "rpmModStore"} => rpm + RpmStep <= WordMax
    /\ at["periodic"] = "rpmIncStore" => tmp <= WordMax
    /\ at["periodic"] = "rpmModStore" => tmp + RpmStep <= WordMax

VehicleInv == ThrottleTypeOK /\ SweepKept /\ SpeedKept /\ RpmKept

\* A remainder is below the modulus.
LEMMA ModRange ==
    ASSUME NEW a \in Nat, NEW b \in Nat \ {0} PROVE a % b \in 0 .. b - 1
OBVIOUS

\* No step of the sweep exceeds its last one.
LEMMA TimesGrows ==
    ASSUME NEW a \in Nat, NEW b \in Nat, NEW c \in Nat, a <= b PROVE a * c <= c * b
OBVIOUS

\* What leaves room for an increment fits.
LEMMA Below ==
    ASSUME NEW a \in Nat, NEW b \in Nat, NEW c \in Nat, a + c <= b PROVE a <= b
OBVIOUS

\* The task starts with both values zero.
LEMMA VehicleInit ==
    ASSUME ThrottleInit PROVE VehicleInv
<1>1. "idle" \in ThreadPoints /\ "mode1" \in Requests
  BY DEF ThreadPoints, Requests
<1>2. "periodic" \in Threads
  BY DEF Threads
<1>3. ThrottleTypeOK
  <2>1. 0 \in 0 .. SweepLen /\ 0 \in 0 .. MaxFrames
    BY ThrottleConstants
  <2>2. at \in [Threads -> ThreadPoints]
    BY <1>1 DEF ThrottleInit
  <2>3. sweep \in [Threads -> 0 .. SweepLen]
    BY <2>1 DEF ThrottleInit
  <2>. QED BY <1>1, <2>1, <2>2, <2>3 DEF ThrottleInit, ThrottleTypeOK
<1>4. SweepKept
  BY DEF ThrottleInit, SweepKept
<1>5. 1 <= ByteMax /\ RpmStep <= WordMax
  BY ThrottleConstants
<1>6. SpeedKept /\ RpmKept
  BY <1>2, <1>5, ThrottleConstants DEF ThrottleInit, SpeedKept, RpmKept
<1>. QED BY <1>3, <1>4, <1>6 DEF VehicleInv

\* reset, on either thread, at any point of the other one.
LEMMA ResetKeeps ==
    ASSUME VehicleInv,
           NEW t \in Threads, Reset(t)
    PROVE  VehicleInv'
<1>. USE DEF Step
<1>1. /\ SweepLen \in Nat \ {0} /\ SweepRpm \in Nat /\ RpmStep \in Nat
      /\ ByteMax \in Nat /\ WordMax \in Nat
      /\ SweepLen <= ByteMax /\ SweepRpm * (SweepLen - 1) + RpmStep <= WordMax
  BY ThrottleConstants
<1>2. /\ speed \in Nat /\ rpm \in Nat /\ tmp \in Nat
      /\ at \in [Threads -> ThreadPoints]
      /\ sweep \in [Threads -> 0 .. SweepLen]
      /\ request \in Requests /\ frames \in 0 .. MaxFrames
      /\ replied \in BOOLEAN /\ armed \in BOOLEAN
  BY DEF VehicleInv, ThrottleTypeOK
<1>3. SweepKept /\ SpeedKept /\ RpmKept
  BY DEF VehicleInv
<1>4. /\ {"zeroSpeed", "zeroRpm", "sweepSpeed", "sweepRpm", "sweepSend", "arm",
          "respond", "idle"} \subseteq ThreadPoints
      /\ "periodic" \in Threads
  BY DEF ThreadPoints, Threads
<1>5. PICK p \in {"zeroSpeed", "zeroRpm", "sweepSpeed", "sweepRpm", "sweepSend",
                  "arm", "respond", "idle"} : at' = [at EXCEPT ![t] = p]
  BY DEF Reset, Disarm, ZeroSpeed, ZeroRpm,
         SweepSpeed, SweepSetRpm, SweepSend, Arm
<1>6. /\ at[t] \in {"disarm", "zeroSpeed", "zeroRpm", "sweepSpeed", "sweepRpm",
                    "sweepSend", "arm"}
      /\ UNCHANGED <<tmp, request, frames, replied>>
  BY DEF Reset, Disarm, ZeroSpeed, ZeroRpm,
         SweepSpeed, SweepSetRpm, SweepSend, Arm
<1>7. /\ at' \in [Threads -> ThreadPoints]
      /\ \A x \in Threads : at'[x] = IF x = t THEN p ELSE at[x]
  BY <1>2, <1>4, <1>5
<1>8. /\ armed' \in BOOLEAN
  BY <1>2
  DEF Reset, Disarm, ZeroSpeed, ZeroRpm,
      SweepSpeed, SweepSetRpm, SweepSend, Arm
<1>9. sweep' \in [Threads -> 0 .. SweepLen] /\ SweepKept'
  <2>1. CASE ZeroRpm(t)
    <3>1. sweep' = [sweep EXCEPT ![t] = 0]
      BY <2>1 DEF ZeroRpm
    <3>. QED BY <3>1, <1>1, <1>2, <1>3, <1>7 DEF SweepKept
  <2>2. CASE SweepSend(t)
    <3>1. /\ sweep' = [sweep EXCEPT ![t] = sweep[t] + 1]
          /\ at' = [at EXCEPT ![t] = IF sweep[t] + 1 < SweepLen THEN "sweepSpeed" ELSE "arm"]
          /\ at[t] = "sweepSend"
      BY <2>2 DEF SweepSend
    <3>2. sweep[t] < SweepLen /\ sweep[t] \in Nat
      BY <3>1, <1>2, <1>3 DEF SweepKept
    <3>3. sweep[t] + 1 \in 0 .. SweepLen
      BY <3>2, <1>1
    <3>4. sweep' \in [Threads -> 0 .. SweepLen]
      BY <3>1, <3>3, <1>2
    <3>5. \A x \in Threads :
              /\ sweep'[x] = IF x = t THEN sweep[t] + 1 ELSE sweep[x]
              /\ at'[x] = IF x = t THEN IF sweep[t] + 1 < SweepLen THEN "sweepSpeed" ELSE "arm"
                          ELSE at[x]
      BY <3>1, <1>2
    <3>. QED BY <3>4, <3>5, <1>3 DEF SweepKept
  <2>3. CASE ~ZeroRpm(t) /\ ~SweepSend(t)
    <3>1. /\ sweep' = sweep
          /\ p \in {"sweepSpeed", "sweepRpm", "sweepSend"} =>
                at[t] \in {"sweepSpeed", "sweepRpm", "sweepSend"}
      <4>1. at'[t] = p
        BY <1>7
      <4>. QED
        BY <2>3, <4>1, <1>2
        DEF Reset, Disarm, ZeroSpeed, SweepSpeed,
            SweepSetRpm, Arm
    <3>. QED BY <3>1, <1>2, <1>3, <1>7 DEF SweepKept
  <2>. QED BY <2>1, <2>2, <2>3
<1>10. speed' \in Nat /\ (speed' = speed \/ speed' + 1 <= ByteMax)
  <2>1. CASE SweepSpeed(t)
    <3>1. speed' = sweep[t] /\ at[t] = "sweepSpeed"
      BY <2>1 DEF SweepSpeed
    <3>2. sweep[t] < SweepLen /\ sweep[t] \in Nat
      BY <3>1, <1>2, <1>3 DEF SweepKept
    <3>. QED BY <3>1, <3>2, <1>1
  <2>2. CASE ~SweepSpeed(t)
    <3>1. speed' = speed \/ speed' = 0
      BY <2>2
      DEF Reset, Disarm, ZeroSpeed, ZeroRpm,
          SweepSetRpm, SweepSend, Arm
    <3>. QED BY <3>1, <1>1, <1>2
  <2>. QED BY <2>1, <2>2
<1>11. rpm' \in Nat /\ (rpm' = rpm \/ rpm' + RpmStep <= WordMax)
  <2>1. CASE SweepSetRpm(t)
    <3>1. rpm' = sweep[t] * SweepRpm /\ at[t] = "sweepRpm"
      BY <2>1 DEF SweepSetRpm
    <3>2. sweep[t] <= SweepLen - 1 /\ sweep[t] \in Nat /\ SweepLen - 1 \in Nat
      BY <3>1, <1>1, <1>2, <1>3 DEF SweepKept
    <3>3. sweep[t] * SweepRpm <= SweepRpm * (SweepLen - 1)
      BY <3>2, <1>1, TimesGrows
    <3>4. sweep[t] * SweepRpm \in Nat /\ SweepRpm * (SweepLen - 1) \in Nat
      BY <3>2, <1>1
    <3>. QED BY <3>1, <3>3, <3>4, <1>1
  <2>2. CASE ~SweepSetRpm(t)
    <3>1. rpm' = rpm \/ rpm' = 0
      BY <2>2
      DEF Reset, Disarm, ZeroSpeed, ZeroRpm,
          SweepSpeed, SweepSend, Arm
    <3>2. RpmStep <= WordMax
      <4>1. SweepRpm * (SweepLen - 1) \in Nat
        BY <1>1
      <4>. QED BY <4>1, <1>1
    <3>. QED BY <3>1, <3>2, <1>1, <1>2
  <2>. QED BY <2>1, <2>2
<1>12. at'["periodic"] = at["periodic"]
       \/ (/\ at["periodic"] \notin {"modLoad", "modStore", "rpmModLoad", "rpmModStore"}
           /\ at'["periodic"] \notin {"incStore", "modLoad", "modStore", "rpmIncStore",
                                      "rpmModLoad", "rpmModStore"})
  BY <1>4, <1>6, <1>7
<1>13. SpeedKept'
  <2>1. /\ tmp' = tmp /\ tmp \in Nat /\ speed \in Nat /\ speed' \in Nat
        /\ ByteMax \in Nat /\ 1 \in Nat
    BY <1>1, <1>2, <1>6, <1>10
  <2>2. speed' <= ByteMax
    <3>1. speed <= ByteMax
      BY <1>3 DEF SpeedKept
    <3>2. CASE speed' = speed
      BY <3>1, <3>2
    <3>3. CASE speed' + 1 <= ByteMax
      BY <2>1, <3>3, Below, Zenon
    <3>. QED BY <3>2, <3>3, <1>10
  <2>3. at'["periodic"] \notin {"modLoad", "modStore"} => speed' + 1 <= ByteMax
    BY <2>1, <1>3, <1>10, <1>12 DEF SpeedKept
  <2>4. /\ at'["periodic"] = "incStore" => tmp' <= ByteMax
        /\ at'["periodic"] = "modStore" => tmp' + 1 <= ByteMax
    BY <2>1, <1>3, <1>12 DEF SpeedKept
  <2>. QED BY <2>2, <2>3, <2>4 DEF SpeedKept
<1>14. RpmKept'
  <2>1. /\ tmp' = tmp /\ tmp \in Nat /\ rpm \in Nat /\ rpm' \in Nat
        /\ WordMax \in Nat /\ RpmStep \in Nat
    BY <1>1, <1>2, <1>6, <1>11
  <2>2. rpm' <= WordMax
    <3>1. rpm <= WordMax
      BY <1>3 DEF RpmKept
    <3>2. CASE rpm' = rpm
      BY <3>1, <3>2
    <3>3. CASE rpm' + RpmStep <= WordMax
      BY <2>1, <3>3, Below, Zenon
    <3>. QED BY <3>2, <3>3, <1>11
  <2>3. at'["periodic"] \notin {"rpmModLoad", "rpmModStore"} => rpm' + RpmStep <= WordMax
    BY <2>1, <1>3, <1>11, <1>12 DEF RpmKept
  <2>4. /\ at'["periodic"] = "rpmIncStore" => tmp' <= WordMax
        /\ at'["periodic"] = "rpmModStore" => tmp' + RpmStep <= WordMax
    BY <2>1, <1>3, <1>12 DEF RpmKept
  <2>. QED BY <2>2, <2>3, <2>4 DEF RpmKept
<1>15. ThrottleTypeOK'
  BY <1>2, <1>6, <1>7, <1>8, <1>9, <1>10, <1>11 DEF ThrottleTypeOK
<1>. QED BY <1>9, <1>13, <1>14, <1>15 DEF VehicleInv

\* get_data: increment and wrap, with the other thread's stores in between.
LEMMA GetDataKeeps ==
    ASSUME VehicleInv,
           TestInit \/ IncSpeed \/ IncRpm \/ Broadcast
    PROVE  VehicleInv'
<1>. USE DEF Step
<1>1. /\ SpeedMod \in Nat \ {0} /\ RpmMod \in Nat \ {0} /\ RpmStep \in Nat
      /\ ByteMax \in Nat /\ WordMax \in Nat
      /\ SpeedMod <= ByteMax /\ RpmMod - 1 + RpmStep <= WordMax
  BY ThrottleConstants
<1>2. /\ speed \in Nat /\ rpm \in Nat /\ tmp \in Nat
      /\ at \in [Threads -> ThreadPoints]
      /\ sweep \in [Threads -> 0 .. SweepLen]
      /\ request \in Requests /\ frames \in 0 .. MaxFrames
      /\ replied \in BOOLEAN /\ armed \in BOOLEAN
  BY DEF VehicleInv, ThrottleTypeOK
<1>3. SweepKept /\ SpeedKept /\ RpmKept
  BY DEF VehicleInv
<1>4. "periodic" \in Threads
  BY DEF Threads
<1>5. speed % SpeedMod \in 0 .. SpeedMod - 1 /\ rpm % RpmMod \in 0 .. RpmMod - 1
  BY <1>1, <1>2, ModRange
<1>6. UNCHANGED <<sweep, request, frames, replied, armed>>
  BY DEF TestInit, IncSpeed, IncRpm, Broadcast,
         Load, StoreSpeed, StoreRpm
<1>7. ASSUME NEW p \in ThreadPoints \ {"sweepSpeed", "sweepRpm", "sweepSend"},
             at' = [at EXCEPT !["periodic"] = p],
             speed' \in Nat, rpm' \in Nat, tmp' \in Nat,
             SpeedKept', RpmKept'
      PROVE  VehicleInv'
  <2>1. at' \in [Threads -> ThreadPoints]
    BY <1>2, <1>7
  <2>2. SweepKept'
    BY <1>2, <1>3, <1>4, <1>6, <1>7 DEF SweepKept
  <2>. QED BY <2>1, <2>2, <1>2, <1>6, <1>7 DEF VehicleInv, ThrottleTypeOK
<1>8. {"incLoad", "disarm", "incStore", "modLoad", "modStore", "rpmIncLoad",
       "rpmIncStore", "rpmModLoad", "rpmModStore", "broadcast", "idle"}
        \subseteq ThreadPoints \ {"sweepSpeed", "sweepRpm", "sweepSend"}
  BY DEF ThreadPoints
<1>9. CASE TestInit \/ Broadcast
  <2>1. PICK p \in {"incLoad", "disarm", "idle"} : at' = [at EXCEPT !["periodic"] = p]
    BY <1>9 DEF TestInit, Broadcast
  <2>2. UNCHANGED <<speed, rpm, tmp>> /\ at["periodic"] \in {"idle", "broadcast"}
    BY <1>9 DEF TestInit, Broadcast
  <2>3. at'["periodic"] = p
    BY <2>1, <1>2, <1>4
  <2>4. SpeedKept' /\ RpmKept'
    BY <2>1, <2>2, <2>3, <1>3 DEF SpeedKept, RpmKept
  <2>. QED BY <2>1, <2>2, <2>4, <1>2, <1>7, <1>8
<1>10. CASE IncSpeed
  <2>1. CASE Load("incLoad", "incStore", speed + 1)
    <3>1. /\ at' = [at EXCEPT !["periodic"] = "incStore"]
          /\ at["periodic"] = "incLoad"
          /\ tmp' = speed + 1 /\ UNCHANGED <<speed, rpm>>
      BY <2>1 DEF Load
    <3>2. at'["periodic"] = "incStore"
      BY <3>1, <1>2, <1>4
    <3>3. SpeedKept' /\ RpmKept' /\ tmp' \in Nat
      BY <3>1, <3>2, <1>2, <1>3 DEF SpeedKept, RpmKept
    <3>. QED BY <3>1, <3>3, <1>2, <1>7, <1>8
  <2>2. CASE StoreSpeed("incStore", "modLoad")
    <3>1. /\ at' = [at EXCEPT !["periodic"] = "modLoad"]
          /\ at["periodic"] = "incStore"
          /\ speed' = tmp /\ UNCHANGED <<tmp, rpm>>
      BY <2>2 DEF StoreSpeed
    <3>2. at'["periodic"] = "modLoad"
      BY <3>1, <1>2, <1>4
    <3>3. SpeedKept' /\ RpmKept'
      BY <3>1, <3>2, <1>2, <1>3 DEF SpeedKept, RpmKept
    <3>. QED BY <3>1, <3>3, <1>2, <1>7, <1>8
  <2>3. CASE Load("modLoad", "modStore", speed % SpeedMod)
    <3>1. /\ at' = [at EXCEPT !["periodic"] = "modStore"]
          /\ at["periodic"] = "modLoad"
          /\ tmp' = speed % SpeedMod /\ UNCHANGED <<speed, rpm>>
      BY <2>3 DEF Load
    <3>2. at'["periodic"] = "modStore" /\ tmp' \in Nat /\ tmp' + 1 <= ByteMax
      BY <3>1, <1>1, <1>2, <1>4, <1>5
    <3>3. SpeedKept' /\ RpmKept'
      BY <3>1, <3>2, <1>2, <1>3 DEF SpeedKept, RpmKept
    <3>. QED BY <3>1, <3>2, <3>3, <1>2, <1>7, <1>8
  <2>4. CASE StoreSpeed("modStore", "rpmIncLoad")
    <3>1. /\ at' = [at EXCEPT !["periodic"] = "rpmIncLoad"]
          /\ at["periodic"] = "modStore"
          /\ speed' = tmp /\ UNCHANGED <<tmp, rpm>>
      BY <2>4 DEF StoreSpeed
    <3>2. at'["periodic"] = "rpmIncLoad"
      BY <3>1, <1>2, <1>4
    <3>3. SpeedKept' /\ RpmKept'
      BY <3>1, <3>2, <1>1, <1>2, <1>3 DEF SpeedKept, RpmKept
    <3>. QED BY <3>1, <3>3, <1>2, <1>7, <1>8
  <2>. QED BY <2>1, <2>2, <2>3, <2>4, <1>10 DEF IncSpeed
<1>11. CASE IncRpm
  <2>1. CASE Load("rpmIncLoad", "rpmIncStore", rpm + RpmStep)
    <3>1. /\ at' = [at EXCEPT !["periodic"] = "rpmIncStore"]
          /\ at["periodic"] = "rpmIncLoad"
          /\ tmp' = rpm + RpmStep /\ UNCHANGED <<speed, rpm>>
      BY <2>1 DEF Load
    <3>2. at'["periodic"] = "rpmIncStore" /\ tmp' \in Nat
      BY <3>1, <1>1, <1>2, <1>4
    <3>3. SpeedKept' /\ RpmKept'
      BY <3>1, <3>2, <1>2, <1>3 DEF SpeedKept, RpmKept
    <3>. QED BY <3>1, <3>2, <3>3, <1>2, <1>7, <1>8
  <2>2. CASE StoreRpm("rpmIncStore", "rpmModLoad")
    <3>1. /\ at' = [at EXCEPT !["periodic"] = "rpmModLoad"]
          /\ at["periodic"] = "rpmIncStore"
          /\ rpm' = tmp /\ UNCHANGED <<tmp, speed>>
      BY <2>2 DEF StoreRpm
    <3>2. at'["periodic"] = "rpmModLoad"
      BY <3>1, <1>2, <1>4
    <3>3. SpeedKept' /\ RpmKept'
      BY <3>1, <3>2, <1>2, <1>3 DEF SpeedKept, RpmKept
    <3>. QED BY <3>1, <3>3, <1>2, <1>7, <1>8
  <2>3. CASE Load("rpmModLoad", "rpmModStore", rpm % RpmMod)
    <3>1. /\ at' = [at EXCEPT !["periodic"] = "rpmModStore"]
          /\ at["periodic"] = "rpmModLoad"
          /\ tmp' = rpm % RpmMod /\ UNCHANGED <<speed, rpm>>
      BY <2>3 DEF Load
    <3>2. at'["periodic"] = "rpmModStore" /\ tmp' \in Nat /\ tmp' + RpmStep <= WordMax
      BY <3>1, <1>1, <1>2, <1>4, <1>5
    <3>3. SpeedKept' /\ RpmKept'
      BY <3>1, <3>2, <1>2, <1>3 DEF SpeedKept, RpmKept
    <3>. QED BY <3>1, <3>2, <3>3, <1>2, <1>7, <1>8
  <2>4. CASE StoreRpm("rpmModStore", "broadcast")
    <3>1. /\ at' = [at EXCEPT !["periodic"] = "broadcast"]
          /\ at["periodic"] = "rpmModStore"
          /\ rpm' = tmp /\ UNCHANGED <<tmp, speed>>
      BY <2>4 DEF StoreRpm
    <3>2. at'["periodic"] = "broadcast" /\ tmp <= WordMax
      BY <3>1, <1>1, <1>2, <1>3, <1>4 DEF RpmKept
    <3>3. SpeedKept' /\ RpmKept'
      BY <3>1, <3>2, <1>1, <1>2, <1>3 DEF SpeedKept, RpmKept
    <3>. QED BY <3>1, <3>3, <1>2, <1>7, <1>8
  <2>. QED BY <2>1, <2>2, <2>3, <2>4, <1>11 DEF IncRpm
<1>. QED BY <1>9, <1>10, <1>11

\* A request leaves the values alone; a short frame ends the thread.
LEMMA RequestKeeps ==
    ASSUME VehicleInv,
           Respond \/ \E r \in Requests : Receive(r)
    PROVE  VehicleInv'
<1>1. /\ at \in [Threads -> ThreadPoints]
      /\ frames \in 0 .. MaxFrames /\ MaxFrames \in Nat
      /\ request \in Requests
      /\ replied \in BOOLEAN
  BY ThrottleConstants DEF VehicleInv, ThrottleTypeOK
<1>2. /\ {"disarm", "dead", "idle"} \subseteq ThreadPoints
      /\ {"periodic", "notifier"} \subseteq Threads
  BY DEF ThreadPoints, Threads
<1>3. UNCHANGED <<speed, rpm, armed, sweep, tmp>>
  BY DEF Respond, Receive
<1>4. PICK p \in {"disarm", "dead", "idle"} : at' = [at EXCEPT !["notifier"] = p]
  BY DEF Respond, Receive, Step
<1>5. /\ frames' \in 0 .. MaxFrames
      /\ request' \in Requests
      /\ replied' \in BOOLEAN
  <2>1. CASE Respond
    BY <2>1, <1>1 DEF Respond
  <2>2. ASSUME NEW r \in Requests, Receive(r)
        PROVE  /\ frames' \in 0 .. MaxFrames
               /\ request' \in Requests
               /\ replied' \in BOOLEAN
    <3>1. /\ frames' = frames + 1 /\ frames < MaxFrames
          /\ request' = r /\ replied' = FALSE
      BY <2>2 DEF Receive
    <3>2. frames' \in 0 .. MaxFrames
      BY <3>1, <1>1
    <3>. QED BY <3>1, <3>2
  <2>. QED BY <2>1, <2>2
<1>6. /\ at' \in [Threads -> ThreadPoints]
      /\ at'["periodic"] = at["periodic"]
      /\ \A t \in Threads : at'[t] = IF t = "notifier" THEN p ELSE at[t]
  BY <1>1, <1>2, <1>4
<1>7. SweepKept' /\ SpeedKept' /\ RpmKept'
  BY <1>3, <1>4, <1>6 DEF VehicleInv, SweepKept, SpeedKept, RpmKept
<1>. QED BY <1>3, <1>5, <1>6, <1>7 DEF VehicleInv, ThrottleTypeOK

\* Whatever the two threads interleave, the values of a frame fit a byte and a
\* word: get_data and reset never make Message or to_bytes raise.
THEOREM VehicleValuesFit ==
    ThrottleSpec => []ValuesFit
<1>1. ThrottleInit => VehicleInv
  BY VehicleInit
<1>2. VehicleInv /\ [ThrottleNext]_(throttleVars) => VehicleInv'
  <2>1. SUFFICES ASSUME VehicleInv, [ThrottleNext]_(throttleVars) PROVE VehicleInv'
    OBVIOUS
  <2>2. CASE ThrottleNext
    BY <2>1, <2>2, ResetKeeps, GetDataKeeps, RequestKeeps DEF ThrottleNext
  <2>3. CASE UNCHANGED throttleVars
    BY <2>1, <2>3
    DEF throttleVars, VehicleInv, ThrottleTypeOK, SweepKept, SpeedKept, RpmKept
  <2>. QED BY <2>1, <2>2, <2>3
<1>3. VehicleInv => ValuesFit
  BY DEF VehicleInv, SpeedKept, RpmKept, ValuesFit
<1>. QED BY <1>1, <1>2, <1>3, PTL DEF ThrottleSpec

-----------------------------------------------------------------------------
(***************************************************************************)
(* The UDS simulator (UdsEcho), its responses: what is buffered, what was  *)
(* sent and the next sequence number stay in step.                         *)
(***************************************************************************)
\* The bytes add up, and while some are left _mf_seq is the number a receiver
\* expects next.  _push_consecutive_frames is in its loop only while bytes are
\* left, so no other response can replace the buffer under it.
BufferKept ==
    /\ mfRest \in Nat /\ mfSeq \in Nat
    /\ stream \in [size : Nat, got : Nat, frames : Nat, inOrder : BOOLEAN]
    /\ stream.got + mfRest = stream.size
    /\ stream.inOrder = TRUE
    /\ mfRest > 0 => mfSeq = 32 + ((stream.frames + 1) % 16)
    /\ pushing \in BOOLEAN
    /\ pushing => mfRest > 0

\* A size that the 12 bits of a First Frame can announce.
Fits(size) == size \in Nat /\ Announced(size) = size

\* Every handler answers with a payload of such a size, or not at all.
LEMMA SizeFits ==
    ASSUME VinLen \in Nat, VinLen + 3 <= 4095, NEW m
    PROVE  Fits(Outcome(m).size)
<1>1. Fits(3 + VinLen)
  BY DEF Fits, Announced
<1>2. /\ Fits(0) /\ Fits(1) /\ Fits(2) /\ Fits(3) /\ Fits(4)
      /\ Fits(5) /\ Fits(6) /\ Fits(7) /\ Fits(14)
  BY DEF Fits, Announced
<1>. USE <1>1, <1>2 DEF Nrc
<1>3. m.sid \in {1, 2, 3, 4, 7, 9, 10} => Fits(ObdSize(m))
  BY DEF ObdSize
<1>4. /\ Fits(SessionControl(m).size)
      /\ Fits(EcuReset(m).size)
      /\ Fits(SecurityAccess(m).size)
  BY DEF SessionControl, EcuReset, SecurityAccess
<1>5. Fits(ReadDtcSize(m)) /\ Fits(ReadDataSize(m))
  BY DEF ReadDtcSize, ReadDataSize
<1>6. /\ Fits(WriteDataSize(m)) /\ Fits(RoutineSize(m))
      /\ Fits(CommControlSize(m)) /\ Fits(DtcSettingsSize(m))
  BY DEF WriteDataSize, RoutineSize, CommControlSize, DtcSettingsSize
<1>. QED BY <1>3, <1>4, <1>5, <1>6 DEF Outcome

\* _isotp_send begins a new stream, whose announced size is the response's, or
\* leaves the old one alone.
LEMMA SendBegins ==
    ASSUME NEW size \in Nat, Fits(size), IsotpSend(size)
    PROVE  \/ UNCHANGED <<mfRest, mfSeq, stream>>
           \/ /\ size > 7 /\ mfRest' = size - 6 /\ mfSeq' = 33
              /\ stream' = [size |-> size, got |-> 6, frames |-> 0,
                            inOrder |-> TRUE]
<1>1. CASE size <= 7
  BY <1>1 DEF IsotpSend
<1>2. CASE ~(size <= 7)
  <2>1. mfRest' = size - 6 /\ mfSeq' = 33 /\ size > 7
    BY <1>2 DEF IsotpSend, FFBytes
  <2>2. stream' = [size |-> Announced(size), got |-> 6, frames |-> 0,
                   inOrder |-> TRUE]
    BY <1>2 DEF IsotpSend, FFBytes
  <2>3. Announced(size) = size
    BY DEF Fits
  <2>. QED BY <2>1, <2>2, <2>3
<1>. QED BY <1>1, <1>2

LEMMA SendKeeps ==
    ASSUME BufferKept, ~pushing, pushing' = pushing, NEW size \in Nat,
           \/ UNCHANGED <<mfRest, mfSeq, stream>>
           \/ /\ size > 7 /\ mfRest' = size - 6 /\ mfSeq' = 33
              /\ stream' = [size |-> size, got |-> 6, frames |-> 0,
                            inOrder |-> TRUE]
    PROVE  BufferKept'
<1>1. CASE UNCHANGED <<mfRest, mfSeq, stream>>
  BY <1>1 DEF BufferKept
<1>2. CASE /\ size > 7 /\ mfRest' = size - 6 /\ mfSeq' = 33
           /\ stream' = [size |-> size, got |-> 6, frames |-> 0, inOrder |-> TRUE]
  <2>1. /\ mfRest' = size - 6 /\ mfSeq' = 33
        /\ stream' = [size |-> size, got |-> 6, frames |-> 0, inOrder |-> TRUE]
    BY <1>2
  <2>2. mfRest' \in Nat /\ 6 + mfRest' = size
    BY <1>2, <2>1
  <2>3. /\ stream'.size = size /\ stream'.got = 6 /\ stream'.frames = 0
        /\ stream'.inOrder = TRUE
    BY <2>1
  <2>4. stream' \in [size : Nat, got : Nat, frames : Nat, inOrder : BOOLEAN]
    BY <2>1
  <2>5. mfSeq' = 32 + ((stream'.frames + 1) % 16) /\ mfSeq' \in Nat
    BY <2>1, <2>3
  <2>. QED BY <2>2, <2>3, <2>4, <2>5 DEF BufferKept
<1>. QED BY <1>1, <1>2

\* The sequence number counts on through the wrap from 0x2F to 0x20.
LEMMA SequenceCountsOn ==
    ASSUME NEW f \in Nat, NEW q, q = 32 + ((f + 1) % 16)
    PROVE  32 + (((q % 16) + 1) % 16) = 32 + ((f + 1 + 1) % 16)
OBVIOUS

\* One iteration of _push_consecutive_frames.
LEMMA PushKeeps ==
    ASSUME BufferKept, PushConsecutiveFrame PROVE BufferKept'
<1>. DEFINE bytes == IF mfRest < 7 THEN mfRest ELSE 7
<1>1. /\ pushing
      /\ mfRest' = mfRest - bytes
      /\ mfSeq' = 32 + (((mfSeq % 16) + 1) % 16)
      /\ pushing' = (mfRest' > 0)
      /\ stream' = [stream EXCEPT
             !.got = @ + bytes,
             !.frames = @ + 1,
             !.inOrder = @ /\ mfSeq = 32 + ((stream.frames + 1) % 16)]
  BY DEF PushConsecutiveFrame, CFBytes
<1>2. /\ mfRest \in Nat /\ mfRest > 0
      /\ mfSeq = 32 + ((stream.frames + 1) % 16)
      /\ stream \in [size : Nat, got : Nat, frames : Nat, inOrder : BOOLEAN]
      /\ stream.got + mfRest = stream.size /\ stream.inOrder = TRUE
  BY <1>1 DEF BufferKept
<1>3. bytes \in Nat /\ mfRest - bytes \in Nat
  BY <1>2
<1>4. /\ stream.size \in Nat /\ stream.got \in Nat /\ stream.frames \in Nat
  BY <1>2
<1>. HIDE DEF bytes
<1>5. stream' = [size |-> stream.size, got |-> stream.got + bytes,
                 frames |-> stream.frames + 1, inOrder |-> TRUE]
  BY <1>1, <1>2
<1>6. /\ stream'.size = stream.size /\ stream'.got = stream.got + bytes
      /\ stream'.frames = stream.frames + 1 /\ stream'.inOrder = TRUE
  BY <1>5
<1>7. stream' \in [size : Nat, got : Nat, frames : Nat, inOrder : BOOLEAN]
  BY <1>3, <1>4, <1>5
<1>8. (stream.got + bytes) + (mfRest - bytes) = stream.size
  BY <1>2, <1>3, <1>4
<1>9. mfSeq' = 32 + ((stream.frames + 1 + 1) % 16)
  BY <1>1, <1>2, <1>4, SequenceCountsOn
<1>10. 32 + ((stream.frames + 1 + 1) % 16) \in Nat
  BY <1>4
<1>11. pushing' \in BOOLEAN /\ (pushing' => mfRest' > 0)
  <2>1. pushing' = (mfRest' > 0)
    BY <1>1
  <2>2. pushing' => mfRest' > 0
    BY <2>1, Zenon
  <2>3. (mfRest' > 0) \in BOOLEAN
    BY <1>1, <1>3
  <2>. QED BY <2>1, <2>2, <2>3, Zenon
<1>. QED
  BY <1>1, <1>3, <1>6, <1>7, <1>8, <1>9, <1>10, <1>11 DEF BufferKept

\* A step of the simulator sends a response, goes on with the buffered one, or
\* leaves the buffer alone.
LEMMA StepOfBuffer ==
    ASSUME UdsNext
    PROVE  \/ UNCHANGED <<mfRest, mfSeq, stream, pushing>>
           \/ ~pushing /\ pushing' = pushing /\ \E m : IsotpSend(Outcome(m).size)
           \/ /\ UNCHANGED <<mfRest, mfSeq, stream>>
              /\ mfRest > 0 /\ pushing' = TRUE
           \/ PushConsecutiveFrame
<1>1. ASSUME NEW i \in RequestIds, NEW m \in Messages,
             SingleFrame(i, m) \/ FirstFrame(i, m)
      PROVE  \/ UNCHANGED <<mfRest, mfSeq, stream, pushing>>
             \/ ~pushing /\ pushing' = pushing /\ \E n : IsotpSend(Outcome(n).size)
  BY <1>1 DEF SingleFrame, FirstFrame, Ready, Lost, Dispatch,
              Reassemble
<1>2. ASSUME NEW i \in RequestIds, ConsecutiveFrame(i)
      PROVE  \/ UNCHANGED <<mfRest, mfSeq, stream, pushing>>
             \/ ~pushing /\ pushing' = pushing /\ \E n : IsotpSend(Outcome(n).size)
  BY <1>2 DEF ConsecutiveFrame, Lost, Dispatch, Reassemble
<1>3. ASSUME NEW i \in RequestIds, Abandon(i)
      PROVE  UNCHANGED <<mfRest, mfSeq, stream, pushing>>
  BY <1>3 DEF Abandon
<1>4. ASSUME NEW i \in RequestIds, FlowControl(i)
      PROVE  UNCHANGED <<mfRest, mfSeq, stream>> /\ mfRest > 0 /\ pushing' = TRUE
  BY <1>4 DEF FlowControl
<1>. QED BY <1>1, <1>2, <1>3, <1>4 DEF UdsNext

\* Whatever requests come in between First Frame and Flow Control, the frames
\* of _push_consecutive_frames continue the announced response without a gap.
THEOREM UdsStreamIntact ==
    UdsSpec => []StreamIntact
<1>1. ASSUME UdsInit PROVE BufferKept
  <2>1. /\ mfRest = 0 /\ mfSeq = 0 /\ pushing = FALSE
        /\ stream = [size |-> 0, got |-> 0, frames |-> 0, inOrder |-> TRUE]
    BY <1>1 DEF UdsInit
  <2>2. stream \in [size : Nat, got : Nat, frames : Nat, inOrder : BOOLEAN]
    BY <2>1
  <2>3. stream.got = 0 /\ stream.size = 0 /\ stream.inOrder = TRUE
    BY <2>1
  <2>4. pushing \in BOOLEAN /\ ~pushing
    BY <2>1
  <2>. QED BY <2>1, <2>2, <2>3, <2>4 DEF BufferKept
<1>2. BufferKept /\ [UdsNext]_(udsVars) => BufferKept'
  <2>1. SUFFICES ASSUME BufferKept, [UdsNext]_(udsVars) PROVE BufferKept'
    OBVIOUS
  <2>2. CASE UNCHANGED <<mfRest, mfSeq, stream, pushing>>
    BY <2>1, <2>2 DEF BufferKept
  <2>3. ASSUME ~pushing, pushing' = pushing, NEW m, IsotpSend(Outcome(m).size)
        PROVE  BufferKept'
    <3>1. VinLen \in Nat /\ VinLen + 3 <= 4095
      BY UdsConstants
    <3>2. Fits(Outcome(m).size)
      BY <3>1, SizeFits
    <3>. DEFINE size == Outcome(m).size
    <3>3. Fits(size) /\ IsotpSend(size)
      BY <2>3, <3>2
    <3>. HIDE DEF size
    <3>4. size \in Nat
      BY <3>3 DEF Fits
    <3>. QED BY <2>1, <2>3, <3>3, <3>4, SendBegins, SendKeeps, Zenon
  <2>4. CASE /\ UNCHANGED <<mfRest, mfSeq, stream>>
             /\ mfRest > 0 /\ pushing' = TRUE
    BY <2>1, <2>4 DEF BufferKept
  <2>5. CASE PushConsecutiveFrame
    BY <2>1, <2>5, PushKeeps
  <2>6. CASE UNCHANGED udsVars
    BY <2>2, <2>6 DEF udsVars
  <2>. QED BY <2>1, <2>2, <2>3, <2>4, <2>5, <2>6, StepOfBuffer
<1>3. BufferKept => StreamIntact
  BY DEF BufferKept, StreamIntact
<1>. QED BY <1>1, <1>2, <1>3, PTL DEF UdsSpec

-----------------------------------------------------------------------------
(***************************************************************************)
(* The requests it reassembles, with one tester on the bus.  The handler   *)
(* compares no sequence number: that a complete reassembly has every frame *)
(* in its place follows from counting.                                     *)
(***************************************************************************)
\* The tester of the bus has one request id.
OneTester == \A g, h \in RequestIds : g = h

Msg == [sid : Nat, sub : Nat, lo : Nat, len : Nat \ {0}]
Chunk == [id : RequestIds, no : Nat, k : Nat]
Rx == [on : BOOLEAN, total : Nat, chunks : Seq(Chunk), msg : Msg]

RequestTyped ==
    /\ tester \in [RequestIds -> [no : Nat, msg : Msg, k : Nat, done : BOOLEAN]]
    /\ rx \in Rx
    /\ headless \in BOOLEAN

\* A tester in the middle of a request has Consecutive Frames left to send.
TesterKept ==
    \A i \in RequestIds : tester[i].done = FALSE =>
        /\ tester[i].msg.len > 7
        /\ tester[i].k < CFsNeeded(tester[i].msg.len)

\* c holds frames of the current request of tester i, in the order of their
\* numbers: the frame in place j has at least number j - 1, and enough numbers
\* are left for the frames behind it.
InPlace(c, i, no, k) ==
    \A j \in 1 .. Len(c) :
        /\ c[j].id = i /\ c[j].no = no
        /\ c[j].k \in j - 1 .. k - (Len(c) - j)

\* While the tester is in the middle of a request, that is the request which is
\* pending, unless its First Frame was lost.
ChunksKept ==
    \A i \in RequestIds :
        (rx.on = TRUE /\ headless = FALSE /\ tester[i].done = FALSE) =>
            /\ rx.total = tester[i].msg.len
            /\ Len(rx.chunks) >= 1
            /\ InPlace(rx.chunks, i, tester[i].no, tester[i].k)

RequestInv ==
    /\ RequestTyped
    /\ TesterKept
    /\ ChunksKept
    /\ ReassembledIntact

\* Appending the next frame keeps the places.
LEMMA AppendInPlace ==
    ASSUME NEW c \in Seq(Chunk), Len(c) >= 1, NEW i \in RequestIds,
           NEW no \in Nat, NEW k \in Nat, InPlace(c, i, no, k)
    PROVE  LET e == [id |-> i, no |-> no, k |-> k + 1]
           IN  /\ Append(c, e) \in Seq(Chunk)
               /\ Len(Append(c, e)) = Len(c) + 1
               /\ InPlace(Append(c, e), i, no, k + 1)
<1>. DEFINE e == [id |-> i, no |-> no, k |-> k + 1]
<1>1. e \in Chunk /\ e.id = i /\ e.no = no /\ e.k = k + 1
  BY DEF Chunk
<1>. HIDE DEF e
<1>2. /\ Append(c, e) \in Seq(Chunk)
      /\ Len(Append(c, e)) = Len(c) + 1
      /\ Len(c) \in Nat
  BY <1>1
<1>3. \A j \in 1 .. Len(c) : Append(c, e)[j] = c[j]
  BY <1>1
<1>4. Append(c, e)[Len(c) + 1] = e
  BY <1>1
<1>5. Len(c) - 1 <= k
  <2>1. Len(c) \in 1 .. Len(c)
    BY <1>2
  <2>2. c[Len(c)].k \in Len(c) - 1 .. k - (Len(c) - Len(c))
    BY <2>1 DEF InPlace
  <2>. QED BY <2>2, <1>2
<1>6. ASSUME NEW j \in 1 .. Len(c) + 1
      PROVE  /\ Append(c, e)[j].id = i /\ Append(c, e)[j].no = no
             /\ Append(c, e)[j].k \in j - 1 .. k + 1 - (Len(c) + 1 - j)
  <2>1. CASE j \in 1 .. Len(c)
    <3>1. /\ c[j].id = i /\ c[j].no = no
          /\ c[j].k \in j - 1 .. k - (Len(c) - j)
      BY <2>1 DEF InPlace
    <3>. QED BY <2>1, <3>1, <1>2, <1>3
  <2>2. CASE j = Len(c) + 1
    BY <2>2, <1>1, <1>2, <1>4, <1>5
  <2>. QED BY <2>1, <2>2, <1>2
<1>7. InPlace(Append(c, e), i, no, k + 1)
  BY <1>2, <1>6 DEF InPlace
<1>. QED BY <1>2, <1>7 DEF e

\* More frames sent leave more room for the numbers.
LEMMA LaterInPlace ==
    ASSUME NEW c \in Seq(Chunk), NEW i \in RequestIds,
           NEW no \in Nat, NEW k \in Nat, InPlace(c, i, no, k)
    PROVE  InPlace(c, i, no, k + 1)
<1>1. Len(c) \in Nat
  OBVIOUS
<1>2. SUFFICES ASSUME NEW j \in 1 .. Len(c)
               PROVE  /\ c[j].id = i /\ c[j].no = no
                      /\ c[j].k \in j - 1 .. k + 1 - (Len(c) - j)
  BY DEF InPlace
<1>3. /\ c[j].id = i /\ c[j].no = no
      /\ c[j].k \in j - 1 .. k - (Len(c) - j)
  BY DEF InPlace
<1>. QED BY <1>1, <1>3

\* A reassembly with as many bytes as announced has all the frames there are,
\* and then every one is in its place.
LEMMA CompleteInPlace ==
    ASSUME NEW r \in Rx, NEW i \in RequestIds, NEW no \in Nat, NEW k \in Nat,
           Len(r.chunks) >= 1, InPlace(r.chunks, i, no, k),
           r.total > 7, k <= CFsNeeded(r.total), ~(RxBytes(r) < r.total)
    PROVE  LET c == r.chunks
           IN  /\ Len(c) = CFsNeeded(r.total) + 1
               /\ \A j \in 1 .. Len(c) :
                     c[j] = [id |-> c[1].id, no |-> c[1].no, k |-> j - 1]
<1>. DEFINE c == r.chunks
            K == CFsNeeded(r.total)
<1>1. /\ c \in Seq(Chunk) /\ Len(c) \in Nat /\ r.total \in Nat
      /\ RxBytes(r) = 6 + 7 * (Len(c) - 1)
      /\ K = (r.total - 6 + 7 - 1) \div 7
  BY DEF Rx, RxBytes, CFsNeeded, FFBytes, CFBytes
<1>2. K \in Nat /\ 7 * K <= r.total
  BY <1>1
<1>. HIDE DEF c, K
<1>3. Len(c) - 1 >= K
  BY <1>1, <1>2
<1>4. ASSUME NEW j \in 1 .. Len(c)
      PROVE  c[j].id = i /\ c[j].no = no /\ c[j].k = j - 1 /\ Len(c) - 1 <= K
  <2>1. /\ c[j].id = i /\ c[j].no = no
        /\ c[j].k \in j - 1 .. k - (Len(c) - j)
    BY DEF InPlace, c
  <2>2. c \in Seq(Chunk) /\ Len(c) \in Nat /\ K \in Nat /\ k <= K
    BY <1>1, <1>2 DEF K
  <2>3. c[j] \in Chunk
    BY <2>2
  <2>4. c[j].k \in Nat
    BY <2>3 DEF Chunk
  <2>5. c[j].k >= j - 1 /\ c[j].k <= k - (Len(c) - j)
    BY <2>1, <2>2, <2>4
  <2>6. c[j].k = j - 1 /\ Len(c) - 1 <= K
    BY <2>2, <2>4, <2>5, <1>3
  <2>. QED BY <2>1, <2>6
<1>5. 1 \in 1 .. Len(c)
  BY <1>1 DEF c
<1>6. Len(c) = K + 1
  BY <1>1, <1>2, <1>3, <1>4, <1>5
<1>7. \A j \in 1 .. Len(c) : c[j] = [id |-> c[1].id, no |-> c[1].no, k |-> j - 1]
  <2>1. TAKE j \in 1 .. Len(c)
  <2>2. c[j] \in Chunk
    BY <1>1
  <2>3. c[j] = [id |-> c[j].id, no |-> c[j].no, k |-> c[j].k]
    BY <2>2 DEF Chunk
  <2>. QED BY <2>3, <1>4, <1>5
<1>. QED BY <1>6, <1>7 DEF c, K

\* The record of a tester with a field replaced.
LEMMA TesterFields ==
    ASSUME NEW y \in [no : Nat, msg : Msg, k : Nat, done : BOOLEAN], NEW v, NEW w
    PROVE  /\ [y EXCEPT !.no = v] = [no |-> v, msg |-> y.msg, k |-> y.k, done |-> y.done]
           /\ [y EXCEPT !.done = w] = [no |-> y.no, msg |-> y.msg, k |-> y.k, done |-> w]
<1>1. [y EXCEPT !.no = v] = [no |-> v, msg |-> y.msg, k |-> y.k, done |-> y.done]
  OBVIOUS
<1>2. [y EXCEPT !.done = w] = [no |-> y.no, msg |-> y.msg, k |-> y.k, done |-> w]
  OBVIOUS
<1>. QED BY <1>1, <1>2

\* What a step does to one tester.
LEMMA TesterMoves ==
    ASSUME RequestTyped, NEW i \in RequestIds, NEW x,
           x \in [no : Nat, msg : Msg, k : Nat, done : BOOLEAN],
           tester' = [tester EXCEPT ![i] = x]
    PROVE  /\ tester' \in [RequestIds -> [no : Nat, msg : Msg, k : Nat, done : BOOLEAN]]
           /\ tester'[i] = x
           /\ \A h \in RequestIds : h # i => tester'[h] = tester[h]
BY DEF RequestTyped

\* What was handed on stays intact: a lost First Frame is never forgotten.
LEMMA DeliveredKept ==
    ASSUME ReassembledIntact, delivered' = delivered,
           headless' = headless \/ headless' = TRUE
    PROVE  ReassembledIntact'
<1>1. CASE headless' = headless
  BY <1>1 DEF ReassembledIntact, CFsNeeded, FFBytes, CFBytes
<1>2. CASE headless' = TRUE
  BY <1>2 DEF ReassembledIntact
<1>. QED BY <1>1, <1>2

\* A request in a single frame, and a request given up, leave the pending
\* reassembly alone; the tester is not in the middle of a request afterwards.
LEMMA RestingKeeps ==
    ASSUME RequestInv, NEW i \in RequestIds, NEW x,
           x \in [no : Nat, msg : Msg, k : Nat, done : BOOLEAN], x.done = TRUE,
           tester' = [tester EXCEPT ![i] = x],
           UNCHANGED <<rx, headless, delivered>>
    PROVE  RequestInv'
<1>1. /\ tester' \in [RequestIds -> [no : Nat, msg : Msg, k : Nat, done : BOOLEAN]]
      /\ tester'[i] = x
      /\ \A h \in RequestIds : h # i => tester'[h] = tester[h]
  BY TesterMoves DEF RequestInv
<1>2. RequestTyped'
  BY <1>1 DEF RequestInv, RequestTyped
<1>3. TesterKept'
  <2>1. SUFFICES ASSUME NEW h \in RequestIds, tester'[h].done = FALSE
                 PROVE  /\ tester'[h].msg.len > 7
                        /\ tester'[h].k < CFsNeeded(tester'[h].msg.len)
    BY DEF TesterKept, CFsNeeded, FFBytes, CFBytes
  <2>2. h # i
    BY <2>1, <1>1
  <2>. QED BY <2>1, <2>2, <1>1 DEF RequestInv, TesterKept
<1>4. ChunksKept'
  <2>1. SUFFICES ASSUME NEW h \in RequestIds, rx.on = TRUE, headless = FALSE,
                        tester'[h].done = FALSE
                 PROVE  /\ rx.total = tester'[h].msg.len
                        /\ Len(rx.chunks) >= 1
                        /\ InPlace(rx.chunks, h, tester'[h].no, tester'[h].k)
    BY DEF ChunksKept, InPlace
  <2>2. h # i
    BY <2>1, <1>1
  <2>. QED BY <2>1, <2>2, <1>1 DEF RequestInv, ChunksKept
<1>5. ReassembledIntact'
  BY DeliveredKept DEF RequestInv
<1>. QED BY <1>2, <1>3, <1>4, <1>5 DEF RequestInv

\* A First Frame begins a reassembly of its own, or is lost.
LEMMA FirstFrameKeeps ==
    ASSUME RequestInv, OneTester,
           Messages \subseteq Msg, NEW i \in RequestIds, NEW m \in Messages,
           FirstFrame(i, m)
    PROVE  RequestInv'
<1>. DEFINE x == [no |-> tester[i].no + 1, msg |-> m, k |-> 0, done |-> FALSE]
            e == [id |-> i, no |-> tester[i].no + 1, k |-> 0]
            r == [on |-> TRUE, total |-> m.len, msg |-> m, chunks |-> <<e>>]
<1>1. /\ m \in Msg /\ m.len \in Nat /\ m.len > 7
      /\ tester[i].no \in Nat
      /\ rx \in Rx /\ headless \in BOOLEAN
  BY DEF FirstFrame, Msg, RequestInv, RequestTyped
<1>2. /\ x \in [no : Nat, msg : Msg, k : Nat, done : BOOLEAN]
      /\ tester' = [tester EXCEPT ![i] = x]
  BY <1>1 DEF FirstFrame, RequestInv, RequestTyped
<1>3. /\ tester' \in [RequestIds -> [no : Nat, msg : Msg, k : Nat, done : BOOLEAN]]
      /\ tester'[i] = x
  BY <1>2, TesterMoves DEF RequestInv
<1>4. \A h \in RequestIds : h = i /\ tester'[h] = x
  BY <1>3 DEF OneTester
<1>5. TesterKept'
  <2>1. 0 < (m.len - 6 + 7 - 1) \div 7
    BY <1>1
  <2>. QED BY <2>1, <1>1, <1>4 DEF TesterKept, CFsNeeded, FFBytes, CFBytes
<1>6. CASE headless' = TRUE /\ UNCHANGED <<rx, delivered>>
  <2>1. RequestTyped'
    BY <1>1, <1>3, <1>6 DEF RequestTyped
  <2>2. ChunksKept'
    BY <1>6 DEF ChunksKept
  <2>3. ReassembledIntact'
    BY <1>6, DeliveredKept DEF RequestInv
  <2>. QED BY <2>1, <2>2, <2>3, <1>5 DEF RequestInv
<1>7. CASE Reassemble(r) /\ UNCHANGED headless
  <2>1. e \in Chunk /\ <<e>> \in Seq(Chunk) /\ Len(<<e>>) = 1 /\ <<e>>[1] = e
    BY <1>1 DEF Chunk
  <2>2. r.chunks = <<e>> /\ r.total = m.len /\ r.on = TRUE
    OBVIOUS
  <2>3. r \in Rx
    BY <2>1, <1>1 DEF Rx
  <2>4. RxBytes(r) < r.total
    <3>1. RxBytes(r) = 6 + 7 * (1 - 1)
      BY <2>1, <2>2 DEF RxBytes, FFBytes, CFBytes
    <3>. QED BY <3>1, <2>2, <1>1
  <2>5. rx' = r /\ delivered' = delivered
    BY <1>7, <2>4 DEF Reassemble
  <2>6. RequestTyped'
    BY <1>1, <1>3, <1>7, <2>3, <2>5 DEF RequestTyped
  <2>7. InPlace(<<e>>, i, x.no, x.k)
    <3>1. e.id = i /\ e.no = x.no /\ e.k = 0 /\ x.k = 0
      OBVIOUS
    <3>. QED BY <2>1, <3>1 DEF InPlace
  <2>8. ChunksKept'
    BY <2>1, <2>2, <2>5, <2>7, <1>4 DEF ChunksKept, InPlace
  <2>9. ReassembledIntact'
    BY <1>7, <2>5, DeliveredKept DEF RequestInv
  <2>. QED BY <2>6, <2>8, <2>9, <1>5 DEF RequestInv
<1>. QED BY <1>6, <1>7 DEF FirstFrame, Lost

\* A Consecutive Frame is lost, ignored, appended, or completes the request.
LEMMA ConsecutiveKeeps ==
    ASSUME RequestInv, OneTester,
           NEW i \in RequestIds, ConsecutiveFrame(i)
    PROVE  RequestInv'
<1>. DEFINE y == tester[i]
            K == CFsNeeded(tester[i].msg.len)
            x == [no |-> y.no, msg |-> y.msg, k |-> y.k + 1, done |-> (y.k + 1 = K)]
<1>1. /\ y \in [no : Nat, msg : Msg, k : Nat, done : BOOLEAN]
      /\ rx \in Rx /\ headless \in BOOLEAN
  BY DEF RequestInv, RequestTyped
<1>2. y.no \in Nat /\ y.k \in Nat /\ y.msg \in Msg /\ y.msg.len \in Nat
  BY <1>1 DEF Msg
<1>3. y.done = FALSE
  BY <1>1 DEF ConsecutiveFrame
<1>4. y.msg.len > 7 /\ y.k < K
  BY <1>3 DEF RequestInv, TesterKept
<1>5. K \in Nat
  BY <1>2, <1>4 DEF CFsNeeded, FFBytes, CFBytes
<1>6. /\ x \in [no : Nat, msg : Msg, k : Nat, done : BOOLEAN]
      /\ tester' = [tester EXCEPT ![i] = x]
  <2>1. x \in [no : Nat, msg : Msg, k : Nat, done : BOOLEAN]
    BY <1>2
  <2>2. tester' = [tester EXCEPT ![i].k = y.k + 1, ![i].done = (y.k + 1 = K)]
    BY DEF ConsecutiveFrame
  <2>3. tester' = [tester EXCEPT ![i] = [y EXCEPT !.k = y.k + 1, !.done = (y.k + 1 = K)]]
    BY <2>2
  <2>4. [y EXCEPT !.k = y.k + 1, !.done = (y.k + 1 = K)] = x
    <3>. DEFINE v == y.k + 1
                w == (y.k + 1 = K)
    <3>. HIDE DEF v, w, K, y
    <3>1. [y EXCEPT !.k = v, !.done = w]
            = [no |-> y.no, msg |-> y.msg, k |-> v, done |-> w]
      <4>1. [y EXCEPT !.k = v] = [no |-> y.no, msg |-> y.msg, k |-> v, done |-> y.done]
        BY <1>1
      <4>2. [y EXCEPT !.k = v, !.done = w] = [[y EXCEPT !.k = v] EXCEPT !.done = w]
        OBVIOUS
      <4>3. [[no |-> y.no, msg |-> y.msg, k |-> v, done |-> y.done] EXCEPT !.done = w]
              = [no |-> y.no, msg |-> y.msg, k |-> v, done |-> w]
        OBVIOUS
      <4>. QED BY <4>1, <4>2, <4>3
    <3>. QED BY <3>1 DEF v, w
  <2>. QED BY <2>1, <2>3, <2>4
<1>7. /\ tester' \in [RequestIds -> [no : Nat, msg : Msg, k : Nat, done : BOOLEAN]]
      /\ tester'[i] = x
  BY <1>6, TesterMoves DEF RequestInv
<1>8. \A h \in RequestIds : h = i /\ tester'[h] = x
  BY <1>7 DEF OneTester
<1>9. x.no = y.no /\ x.msg = y.msg /\ x.k = y.k + 1 /\ x.done = (y.k + 1 = K)
  OBVIOUS
<1>10. K = CFsNeeded(y.msg.len)
  OBVIOUS
<1>. HIDE DEF x, y, K
<1>11. TesterKept'
  <2>1. SUFFICES ASSUME x.done = FALSE
                 PROVE  x.msg.len > 7 /\ x.k < CFsNeeded(x.msg.len)
    BY <1>8 DEF TesterKept, CFsNeeded, FFBytes, CFBytes
  <2>2. y.k + 1 # K
    BY <2>1, <1>9
  <2>. QED BY <2>2, <1>2, <1>4, <1>5, <1>9, <1>10
<1>12. CASE UNCHANGED <<rx, delivered, headless>>
  <2>1. RequestTyped'
    BY <1>1, <1>7, <1>12 DEF RequestTyped
  <2>2. ChunksKept'
    <3>1. SUFFICES ASSUME rx.on = TRUE, headless = FALSE
                   PROVE  /\ rx.total = x.msg.len
                          /\ Len(rx.chunks) >= 1
                          /\ InPlace(rx.chunks, i, x.no, x.k)
      BY <1>8, <1>12 DEF ChunksKept, InPlace
    <3>2. /\ rx.total = y.msg.len /\ Len(rx.chunks) >= 1
          /\ InPlace(rx.chunks, i, y.no, y.k)
      BY <3>1, <1>3 DEF RequestInv, ChunksKept, y
    <3>3. rx.chunks \in Seq(Chunk)
      BY <1>1 DEF Rx
    <3>4. InPlace(rx.chunks, i, y.no, y.k + 1)
      BY <3>2, <3>3, <1>2, LaterInPlace
    <3>. QED BY <3>2, <3>4, <1>9
  <2>3. ReassembledIntact'
    BY <1>12, DeliveredKept DEF RequestInv
  <2>. QED BY <2>1, <2>2, <2>3, <1>11 DEF RequestInv
<1>13. ASSUME rx.on = TRUE, headless' = headless,
              Reassemble([rx EXCEPT !.chunks =
                  Append(@, [id |-> i, no |-> y.no, k |-> y.k + 1])])
       PROVE  RequestInv'
  <2>. DEFINE e == [id |-> i, no |-> y.no, k |-> y.k + 1]
              r == [rx EXCEPT !.chunks = Append(@, e)]
  <2>1. e \in Chunk /\ rx.chunks \in Seq(Chunk)
    BY <1>1, <1>2 DEF Chunk, Rx
  <2>2. /\ r \in Rx /\ r.on = TRUE /\ r.total = rx.total
        /\ r.chunks = Append(rx.chunks, e)
    <3>1. Append(rx.chunks, e) \in Seq(Chunk)
      BY <2>1
    <3>. HIDE DEF e
    <3>. QED BY <3>1, <1>1, <1>13 DEF Rx
  <2>3. ASSUME headless = FALSE
        PROVE  /\ r.total = y.msg.len
               /\ Len(r.chunks) >= 1
               /\ InPlace(r.chunks, i, y.no, y.k + 1)
    <3>1. /\ rx.total = y.msg.len /\ Len(rx.chunks) >= 1
          /\ InPlace(rx.chunks, i, y.no, y.k)
      BY <2>3, <1>3, <1>13 DEF RequestInv, ChunksKept, y
    <3>2. /\ Len(Append(rx.chunks, e)) = Len(rx.chunks) + 1
          /\ InPlace(Append(rx.chunks, e), i, y.no, y.k + 1)
      BY <2>1, <3>1, <1>2, AppendInPlace
    <3>3. Len(rx.chunks) \in Nat
      BY <2>1
    <3>. QED BY <2>2, <3>1, <3>2, <3>3
  <2>. HIDE DEF e, r
  <2>4. Reassemble(r)
    BY <1>13 DEF r, e
  <2>5. CASE RxBytes(r) < r.total
    <3>1. rx' = r /\ delivered' = delivered
      BY <2>4, <2>5 DEF Reassemble
    <3>2. RequestTyped'
      BY <3>1, <2>2, <1>1, <1>7, <1>13 DEF RequestTyped
    <3>3. ChunksKept'
      BY <3>1, <2>3, <1>8, <1>9, <1>13 DEF ChunksKept, InPlace
    <3>4. ReassembledIntact'
      BY <3>1, <1>13, DeliveredKept DEF RequestInv
    <3>. QED BY <3>2, <3>3, <3>4, <1>11 DEF RequestInv
  <2>6. CASE ~(RxBytes(r) < r.total)
    <3>1. rx' = NoRx /\ delivered' = r
      BY <2>4, <2>6 DEF Reassemble
    <3>2. NoRx \in Rx /\ NoRx.on = FALSE
      BY DEF NoRx, Idle, Rx, Msg
    <3>3. RequestTyped'
      BY <3>1, <3>2, <1>1, <1>7, <1>13 DEF RequestTyped
    <3>4. ChunksKept'
      BY <3>1, <3>2 DEF ChunksKept
    <3>5. ASSUME headless = FALSE
          PROVE  LET c == r.chunks
                 IN  /\ Len(c) = CFsNeeded(r.total) + 1
                     /\ \A j \in 1 .. Len(c) :
                           c[j] = [id |-> c[1].id, no |-> c[1].no, k |-> j - 1]
      <4>1. /\ r.total = y.msg.len
            /\ Len(r.chunks) >= 1
            /\ InPlace(r.chunks, i, y.no, y.k + 1)
        BY <3>5, <2>3
      <4>2. /\ r.total > 7 /\ y.k + 1 <= CFsNeeded(r.total)
            /\ y.k + 1 \in Nat
        BY <4>1, <1>2, <1>4, <1>5, <1>10
      <4>. QED BY <4>1, <4>2, <2>2, <2>6, <1>2, CompleteInPlace
    <3>6. ReassembledIntact'
      BY <3>1, <3>5, <1>1, <1>13
      DEF ReassembledIntact, CFsNeeded, FFBytes, CFBytes
    <3>. QED BY <3>3, <3>4, <3>6, <1>11 DEF RequestInv
  <2>. QED BY <2>5, <2>6
<1>14. UNCHANGED <<rx, delivered, headless>>
       \/ (/\ rx.on = TRUE /\ headless' = headless
           /\ Reassemble([rx EXCEPT !.chunks =
                  Append(@, [id |-> i, no |-> y.no, k |-> y.k + 1])]))
  BY <1>1 DEF ConsecutiveFrame, Lost, y, Rx
<1>. QED BY <1>12, <1>13, <1>14

\* README.md: ISO-TP multi-frame reception is supported.  With one tester, a
\* request that is handed on has all its frames in order until a First Frame
\* has been lost, for any number and length of requests and any lost frames.
THEOREM UdsReassembledIntact ==
    ASSUME OneTester
    PROVE  UdsSpec => []ReassembledIntact
<1>1. ASSUME UdsInit PROVE RequestInv
  <2>1. /\ tester = [i \in RequestIds |-> Idle]
        /\ rx = NoRx /\ delivered = NoRx /\ headless = FALSE
    BY <1>1 DEF UdsInit
  <2>2. /\ Idle \in [no : Nat, msg : Msg, k : Nat, done : BOOLEAN]
        /\ Idle.done = TRUE
    BY DEF Idle, Msg
  <2>3. NoRx \in Rx /\ NoRx.on = FALSE
    BY DEF NoRx, Idle, Rx, Msg
  <2>4. RequestTyped
    BY <2>1, <2>2, <2>3 DEF RequestTyped
  <2>5. TesterKept
    BY <2>1, <2>2 DEF TesterKept
  <2>6. ChunksKept
    BY <2>1, <2>3 DEF ChunksKept
  <2>7. ReassembledIntact
    BY <2>1, <2>3 DEF ReassembledIntact
  <2>. QED BY <2>4, <2>5, <2>6, <2>7 DEF RequestInv
<1>2. RequestInv /\ [UdsNext]_(udsVars) => RequestInv'
  <2>1. SUFFICES ASSUME RequestInv, [UdsNext]_(udsVars) PROVE RequestInv'
    OBVIOUS
  <2>2. Messages \subseteq Msg
    BY UdsConstants DEF Msg
  <2>3. ASSUME NEW i \in RequestIds
        PROVE  /\ tester[i] \in [no : Nat, msg : Msg, k : Nat, done : BOOLEAN]
               /\ tester \in [RequestIds -> [no : Nat, msg : Msg, k : Nat, done : BOOLEAN]]
    BY <2>1 DEF RequestInv, RequestTyped
  <2>4. ASSUME NEW i \in RequestIds, NEW m \in Messages, SingleFrame(i, m)
        PROVE  RequestInv'
    <3>. DEFINE x == [no |-> tester[i].no + 1, msg |-> tester[i].msg,
                      k |-> tester[i].k, done |-> TRUE]
    <3>1. tester[i].done = TRUE
      BY <2>3, <2>4 DEF SingleFrame, Ready
    <3>2. tester' = [tester EXCEPT ![i] = x]
      <4>1. tester' = [tester EXCEPT ![i].no = tester[i].no + 1]
        BY <2>4 DEF SingleFrame
      <4>2. tester' = [tester EXCEPT ![i] = [tester[i] EXCEPT !.no = tester[i].no + 1]]
        BY <4>1
      <4>3. [tester[i] EXCEPT !.no = tester[i].no + 1] = x
        BY <3>1, <2>3, TesterFields, Zenon
      <4>. QED BY <4>2, <4>3
    <3>3. x \in [no : Nat, msg : Msg, k : Nat, done : BOOLEAN] /\ x.done = TRUE
      BY <2>3
    <3>4. UNCHANGED <<rx, headless, delivered>>
      BY <2>4 DEF SingleFrame, Lost
    <3>. QED BY <2>1, <3>2, <3>3, <3>4, RestingKeeps
  <2>5. ASSUME NEW i \in RequestIds, Abandon(i)
        PROVE  RequestInv'
    <3>. DEFINE x == [no |-> tester[i].no, msg |-> tester[i].msg,
                      k |-> tester[i].k, done |-> TRUE]
    <3>1. tester' = [tester EXCEPT ![i] = x]
      <4>1. tester' = [tester EXCEPT ![i].done = TRUE]
        BY <2>5 DEF Abandon
      <4>2. tester' = [tester EXCEPT ![i] = [tester[i] EXCEPT !.done = TRUE]]
        BY <4>1
      <4>3. [tester[i] EXCEPT !.done = TRUE] = x
        BY <2>3, TesterFields, Zenon
      <4>. QED BY <4>2, <4>3
    <3>2. x \in [no : Nat, msg : Msg, k : Nat, done : BOOLEAN] /\ x.done = TRUE
      BY <2>3
    <3>3. UNCHANGED <<rx, headless, delivered>>
      BY <2>5 DEF Abandon
    <3>. QED BY <2>1, <3>1, <3>2, <3>3, RestingKeeps
  <2>6. CASE UNCHANGED <<tester, rx, headless, delivered>>
    <3>1. ReassembledIntact'
      BY <2>1, <2>6, DeliveredKept DEF RequestInv
    <3>2. RequestTyped' /\ TesterKept' /\ ChunksKept'
      BY <2>1, <2>6
      DEF RequestInv, RequestTyped, TesterKept, ChunksKept, InPlace,
          CFsNeeded, FFBytes, CFBytes
    <3>. QED BY <3>1, <3>2 DEF RequestInv
  <2>7. ASSUME NEW i \in RequestIds, FlowControl(i)
        PROVE  UNCHANGED <<tester, rx, headless, delivered>>
    BY <2>7 DEF FlowControl
  <2>8. ASSUME PushConsecutiveFrame
        PROVE  UNCHANGED <<tester, rx, headless, delivered>>
    BY <2>8 DEF PushConsecutiveFrame
  <2>9. CASE UNCHANGED udsVars
    BY <2>6, <2>9 DEF udsVars
  <2>10. CASE UdsNext
    BY <2>1, <2>2, <2>4, <2>5, <2>6, <2>7, <2>8, <2>10, FirstFrameKeeps,
       ConsecutiveKeeps
    DEF UdsNext
  <2>. QED BY <2>1, <2>9, <2>10
<1>3. RequestInv => ReassembledIntact
  BY DEF RequestInv
<1>. QED BY <1>1, <1>2, <1>3, PTL DEF UdsSpec
=============================================================================
