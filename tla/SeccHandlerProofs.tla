-------------------------- MODULE SeccHandlerProofs --------------------------
(***************************************************************************)
(* Theorems about SeccHandler, for any set of peers and any number of      *)
(* connections: discovery can always be resumed, and the TCP server is     *)
(* always the one the handler would cancel.                                *)
(*                                                                         *)
(* DiscoveryRecoverable is not inductive: that the stop of an unknown      *)
(* session leaves the witness alone needs that an entry is known under the *)
(* address of its own session, and that the notifications of a session     *)
(* match where the session is.                                             *)
(***************************************************************************)
EXTENDS SeccHandler, TLAPS

\* An address is known by a session of that address, which has been started.
EntryOfPeer ==
    \A p \in Peers : entry[p] # None =>
        /\ peer[entry[p]] = p
        /\ st[entry[p]] \notin {"unused", "waiting"}

\* A session that was started has an address.
Addressed ==
    \A s \in Sessions : st[s] \notin {"unused", "waiting"} => peer[s] \in Peers

\* The notification of a session is queued when the session says so.
QueueMatches ==
    \A i \in 1 .. Len(queue) :
        /\ queue[i].kind = "client" => st[queue[i].session] = "waiting"
        /\ queue[i].kind = "stop" => st[queue[i].session] = "notified"

\* And only once.
QueuedOnce ==
    \A i, j \in 1 .. Len(queue) :
        (/\ i # j
         /\ queue[i].kind \in {"client", "stop"}
         /\ queue[j].kind \in {"client", "stop"})
            => queue[i].session # queue[j].session

IInv ==
    /\ TypeOK /\ EntryOfPeer /\ Addressed /\ QueueMatches /\ QueuedOnce
    /\ DiscoveryRecoverable /\ ListenerOwned

\* What a member of the queue is made of.
LEMMA NotificationFields ==
    ASSUME NEW n \in Notifications
    PROVE  /\ n.kind \in {"sdp", "wireless", "client", "stop"}
           /\ n.kind \in {"client", "stop"} => n.session \in Sessions
           /\ n.kind = "stop" => n.action \in {"terminate", "pause"}
BY DEF Notifications, Datagram, Client, Stop

\* A session's notification put at the end of the queue keeps the queue's facts.
LEMMA AppendKeeps ==
    ASSUME TypeOK, QueueMatches, QueuedOnce,
           NEW s \in Sessions, NEW n \in Notifications,
           n.session = s, n.kind \in {"client", "stop"},
           st[s] \notin {"waiting", "notified"},
           NEW v \in States,
           n.kind = "client" => v = "waiting",
           n.kind = "stop" => v = "notified",
           queue' = Append(queue, n),
           st' = [st EXCEPT ![s] = v]
    PROVE  queue' \in Seq(Notifications) /\ QueueMatches' /\ QueuedOnce'
<1>1. queue \in Seq(Notifications) /\ st \in [Sessions -> States]
  BY DEF TypeOK
<1>2. /\ queue' \in Seq(Notifications)
      /\ Len(queue') = Len(queue) + 1
      /\ \A i \in 1 .. Len(queue) : queue'[i] = queue[i]
      /\ queue'[Len(queue) + 1] = n
      /\ Len(queue) \in Nat
      /\ \A i \in 1 .. Len(queue) : queue[i] \in Notifications
  BY <1>1
<1>3. \A i \in 1 .. Len(queue) : queue[i].kind \in {"client", "stop"} =>
          /\ queue[i].session \in Sessions
          /\ queue[i].session # s
          /\ st'[queue[i].session] = st[queue[i].session]
  BY <1>1, <1>2, NotificationFields DEF QueueMatches
<1>4. st'[s] = v
  BY <1>1
<1>5. QueueMatches'
  <2> SUFFICES ASSUME NEW i \in 1 .. Len(queue')
               PROVE  /\ queue'[i].kind = "client" => st'[queue'[i].session] = "waiting"
                      /\ queue'[i].kind = "stop" => st'[queue'[i].session] = "notified"
    BY DEF QueueMatches
  <2>1. CASE i \in 1 .. Len(queue)
    BY <2>1, <1>2, <1>3 DEF QueueMatches
  <2>2. CASE i = Len(queue) + 1
    BY <2>2, <1>2, <1>4
  <2> QED BY <1>2, <2>1, <2>2
<1>6. QueuedOnce'
  <2> SUFFICES ASSUME NEW i \in 1 .. Len(queue'), NEW j \in 1 .. Len(queue'), i # j,
                      queue'[i].kind \in {"client", "stop"},
                      queue'[j].kind \in {"client", "stop"}
               PROVE  queue'[i].session # queue'[j].session
    BY DEF QueuedOnce
  <2>1. CASE i \in 1 .. Len(queue) /\ j \in 1 .. Len(queue)
    BY <2>1, <1>2 DEF QueuedOnce
  <2>2. CASE i = Len(queue) + 1 /\ j \in 1 .. Len(queue)
    BY <2>2, <1>2, <1>3
  <2>3. CASE j = Len(queue) + 1 /\ i \in 1 .. Len(queue)
    BY <2>3, <1>2, <1>3
  <2> QED BY <1>2, <2>1, <2>2, <2>3
<1> QED BY <1>2, <1>5, <1>6

\* The head of the queue is taken: every other notification moves up, and if
\* it was a session's, the others are of other sessions.
LEMMA TakeKeeps ==
    ASSUME TypeOK, QueueMatches, QueuedOnce,
           NEW k \in {"sdp", "wireless", "client", "stop"}, Take(k),
           NEW f, f \in [Sessions -> States],
           \A s \in Sessions : (k \in {"client", "stop"} /\ s = Head(queue).session)
                                    \/ f[s] = st[s],
           st' = f
    PROVE  queue' \in Seq(Notifications) /\ QueueMatches' /\ QueuedOnce'
<1>1. queue \in Seq(Notifications) /\ st \in [Sessions -> States] /\ queue # <<>>
  BY DEF TypeOK, Take
<1>2. /\ queue' \in Seq(Notifications)
      /\ Len(queue') = Len(queue) - 1
      /\ \A i \in 1 .. Len(queue') : queue'[i] = queue[i + 1]
      /\ Len(queue) \in Nat
      /\ \A i \in 1 .. Len(queue) : queue[i] \in Notifications
      /\ Head(queue) = queue[1] /\ Head(queue).kind = k
      /\ 1 \in 1 .. Len(queue)
  BY <1>1 DEF Take
<1>3. \A i \in 1 .. Len(queue') : queue'[i].kind \in {"client", "stop"} =>
          st'[queue'[i].session] = st[queue[i + 1].session]
  <2> SUFFICES ASSUME NEW i \in 1 .. Len(queue'), queue'[i].kind \in {"client", "stop"}
               PROVE  st'[queue'[i].session] = st[queue[i + 1].session]
    OBVIOUS
  <2>1. i + 1 \in 1 .. Len(queue) /\ i + 1 # 1
    BY <1>2
  <2>2. queue[i + 1].session \in Sessions
    BY <2>1, <1>2, NotificationFields
  <2>3. k \in {"client", "stop"} => queue[i + 1].session # Head(queue).session
    BY <2>1, <1>2 DEF QueuedOnce
  <2> QED BY <1>2, <2>2, <2>3
<1>4. QueueMatches'
  BY <1>2, <1>3 DEF QueueMatches
<1>5. QueuedOnce'
  BY <1>2 DEF QueuedOnce
<1> QED BY <1>2, <1>4, <1>5

LEMMA InitIInv == Init => IInv
<1> SUFFICES ASSUME Init PROVE IInv
  OBVIOUS
<1>1. TypeOK
  <2>1. <<>> \in Seq(Notifications)
    OBVIOUS
  <2>2. st \in [Sessions -> States] /\ peer \in [Sessions -> Peers \cup {None}]
    BY DEF Init, States
  <2> QED BY <2>1, <2>2 DEF Init, TypeOK
<1> QED
  BY <1>1, HandlerConstants DEF Init, IInv, EntryOfPeer, Addressed, QueueMatches, QueuedOnce,
     DiscoveryRecoverable, ListenerOwned

LEMMA NextIInv == IInv /\ [Next]_vars => IInv'
<1> SUFFICES ASSUME IInv, [Next]_vars PROVE IInv'
  OBVIOUS
<1> USE DEF IInv
<1> DEFINE Rest == /\ EntryOfPeer /\ Addressed /\ DiscoveryRecoverable /\ ListenerOwned
<1>1. ASSUME NEW k \in {"sdp", "wireless"}, ReceiveDatagram(k) PROVE IInv'
  <2>1. Datagram(k) \in Notifications /\ Datagram(k).kind = k
    BY DEF Notifications, Datagram
  <2>2. /\ queue' \in Seq(Notifications)
        /\ Len(queue') = Len(queue) + 1 /\ Len(queue) \in Nat
        /\ \A i \in 1 .. Len(queue) : queue'[i] = queue[i]
        /\ queue'[Len(queue) + 1] = Datagram(k)
    BY <1>1, <2>1 DEF ReceiveDatagram, TypeOK
  <2>3. QueueMatches' /\ QueuedOnce'
    <3>1. \A i \in 1 .. Len(queue') : i \in 1 .. Len(queue) \/ queue'[i].kind = k
      BY <2>1, <2>2
    <3> QED BY <1>1, <2>2, <3>1 DEF QueueMatches, QueuedOnce, ReceiveDatagram
  <2>4. TypeOK' /\ Rest'
    BY <1>1, <2>2 DEF ReceiveDatagram, TypeOK, EntryOfPeer, Addressed,
       DiscoveryRecoverable, ListenerOwned
  <2> QED BY <2>3, <2>4
<1>2. ASSUME NEW s \in Sessions, NEW p \in Peers \cup {None}, Connect(s, p) PROVE IInv'
  <2>1. Client(s) \in Notifications /\ Client(s).kind = "client" /\ Client(s).session = s
    BY DEF Notifications, Client
  <2>2. queue' \in Seq(Notifications) /\ QueueMatches' /\ QueuedOnce'
    BY <1>2, <2>1, AppendKeeps DEF Connect, States
  <2>3. TypeOK'
    BY <1>2, <2>2 DEF Connect, TypeOK, States
  <2>4. EntryOfPeer' /\ Addressed' /\ DiscoveryRecoverable'
    BY <1>2 DEF Connect, TypeOK, EntryOfPeer, Addressed, DiscoveryRecoverable
  <2> QED BY <1>2, <2>2, <2>3, <2>4 DEF Connect, ListenerOwned
<1>3. ASSUME NEW s \in Sessions, PeerCloses(s) PROVE IInv'
  BY <1>3 DEF PeerCloses, TypeOK, EntryOfPeer, Addressed, QueueMatches, QueuedOnce,
     DiscoveryRecoverable, ListenerOwned
<1>4. ASSUME NEW s \in Sessions, BeginStop(s) PROVE IInv'
  <2>1. TypeOK' /\ EntryOfPeer' /\ Addressed' /\ DiscoveryRecoverable' /\ ListenerOwned'
    BY <1>4 DEF BeginStop, TypeOK, EntryOfPeer, Addressed, DiscoveryRecoverable,
       ListenerOwned, States
  <2>2. QueueMatches'
    <3>1. \A i \in 1 .. Len(queue) : queue[i] \in Notifications
      BY DEF TypeOK
    <3> QED BY <1>4, <3>1, NotificationFields DEF BeginStop, TypeOK, QueueMatches
  <2> QED BY <1>4, <2>1, <2>2 DEF BeginStop, QueuedOnce
<1>11. ASSUME NEW s \in Sessions, ReadError(s) PROVE IInv'
  <2>1. TypeOK' /\ EntryOfPeer' /\ Addressed' /\ DiscoveryRecoverable' /\ ListenerOwned'
    BY <1>11 DEF ReadError, TypeOK, EntryOfPeer, Addressed, DiscoveryRecoverable,
       ListenerOwned, States
  <2>2. QueueMatches'
    <3>1. \A i \in 1 .. Len(queue) : queue[i] \in Notifications
      BY DEF TypeOK
    <3> QED BY <1>11, <3>1, NotificationFields DEF ReadError, TypeOK, QueueMatches
  <2> QED BY <1>11, <2>1, <2>2 DEF ReadError, QueuedOnce
<1>5. ASSUME NEW s \in Sessions, NEW a \in {"terminate", "pause"}, NotifyStop(s, a)
      PROVE  IInv'
  <2>1. Stop(s, a) \in Notifications /\ Stop(s, a).kind = "stop" /\ Stop(s, a).session = s
    BY DEF Notifications, Stop
  <2>2. queue' \in Seq(Notifications) /\ QueueMatches' /\ QueuedOnce'
    BY <1>5, <2>1, AppendKeeps DEF NotifyStop, States
  <2>3. TypeOK'
    BY <1>5, <2>2 DEF NotifyStop, TypeOK, States
  <2>4. EntryOfPeer' /\ Addressed' /\ DiscoveryRecoverable'
    BY <1>5 DEF NotifyStop, TypeOK, EntryOfPeer, Addressed, DiscoveryRecoverable
  <2> QED BY <1>5, <2>2, <2>3, <2>4 DEF NotifyStop, ListenerOwned
<1>6. CASE ProcessSdpRequest
  <2>1. queue' \in Seq(Notifications) /\ QueueMatches' /\ QueuedOnce'
    BY <1>6, TakeKeeps DEF ProcessSdpRequest, TypeOK
  <2>2. alive /\ st' = st /\ peer' = peer /\ entry' = entry /\ paused' = paused
    BY <1>6 DEF ProcessSdpRequest, Take
  <2>3. address' \in BOOLEAN /\ alive' \in BOOLEAN
    BY <1>6, Zenon DEF ProcessSdpRequest, TypeOK
  <2>4. TypeOK' /\ ListenerOwned'
    BY <1>6, <2>1, <2>3 DEF ProcessSdpRequest, TypeOK, ListenerOwned
  <2>5. EntryOfPeer' /\ Addressed' /\ DiscoveryRecoverable'
    BY <2>2, Zenon DEF EntryOfPeer, Addressed, DiscoveryRecoverable
  <2> QED BY <2>1, <2>4, <2>5
<1>7. CASE ProcessWireless
  <2>1. queue' \in Seq(Notifications) /\ QueueMatches' /\ QueuedOnce'
    BY <1>7, TakeKeeps DEF ProcessWireless, TypeOK
  <2> QED BY <1>7, <2>1 DEF ProcessWireless, TypeOK, EntryOfPeer, Addressed,
         DiscoveryRecoverable, ListenerOwned
<1>8. CASE ProcessClient
  <2> DEFINE s == Head(queue).session
  <2>1. queue \in Seq(Notifications) /\ queue # <<>> /\ Head(queue).kind = "client"
    BY <1>8 DEF ProcessClient, Take, TypeOK
  <2>2. Head(queue) \in Notifications /\ 1 \in 1 .. Len(queue) /\ Head(queue) = queue[1]
    BY <2>1
  <2>3. s \in Sessions /\ st[s] = "waiting" /\ peer[s] \in Peers
    BY <1>8, <2>1, <2>2, NotificationFields DEF QueueMatches, ProcessClient, TypeOK
  <2>4. st' \in [Sessions -> States] /\ st'[s] = "reading"
        /\ \A r \in Sessions : r = s \/ st'[r] = st[r]
    BY <1>8, <2>3 DEF ProcessClient, TypeOK, States
  <2>5. queue' \in Seq(Notifications) /\ QueueMatches' /\ QueuedOnce'
    BY <1>8, <2>4, TakeKeeps DEF ProcessClient
  <2>6. TypeOK'
    BY <1>8, <2>3, <2>4, <2>5 DEF ProcessClient, TypeOK
  <2>7. EntryOfPeer' /\ Addressed'
    BY <1>8, <2>3, <2>4, HandlerConstants DEF ProcessClient, TypeOK, EntryOfPeer, Addressed
  <2>8. DiscoveryRecoverable'
    <3>1. entry'[peer[s]] = s /\ s # None
      BY <1>8, <2>3, HandlerConstants DEF ProcessClient, TypeOK, Sessions
    <3> QED BY <2>3, <2>4, <3>1 DEF DiscoveryRecoverable
  <2> QED BY <1>8, <2>5, <2>6, <2>7, <2>8 DEF ProcessClient, ListenerOwned
<1>12. CASE ProcessNamelessClient
  <2>1. queue' \in Seq(Notifications) /\ QueueMatches' /\ QueuedOnce'
    BY <1>12, TakeKeeps DEF ProcessNamelessClient, TypeOK
  <2> QED BY <1>12, <2>1 DEF ProcessNamelessClient, TypeOK, EntryOfPeer, Addressed,
         DiscoveryRecoverable, ListenerOwned
<1>9. CASE ProcessStop
  <2> DEFINE s == Head(queue).session
             p == peer[s]
             a == Head(queue).action
  <2>1. queue \in Seq(Notifications) /\ queue # <<>> /\ Head(queue).kind = "stop"
    BY <1>9 DEF ProcessStop, Take, TypeOK
  <2>2. Head(queue) \in Notifications /\ 1 \in 1 .. Len(queue) /\ Head(queue) = queue[1]
    BY <2>1
  <2>3. s \in Sessions /\ st[s] = "notified" /\ p \in Peers
    BY <2>1, <2>2, NotificationFields DEF QueueMatches, Addressed
  <2>4. st' \in [Sessions -> States] /\ st'[s] = "over"
        /\ \A r \in Sessions : r = s \/ st'[r] = st[r]
    BY <1>9, <2>3 DEF ProcessStop, TypeOK, States
  <2>5. queue' \in Seq(Notifications) /\ QueueMatches' /\ QueuedOnce'
    BY <1>9, <2>4, TakeKeeps DEF ProcessStop
  <2>6. /\ Take("stop") /\ CancelTasks(p)
        /\ peer' = peer /\ alive' = alive /\ eof' = eof /\ address' = address
    BY <1>9 DEF ProcessStop
  <2>7. CASE EndKnownSession(p, a)
    <3>1. entry' \in [Peers -> Sessions \cup {None}]
          /\ \A q \in Peers : entry'[q] # None => entry'[q] = entry[q]
      BY <2>3, <2>7 DEF EndKnownSession, TypeOK
    <3>2. TypeOK'
      <4>1. cancelled' \subseteq Sessions /\ listening' \in {0, 1}
        BY <2>3, <2>6, <2>7 DEF EndKnownSession, CancelTasks, TypeOK
      <4> QED BY <2>4, <2>5, <2>6, <2>7, <3>1, <4>1 DEF EndKnownSession, TypeOK
    <3>3. EntryOfPeer'
      BY <2>4, <2>6, <3>1 DEF TypeOK, EntryOfPeer
    <3>4. Addressed' /\ DiscoveryRecoverable'
      BY <2>3, <2>4, <2>6, <2>7 DEF EndKnownSession, Addressed, DiscoveryRecoverable
    <3>5. ListenerOwned'
      BY <2>6, <2>7, HandlerConstants DEF EndKnownSession, CancelTasks, ListenerOwned
    <3> QED BY <2>5, <3>2, <3>3, <3>4, <3>5
  <2>8. CASE EndUnknownSession(p)
    <3>1. TypeOK' /\ EntryOfPeer' /\ Addressed' /\ ListenerOwned'
      BY <2>3, <2>4, <2>5, <2>6, <2>8, HandlerConstants DEF EndUnknownSession, CancelTasks, TypeOK,
         EntryOfPeer, Addressed, ListenerOwned
    <3>2. DiscoveryRecoverable'
      BY <2>3, <2>4, <2>6, <2>8 DEF EndUnknownSession, TypeOK, EntryOfPeer, DiscoveryRecoverable
    <3> QED BY <2>5, <3>1, <3>2
  <2> QED BY <1>9, <2>7, <2>8 DEF ProcessStop
<1>10. CASE UNCHANGED vars
  BY <1>10 DEF vars, TypeOK, EntryOfPeer, Addressed, QueueMatches, QueuedOnce,
     DiscoveryRecoverable, ListenerOwned
<1> QED
  BY <1>1, <1>2, <1>3, <1>4, <1>5, <1>6, <1>7, <1>8, <1>9, <1>10,
     <1>11, <1>12
  DEF Next, GetFromRcvQueue

LEMMA SpecIInv == Spec => []IInv
BY InitIInv, NextIInv, PTL DEF Spec

\* Whatever the peers do, while discovery is paused there is a session whose
\* stop the handler will find by its address and which resumes discovery, or
\* one whose loop a read error has ended: the entries that connections and stops
\* of one address take from each other never leave the station deaf
\* (get_from_rcv_queue, end_current_session), only a read error can.
THEOREM HandlerRecoverable == Spec => []DiscoveryRecoverable
BY SpecIInv, PTL DEF IInv

\* The handler never loses a TCP server that accepts connections: there is one
\* exactly while the task it would cancel is running (start_tcp_server,
\* end_current_session with its KeyError and AttributeError paths).
THEOREM HandlerOwnsListener == Spec => []ListenerOwned
BY SpecIInv, PTL DEF IInv
=============================================================================
