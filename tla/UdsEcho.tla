------------------------------ MODULE UdsEcho ------------------------------
(***************************************************************************)
(* task/task_uds_echo.py: the UDS/OBD-II ECU simulator and its ISO-TP      *)
(* layer.  on_message_received runs on the notifier thread only, one frame *)
(* at a time; the loop of _push_consecutive_frames is one step per frame   *)
(* it sends.  Bytes of a payload are counted, not stored, except the ones  *)
(* a handler looks at: the service id and the two bytes after it.          *)
(***************************************************************************)
EXTENDS Naturals, Sequences

CONSTANTS
    RequestIds,   \* request_ids
    Messages,     \* requests: service id, data[2], data[3], len(data) - 1
    VinLen,       \* len(self.vin), 17 unless the caller sets another
    MaxRequests,  \* bound: requests one tester sends
    MaxLosses     \* bound: frames lost on the bus

ASSUME UdsConstants ==
    /\ Messages \subseteq [sid : Nat, sub : Nat, lo : Nat, len : Nat \ {0}]
    \* a First Frame announces 12 bits; of the responses only the VIN's grows
    /\ \A msg \in Messages : msg.len <= 4095
    /\ VinLen \in Nat /\ VinLen + 3 <= 4095
    /\ MaxRequests \in Nat
    /\ MaxLosses \in Nat

VARIABLES
    silent,      \* silent_mode, an option of main.py
    session,     \* _session
    unlocked,    \* _security_unlocked
    mfRest,      \* len(_mf_buffer)
    mfSeq,       \* _mf_seq
    rx,          \* _rx_mf_pending with _rx_mf_total and _rx_mf_req_id
    pushing,     \* _push_consecutive_frames is in its loop
    headless,    \* history: a First Frame has been lost
    tester,      \* per request id: what its tester has sent so far
    losses,      \* frames lost so far
    delivered,   \* history: the request _dispatch_reassembled built last
    stream       \* history: what was handed to Task.send since the last First
                 \* Frame; a CanError, which send swallows, or the bus may
                 \* still lose a frame of it

udsVars == <<silent, session, unlocked, mfRest, mfSeq, rx, pushing, headless,
             tester, losses, delivered, stream>>

Idle == [no |-> 0, msg |-> [sid |-> 0, sub |-> 0, lo |-> 0, len |-> 1],
         k |-> 0, done |-> TRUE]
NoRx == [on |-> FALSE, total |-> 0, chunks |-> <<>>,
         msg |-> Idle.msg]

\* Bytes held by a First Frame (data[2:8]) and by a Consecutive Frame.
FFBytes == 6
CFBytes == 7
RxBytes(r) == FFBytes + CFBytes * (Len(r.chunks) - 1)
CFsNeeded(size) == (size - FFBytes + CFBytes - 1) \div CFBytes

UdsInit ==
    /\ silent \in BOOLEAN
    /\ session = 1
    /\ unlocked = FALSE
    /\ mfRest = 0
    /\ mfSeq = 0
    /\ rx = NoRx
    /\ pushing = FALSE
    /\ headless = FALSE
    /\ tester = [i \in RequestIds |-> Idle]
    /\ losses = 0
    /\ delivered = NoRx
    /\ stream = [size |-> 0, got |-> 0, frames |-> 0, inOrder |-> TRUE]

-----------------------------------------------------------------------------
(* Handlers.  len is len(msg.data): the PCI byte and the payload.  Sub and  *)
(* Lo are data[2] and data[3] with the default a handler takes when the     *)
(* message is too short.  A handler answered with the size of its payload;   *)
(* a negative response is three bytes, 0 stands for no answer.              *)

Nrc == 3
Sub(msg, default) == IF msg.len > 1 THEN msg.sub ELSE default

ObdSize(msg) ==
    LET pid == Sub(msg, 0)
    IN  CASE msg.sid = 1 -> IF pid \in {0, 32, 64, 96, 128, 160, 192, 1, 65}
                            THEN 6
                            ELSE IF pid = 12 THEN 4 ELSE 3
          [] msg.sid = 2 -> 3
          [] msg.sid = 3 -> 6
          [] msg.sid = 4 -> 1
          [] msg.sid = 7 -> 4
          [] msg.sid = 9 -> CASE pid = 0 -> 6
                              [] pid = 2 -> 3 + VinLen
                              [] pid = 10 -> 14
                              [] OTHER -> 3
          [] msg.sid = 10 -> 2

SessionControl(msg) ==
    LET sub == Sub(msg, 1)
    IN  IF silent
        THEN [size |-> 0, session |-> session, unlocked |-> unlocked]
        ELSE IF sub \in 1 .. 4
        THEN [size |-> 6, session |-> sub, unlocked |-> unlocked]
        ELSE [size |-> Nrc, session |-> session, unlocked |-> unlocked]

EcuReset(msg) ==
    LET sub == Sub(msg, 1)
    IN  IF sub \in 1 .. 3
        THEN [size |-> 3, session |-> 1, unlocked |-> FALSE]
        ELSE [size |-> IF sub \in {4, 5} THEN 2 ELSE Nrc,
              session |-> session, unlocked |-> unlocked]

SecurityAccess(msg) ==
    IF Sub(msg, 1) % 2 = 1
    THEN [size |-> 6, session |-> session, unlocked |-> unlocked]
    ELSE [size |-> 2, session |-> session, unlocked |-> TRUE]

ReadDtcSize(msg) ==
    LET sub == Sub(msg, 1)
    IN  CASE sub = 1 -> 5
          [] sub \in {2, 10} -> 6
          [] sub = 6 -> 3
          [] OTHER -> Nrc

ReadDataSize(msg) ==
    LET did == msg.sub * 256 + msg.lo
    IN  CASE msg.len < 3 -> Nrc
          [] did = 61840 -> 3 + VinLen          \* 0xF190
          [] did \in {61831, 61854} -> 14       \* 0xF187, 0xF19E
          [] did \in {61833, 61841} -> 7        \* 0xF189, 0xF191
          [] OTHER -> Nrc

WriteDataSize(msg) == IF msg.len < 3 THEN Nrc ELSE 3
RoutineSize(msg) == IF msg.len < 3 THEN Nrc ELSE 4
CommControlSize(msg) == IF Sub(msg, 0) \in 0 .. 3 THEN 2 ELSE Nrc
DtcSettingsSize(msg) == IF Sub(msg, 1) \in {1, 2} THEN 2 ELSE Nrc

\* _dispatch: the handler of a service, or NRC 0x11
Outcome(msg) ==
    LET plain(size) == [size |-> size, session |-> session, unlocked |-> unlocked]
    IN  CASE msg.sid \in {1, 2, 3, 4, 7, 9, 10} -> plain(ObdSize(msg))
          [] msg.sid = 16 -> SessionControl(msg)
          [] msg.sid = 17 -> EcuReset(msg)
          [] msg.sid = 20 -> plain(1)
          [] msg.sid = 25 -> plain(ReadDtcSize(msg))
          [] msg.sid = 34 -> plain(ReadDataSize(msg))
          [] msg.sid = 39 -> SecurityAccess(msg)
          [] msg.sid = 40 -> plain(CommControlSize(msg))
          [] msg.sid = 46 -> plain(WriteDataSize(msg))
          [] msg.sid = 49 -> plain(RoutineSize(msg))
          [] msg.sid = 62 -> plain(2)
          [] msg.sid = 133 -> plain(DtcSettingsSize(msg))
          [] OTHER -> plain(Nrc)

\* A First Frame has 12 bits for the size.
Announced(size) == size % 4096

\* _isotp_send: a single frame, or a First Frame with the rest buffered
IsotpSend(size) ==
    IF size <= 7
    THEN UNCHANGED <<mfRest, mfSeq, stream>>
    ELSE /\ mfRest' = size - FFBytes
         /\ mfSeq' = 33
         /\ stream' = [size |-> Announced(size), got |-> FFBytes, frames |-> 0,
                       inOrder |-> TRUE]

Dispatch(msg) ==
    LET o == Outcome(msg)
    IN  /\ session' = o.session
        /\ unlocked' = o.unlocked
        /\ IsotpSend(o.size)

-----------------------------------------------------------------------------
(* on_message_received, one action per kind of frame a tester sends         *)

Ready(i) == ~pushing /\ tester[i].done /\ tester[i].no < MaxRequests

\* A frame is either handled, or lost on the bus.
Lost ==
    /\ losses < MaxLosses
    /\ losses' = losses + 1
    /\ UNCHANGED <<session, unlocked, mfRest, mfSeq, rx, pushing, delivered,
                   stream>>

SingleFrame(i, msg) ==
    /\ Ready(i)
    /\ msg.len <= 7
    /\ tester' = [tester EXCEPT ![i].no = @ + 1]
    /\ \/ Lost /\ UNCHANGED headless
       \/ /\ Dispatch(msg)
          /\ UNCHANGED <<rx, pushing, headless, losses, delivered>>

\* _dispatch_reassembled, once as many bytes are pending as were announced
Reassemble(r) ==
    IF RxBytes(r) < r.total
    THEN /\ rx' = r
         /\ UNCHANGED <<session, unlocked, mfRest, mfSeq, delivered, stream>>
    ELSE /\ rx' = NoRx
         /\ delivered' = r
         /\ IF r.total < 2
            THEN UNCHANGED <<session, unlocked, mfRest, mfSeq, stream>>
            ELSE Dispatch(r.msg)

\* Mutant: a First Frame is appended to a pending reassembly.
FirstFrameAppends(i, msg) ==
    /\ Ready(i)
    /\ msg.len > 7
    /\ tester' = [tester EXCEPT ![i] = [no |-> @.no + 1, msg |-> msg, k |-> 0,
                                        done |-> FALSE]]
    /\ \/ Lost /\ headless' = TRUE
       \/ /\ Reassemble([on |-> TRUE, total |-> msg.len, msg |-> msg,
                         chunks |-> Append(rx.chunks,
                             [id |-> i, no |-> tester[i].no + 1, k |-> 0])])
          /\ UNCHANGED <<pushing, headless, losses>>

\* A First Frame replaces whatever reassembly was pending.
FirstFrame(i, msg) ==
    /\ Ready(i)
    /\ msg.len > 7
    /\ tester' = [tester EXCEPT ![i] = [no |-> @.no + 1, msg |-> msg, k |-> 0,
                                        done |-> FALSE]]
    /\ \/ Lost /\ headless' = TRUE
       \/ /\ Reassemble([on |-> TRUE, total |-> msg.len, msg |-> msg,
                         chunks |-> <<[id |-> i, no |-> tester[i].no + 1,
                                       k |-> 0]>>])
          /\ UNCHANGED <<pushing, headless, losses>>

\* A Consecutive Frame extends the pending reassembly: neither its sequence
\* number nor its arbitration id is compared with the First Frame's.
ConsecutiveFrame(i) ==
    LET k == tester[i].k + 1
    IN  /\ ~pushing
        /\ ~tester[i].done
        /\ tester' = [tester EXCEPT ![i].k = k,
                                    ![i].done = (k = CFsNeeded(tester[i].msg.len))]
        /\ \/ Lost /\ UNCHANGED headless
           \/ /\ IF rx.on
                 THEN Reassemble([rx EXCEPT !.chunks =
                         Append(@, [id |-> i, no |-> tester[i].no, k |-> k])])
                 ELSE UNCHANGED <<session, unlocked, mfRest, mfSeq, rx,
                                  delivered, stream>>
              /\ UNCHANGED <<pushing, headless, losses>>

\* The tester gives up a multi-frame request half way.
Abandon(i) ==
    /\ ~tester[i].done
    /\ tester' = [tester EXCEPT ![i].done = TRUE]
    /\ UNCHANGED <<session, unlocked, mfRest, mfSeq, rx, pushing, headless,
                   losses, delivered, stream>>

\* A Flow Control of any status, block size or separation time starts the
\* loop that sends the buffered rest; it is ignored when nothing is buffered.
FlowControl(i) ==
    /\ ~pushing
    /\ mfRest > 0
    /\ pushing' = TRUE
    /\ UNCHANGED <<session, unlocked, mfRest, mfSeq, rx, headless, tester,
                   losses, delivered, stream>>

\* Mutant: the sequence number does not wrap, 0x2F is followed by 0x21.
PushSkipsZero ==
    LET bytes == IF mfRest < CFBytes THEN mfRest ELSE CFBytes
    IN  /\ pushing
        /\ mfRest' = mfRest - bytes
        /\ mfSeq' = IF mfSeq = 47 THEN 33 ELSE mfSeq + 1
        /\ pushing' = (mfRest' > 0)
        /\ stream' = [stream EXCEPT
               !.got = @ + bytes,
               !.frames = @ + 1,
               !.inOrder = @ /\ mfSeq = 32 + ((stream.frames + 1) % 16)]
        /\ UNCHANGED <<session, unlocked, rx, headless, tester, losses,
                       delivered>>

\* Mutant: the bytes of a sent frame stay in the buffer.
PushKeepsBytes ==
    /\ pushing
    /\ mfSeq' = 32 + (((mfSeq % 16) + 1) % 16)
    /\ stream' = [stream EXCEPT !.frames = (@ + 1) % 16]
    /\ UNCHANGED <<session, unlocked, mfRest, rx, pushing, headless, tester,
                   losses, delivered>>

\* One iteration of _push_consecutive_frames.  A receiver that counts the
\* frames since the First Frame expects sequence number frames + 1 mod 16.
PushConsecutiveFrame ==
    LET bytes == IF mfRest < CFBytes THEN mfRest ELSE CFBytes
    IN  /\ pushing
        /\ mfRest' = mfRest - bytes
        /\ mfSeq' = 32 + (((mfSeq % 16) + 1) % 16)
        /\ pushing' = (mfRest' > 0)
        /\ stream' = [stream EXCEPT
               !.got = @ + bytes,
               !.frames = @ + 1,
               !.inOrder = @ /\ mfSeq = 32 + ((stream.frames + 1) % 16)]
        /\ UNCHANGED <<session, unlocked, rx, headless, tester, losses,
                       delivered>>

UdsNext ==
    /\ UNCHANGED silent
    /\ \/ \E i \in RequestIds :
             \/ \E msg \in Messages : SingleFrame(i, msg) \/ FirstFrame(i, msg)
             \/ ConsecutiveFrame(i)
             \/ Abandon(i)
             \/ FlowControl(i)
       \/ PushConsecutiveFrame

UdsSpec == UdsInit /\ [][UdsNext]_udsVars

\* The loop of the handler runs on.  Nothing obliges a tester to send anything.
UdsFairSpec == UdsSpec /\ WF_udsVars(UNCHANGED silent /\ PushConsecutiveFrame)

-----------------------------------------------------------------------------
(* Properties *)

\* What _push_consecutive_frames sends continues the last First Frame without
\* a gap: the buffered and the sent bytes add up to the announced size (which
\* has 12 bits), and
\* the sequence numbers count on through the wrap from 0x2F to 0x20, whatever
\* requests come in between First Frame and Flow Control.
StreamIntact ==
    /\ stream.got + mfRest = stream.size
    /\ stream.inOrder

\* README.md: ISO-TP multi-frame reception is supported.  With one tester on
\* the bus, a request that _dispatch_reassembled hands on consists of all the
\* frames of one request, in order, until a First Frame has been lost.  The
\* handler compares no sequence number, yet a lost Consecutive Frame or a
\* request given up only stalls the reassembly, since every frame is needed to
\* reach the announced length.  After the loss of a First Frame its Consecutive
\* Frames may complete an older request.
ReassembledIntact ==
    (delivered.on /\ ~headless) =>
        LET c == delivered.chunks
        IN  /\ Len(c) = CFsNeeded(delivered.total) + 1
            /\ \A j \in 1 .. Len(c) :
                  c[j] = [id |-> c[1].id, no |-> c[1].no, k |-> j - 1]

\* A Flow Control is followed by the complete response.
FlowControlCompletes ==
    pushing ~> (~pushing /\ stream.got = stream.size)
=============================================================================
