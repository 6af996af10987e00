----------------------------- MODULE SeccSession -----------------------------
(***************************************************************************)
(* What every protocol of the charging station's state machine shares: the *)
(* receive loop of a communication session (iso15118/shared/               *)
(* comm_session.py), the base class of the states (shared/states.py) and   *)
(* that of the SECC's states (secc/states/secc_state.py).                  *)
(*                                                                         *)
(* A state is an object: it carries flags, and a request of another type   *)
(* that it accepts is handed over to a new object of the class that        *)
(* handles the type.  States therefore have the names of the requests      *)
(* their class handles.  One step takes a request from the connection,     *)
(* processes it, sends the response and makes the transition, which is one *)
(* iteration of rcv_loop: nothing else touches the session meanwhile.      *)
(***************************************************************************)
EXTENDS Naturals, Sequences

CONSTANT None    \* Python's None

VARIABLES
    phase,       \* "idle": no connection; "reading": in rcv_loop;
                 \* "stopping": in stop(), until the connection is closed;
                 \* "dead": a read error has ended rcv_loop without stop()
    state,       \* the class of current_state
    obj,         \* the flags of that object
    last,        \* the type of the last request
    reply,       \* its answer: "ok", "failed" or "none"
    stopAction,  \* what the StopNotification of the session will ask for
    evse         \* external: what the station's hardware was told

loopVars == <<phase, state, obj, last, reply, stopAction>>

\* The attributes a state starts with; a class uses the ones it needs.
\*   expecting   expecting_..._req: only the first type is accepted
\*   verified    signature_verified_once (Authorization)
\*   complete    authorization_complete (Authorization)
\*   checked     cable_check_started (CableCheck)
\*   contactors  contactors_closed (CableCheck)
Fresh == [expecting |-> TRUE, verified |-> FALSE, complete |-> FALSE,
          checked |-> FALSE, contactors |-> FALSE]
Flags == [expecting : BOOLEAN, verified : BOOLEAN, complete : BOOLEAN,
          checked : BOOLEAN, contactors : BOOLEAN]

\* The commands to the EVSE controller that the models keep: whether charging
\* under high-level communication was announced, and what the output is for.
Uses == {"off", "insulation", "precharge", "charging"}
Evse == [hlc : BOOLEAN, power : Uses]

\* Slip: stop() no longer stops the charger.
StopChargerLater(e) == e

StopCharger(e) == [e EXCEPT !.power = "off"]

\* check_msg with expect_first = False: any type of the list will do.
Lists(expected, type) == \E i \in 1 .. Len(expected) : expected[i] = type

(***************************************************************************)
(* check_msg: the types a state expects are a sequence, the first of which *)
(* is the only one while `expecting' is set.                               *)
(***************************************************************************)
AcceptedBy(expected, type) ==
    \E i \in 1 .. Len(expected) :
        expected[i] = type /\ (obj.expecting => i = 1)

\* The object that processes a request of the type.
Handler(type) == IF type = state THEN obj ELSE Fresh

\* create_next_message with a next state: the loop enters it.
Goes(next) ==
    /\ state' = next
    /\ obj' = Fresh
    /\ reply' = "ok"
    /\ UNCHANGED <<phase, stopAction>>

\* create_next_message with None: the object that answered stays.
Stays(type, o, r) ==
    /\ state' = type
    /\ obj' = o
    /\ reply' = r
    /\ UNCHANGED <<phase, stopAction>>

\* SECCCommunicationSession.stop: the charger is stopped, then the connection
\* is closed, while the object of the last request is still the current state.
Stops(action, r, e) ==
    /\ phase' = "stopping"
    /\ stopAction' = action
    /\ reply' = r
    /\ evse' = StopCharger(e)
    /\ UNCHANGED <<state, obj>>

\* Slip: the negative response is not sent.
FailsSilently(e) == Stops("terminate", "none", e)

\* stop_state_machine: a negative response, then the end of the session.
Fails(e) == Stops("terminate", "failed", e)

\* An exception in process_message: rcv_loop ends the session, unanswered.
Raises(e) == Stops("terminate", "none", e)

\* The read ends with a timeout, the end of the stream or a reset.
Lost ==
    /\ phase = "reading"
    /\ Stops("terminate", reply, evse)
    /\ UNCHANGED last

\* The read raises anything else (ssl.SSLError, any other OSError): nothing
\* around it catches it and the session's task only logs it.  There is no
\* stop(), so the charger keeps doing what it was told, and no notification, so
\* discovery stays paused: the models follow a station no further.
ReadError ==
    /\ phase = "reading"
    /\ phase' = "dead"
    /\ UNCHANGED <<state, obj, last, reply, stopAction, evse>>

\* Bytes that are no V2GTP message, or no valid message of the protocol.
Undecodable ==
    /\ phase = "reading"
    /\ last' = None
    /\ Raises(evse)

\* A new connection: the session starts with the protocol negotiation.
StartLoop ==
    /\ phase = "idle"
    /\ phase' = "reading"
    /\ state' = "SupportedAppProtocol"
    /\ obj' = Fresh
    /\ last' = None
    /\ reply' = "ok"
    /\ stopAction' = "terminate"

\* stop() is over.
EndLoop ==
    /\ phase = "stopping"
    /\ phase' = "idle"
    /\ UNCHANGED <<state, obj, last, reply, stopAction>>

InitLoop ==
    /\ phase = "idle"
    /\ state = "SupportedAppProtocol"
    /\ obj = Fresh
    /\ last = None
    /\ reply = "ok"
    /\ stopAction = "terminate"
    /\ evse = [hlc |-> FALSE, power |-> "off"]

LoopTypeOK(states, types) ==
    /\ phase \in {"idle", "reading", "stopping", "dead"}
    /\ state \in states
    /\ obj \in Flags
    /\ last \in types \cup {None}
    /\ reply \in {"ok", "failed", "none"}
    /\ stopAction \in {"terminate", "pause"}
    /\ evse \in Evse
=============================================================================
