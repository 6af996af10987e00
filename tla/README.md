# Verification of the ArchonZ Sandbag

The Sandbag is a simulated vehicle network for security training and tool
demonstrations. One half is a set of CAN tasks on a bus (heartbeats, an OBD-II
vehicle, a UDS ECU) with a DoIP and a SOME/IP service; the other half is a
vendored but locally changed ISO 15118 stack (`src/iso15118`) with a charging
station (SECC) and a vehicle (EVCC). This directory holds TLA+ models of the
parts that carry state, TLC configurations that check them on small instances,
and TLAPS proofs of the properties that matter most.

File names below are relative to the root of the repository; `iso15118/` stands
for `src/iso15118/iso15118/`.

## 1. Inventory

### CAN task engine: `engine/engine.py`, `task/task_all_stop.py`, `task/task_all_resume.py`

*State*: `Engine.tasks` (one `PeriodicSleeper` thread per registered task),
`Engine.stopped_tasks`, the stop event and the control point of each thread, the
notifier. *Operations*: `register_task`, `start`, `stop_all_task`,
`resume_all_tasks`, the loop of `PeriodicSleeper`. *Interaction*: the stop and
resume controllers are CAN listeners and call the engine on the notifier thread;
Ctrl-C calls `stop_all_task` on the main thread. Nothing takes a lock.
*Hard*: both loops over the same two lists at once, a list replaced while it is
iterated, a thread that has left its loop but is still alive, a task function
that raises. *Correct if* a task never has two threads, a stopped task falls
silent, a resumed one runs, and shutdown finishes.

### UDS/OBD-II ECU: `task/task_uds_echo.py`

*State*: session, security access, the buffer and sequence number of the response
being sent, the reassembly of the request being received. *Operations*: single
frame, first frame, consecutive frame, flow control, and one handler per service.
*Hard*: lost frames, the 12 bits of an announced size, a request between a first frame and its flow control, the
wrap of the sequence number. *Correct if* responses and reassembled requests are
in one piece.

### Vehicle: `task/task_throttle.py`, `util/obd_util.py`

*State*: speed, rpm, and whether the start-up sweep is due. *Operations*:
`get_data` on the periodic thread, `on_message_received` on the notifier thread;
either may run `reset`. *Hard*: unlocked read-modify-writes of both threads.
*Correct if* every value fits its byte or word (python-can raises otherwise and
the thread is lost), resets are answered and broadcasts go on.

### DoIP server: `doip_lib/server.py`, `services/doip_service.py`

*State*: the TCP server object, the UDP transport, a counter of long messages
shared by TCP sessions and datagram handlers, a restart flag. *Operations*: accept,
read, count, stop a server, restart it after an outage. *Hard*: each `await` lets
another coroutine replace the server that is used after it. *Correct if* the counter
never passes its limit unnoticed, no listening server is lost, and every outage ends.

### SECC session handler: `iso15118/secc/comm_session_handler.py`, `iso15118/secc/transport/*`

*State*: the notification queue, the table of sessions by address, the task of the
TCP server, whether discovery is paused. *Operations*: process an SDP request, a
connection, a stop notification; `close_session`, which changes nothing (section 4). *Hard*: a vehicle that connects
again before its old session has stopped, a late stop, exceptions in a `finally`
block, a client without an address, a session whose loop ends without a notification.
*Correct if* discovery is resumed after every session that stops, and the handler
never loses its TCP server.

### SECC session loop: `iso15118/shared/comm_session.py`, `iso15118/shared/states.py`, `iso15118/secc/states/secc_state.py`

*State*: the current state object, the stop notification. *Operations*: read a
message, decode, `check_msg`, `process_message`, transition, stop. *Hard*: timeouts,
a peer that disconnects, an error of the read that nothing catches, exceptions in a
state, a request that is handed over to another state class. *Correct if* every
`stop()` stops the charger, and nothing else touches it once the session is over.

### ISO 15118-2 SECC state machine: `iso15118/secc/states/iso15118_2_states.py` (with `sap_states.py`, `controller/ev_data.py`)

*State*: selected authorization, energy mode, offered and selected schedules,
contract and signature verdicts, flags of each state object, the context of a paused
session. *Operations*: fifteen request handlers. *Hard*: any order of requests, pause and
resume, renegotiation, partial failure of hardware commands. *Correct if* there is
no energy without authorization, no contract without proof, no DC voltage without
an insulation test, no charging off schedule, and no output after the end.

### Charging profile check: `_is_charging_profile_valid` in the same file

A nested loop with a carried index. *Correct if* it accepts exactly the profiles
that stay below the schedule.

### DIN SPEC 70121 SECC state machine: `iso15118/secc/states/din_spec_states.py`

*State*: the state object with its flags, the payment option, the hardware. DC with
external payment only, and nothing is resumed. *Operations*: eleven request handlers.
*Hard*: as above; an authorization or a test that is never decided is answered
"ongoing" for ever. *Correct if* the loop is entered only authorized, tested and
pre-charged.

### ISO 15118-20 SECC state machine: `iso15118/secc/states/iso15118_20_states.py` (with `controller/ev_data.py`)

*State*: offered, detailed and selected services, control mode, schedules, the verdict
of the authorization. *Operations*: seventeen request handlers. *Hard*: many states
take any request of their list first, and service and schedule may be renegotiated at
almost any time, so what an earlier negotiation left in the session meets the next
one. *Correct if* a vehicle is charged as agreed in the last negotiation.

### EVCC session handler: `iso15118/evcc/comm_session_handler.py`, `iso15118/evcc/transport/*`

*State*: the queue of the UDP client, the counters of requests, cycles and automatic
restarts, the protocols still supported. *Operations*: send and retry a discovery
request, process a response, connect, take the stop notification of a session and
start again. *Hard*: three counters that each event sets back, datagrams that come
after their request has timed out, a UDP client that an error switches off, a station
that decides about TLS. *Correct if*
discovery is bounded, the connection as secure as configured, and the handler comes
to rest.

### EVCC state machines: `iso15118/evcc/states/*`, loop in `iso15118/shared/comm_session.py`

*State*: the current state object, the timer for a station that is not ready, the
control pilot, flags of charging, stop and renegotiation. *Operations*: one response
handler per class in three protocols. *Hard*: one timer shared by all states, an
object that is kept and still has its message, decisions asked of the controller
twice. *Correct if* the control pilot and the demand for current follow the session,
and every wait ends.

### Station and vehicle

Both run the same `rcv_loop`. The vehicle asks, the station answers, and either may
find the connection broken. *Correct if* the two agree on the order of requests, never
wait for each other, and every session ends.

### Not modelled

| Part | Why |
|---|---|
| Controllers of station and vehicle (`controller/*`) | hardware and backend; the simulators return constants, and what they answer is chosen in the models (`continue_charging` of the vehicle is kept) |
| Pausing on the vehicle's side | no state of the vehicle ever asks for a pause, and `RESUME_*` is never written |
| An unlimited automatic restart (`auto_restart_max_attempts = 0`, the default) | it only makes `Settles` false: discovery then goes on for ever by design |
| EXI codec, message classes | data without state; the codec is a Java library. Failure to decode is an outcome of the session loop |
| `shared/security.py` | calls into a cryptographic library; verdicts are chosen |
| The other CAN tasks | send or answer single frames; as threads they are the tasks of `Engine`. The flag and table of `task_overflow_checker.py` are left for later |
| DoIP and UDS codecs, discovery client | bytes in, bytes out |
| SOME/IP time service | a clock offset; its protocol state is in a library outside the repository |
| `main.py`, `console.py`, `simva_redirect.py`, `sd.py`, `test_driver_verify.py` | wiring, relay and scripts |
| `CAN_Simulator` | kernel modules in binary form |

## 2. Plan

Order, most important behaviour first; all but the last point is done.

1. Engine, and the tasks with state: `Engine`, `UdsEcho`, `Throttle`.
2. The asynchronous servers: `DoipServer`, `SeccHandler`.
3. The ISO 15118-2 station: `SeccSession` (loop and framework, with the effects of
   the hardware commands) and on top of it `SeccV2`; `ChargingProfile` apart from
   them, since its loops would multiply the states of the session.
4. The stations of DIN SPEC 70121 and ISO 15118-20, each extending `SeccSession`.
5. The vehicle: `EvccSession` for the loop, a machine per protocol on top of it,
   `EvccHandler` for discovery, and `Evcc`, which composes them.
6. The composition of station and vehicle, `DinCharging`.
7. An abstract session, `ChargingSession`, that all stations implement; the refinement
   checked and proved.
8. A theorem for every invariant that a run checks.
9. `task_overflow_checker.py`; station and vehicle over ISO 15118-2.

Modules with proofs, and those they extend, contain no `RECURSIVE` operator.

## 3. Modules

`MCx.tla` extends `x.tla` and adds at most the sets that a `.cfg` cannot write down
(the requests of `UdsEcho`, the stations of `SeccV2` and `SeccV20`, the vehicles of
`Evcc`); the values of the constants are in the `.cfg` files. `xProofs.tla` holds the
theorems about `x`; `DinProofs` those about `SeccDin` and `DinCharging`,
`DiagnosticsProofs` those about `DoipServer`, `Throttle` and `UdsEcho`.

```
SeccSession <- SeccV2                       EvccSession <- EvccDin, EvccV2, EvccV20
            <- SeccV20                                  <- EvccHandler <- Evcc
            <- SeccDin <- DinCharging       Evcc        instantiates EvccDin, EvccV2, EvccV20
ChargingSession  instantiated by            DinCharging instantiates EvccDin
                 SeccDin, SeccV2, SeccV20
```

(`A <- B`: B extends A.) `Engine`, `UdsEcho`, `Throttle`, `DoipServer`,
`ChargingProfile` and `SeccHandler` stand alone.

| Module | Step | How state and actions correspond |
|---|---|---|
| `Engine` | a statement of either loop, a control point of a thread | a thread is a slot with a generation, as resume replaces threads; `ctl` is the position of main and notifier thread; `iter` keeps whether the list being iterated is still `stopped_tasks` or one that was replaced |
| `UdsEcho` | one CAN frame | bytes are counted, not stored; a request names its service and the size of its answer, of which a First Frame announces 12 bits (`Announced`); `stream` and `delivered` are history of what was handed to `Task.send` and what was reassembled. `Task.send` swallows a `CanError` (`engine/engine.py:33`): such a frame is lost behind `stream`, as one on the bus is |
| `Throttle` | one load or store | `at` is the control point of both threads in `get_data`, `reset` and the handler |
| `DoipServer` | a coroutine from one `await` to the next | `owner` says who awaits `serve_forever` of a server; time advances in seconds when nothing can run, so the outages of 3 and 5 seconds keep their order. `wait_closed` of a server is no step: before Python 3.12 it returns at once after a close (the repository's CI runs 3.10, `pyproject.toml` asks for more than 3.9); from 3.12 on it waits for the connections of the server, and the restart would wait for clients. `wait_closed` of a session's writer may raise, which skips the restart: an alternative of `LongMessage` |
| `ChargingProfile` | one iteration of a loop | the indices of the code, from 0; schedule and profile are any within bounds |
| `SeccHandler` | one notification; one step of a session towards its end | the retries of the bind are one outcome; `ReadError` is the end of a session without `stop()` and without a notification; a connection without a peer name and a server without an address make the handler raise |
| `SeccSession` | one iteration of `rcv_loop` | `state` is the class, `obj` the flags of the object, which a new object of the class resets; `evse` the output, the contactors and the announcement of high-level charging; `phase` is "dead" after an error of the read that `rcv_loop` does not catch |
| `SeccV2`, `SeccDin`, `SeccV20` | one request with the whole of its `process_message` | an action per state class; verdicts of backend, certificates and hardware are disjuncts; `sess` the session object, in `SeccV2` `ctx` the context of a paused session |
| `ChargingSession` | what a station promises | a session is closed, open, authorized or abandoned, where its output stays what it is; the cable is safe or not; the output is used for something |
| `EvccSession` | one iteration of `rcv_loop` | `evState` is the class that awaits a response, `built` whether its object still has a message, `timer` the ongoing timer with the state that started it |
| `EvccDin`, `EvccV2`, `EvccV20` | one response with the whole of its `process_message` | an action per state class; `ev` holds the attributes of the session; what the station answered and the controller decides are parameters |
| `EvccHandler` | one datagram or timeout, or one notification | `retries`, `cycles` and `attempts` are the counters of `restart_sdp` and `handle_sdp_failed`; datagrams are queued up to `Backlog`; `started` is the flag of the UDP client that `send_sdp` polls |
| `Evcc` | a step of the handler or of the machine in use | the protocol that was negotiated says whose |
| `DinCharging` | one message taken by either side | `question` and `answer` are the message on the connection; what the vehicle reads is what the station's step produced |

History variables and fields (`late`, `stream`, `delivered`, `headless`, `replied`,
`timerOf`, `asked`, `ended`, `paused` in `SeccV2`, `resumed`, `accepted`, `decided`,
`renegotiated`, `proven`, `isolated`, `precharged` in `sess`, `checked` and
`precharged` in `ev`) are written and never read by a guard.

## 4. Runs

### Passing

| Run | Instance | Shows |
|---|---|---|
| `engine` | 2 tasks, 2 commands, 1 crash, Ctrl-C | one live thread per task; at most one run after a stop; `stopped_tasks` names only current, marked threads; marked threads end; commands and shutdown finish |
| `uds` | 1 tester, 41 kinds of requests, 4 in sequence, 2 losses, VIN of 130 bytes | responses and reassembled requests in one piece; the sequence number wraps correctly; after a flow control the response is completed |
| `throttle` | 3 requests | values fit, resets are answered, broadcasts go on |
| `doip` | 2 sessions, 2 datagram handlers, 7 long messages | the counter is never left at its limit; a server that listens is the one `self.tcp_server` names, or about to be; both ports always come back |
| `profile` | 3 slots, 4 entries, horizon 4, 2 powers | no index out of range, rejection only for an entry above a slot, right on two slots |
| `handler` | 2 vehicles, 3 connections | while discovery is paused a session that could resume it is known; it is resumed, unless the handler has raised or a read error has ended the last session; the handler knows its TCP server |
| `v2` | a station with both authorizations and both modes, and one with DC and Plug & Charge only; 2 schedules | it implements `ChargingSession` (`KeepsPromise`); contracts are proven; the schedule was offered; a resumed session is offered exactly what it had selected, any other exactly what its configuration and connection allow; high-level charging is announced in the loop; every request is answered unless its handler raises |
| `din` | station with the repository's vehicle, or with any; 2 energy modes; connections that break | `ChargingSession` and the prepared loop against any vehicle; with its own the station refuses nothing (`InStep`), neither waits for the other, energy flows only while the control pilot asks for it, and only charging may last (`LoopPrepared` does not annul a test by a stop: see `:690` below) |
| `v20` | a station for AC and bidirectional DC with standby, one for DC with a service that no state handles; 2 schedules | the loop is the one of the selected and offered service, on an offered schedule; `ChargingSession` with a weaker mapping (below) |
| `evcc` | 4 vehicles (AC with optional TLS and no certificate, DC that insists on TLS, DC without, DC with `ENFORCE_TLS` and without `USE_TLS`), any station, any of the protocols | discovery stays within its requests; security as configured; control pilot, demand and timers follow the session; everything but charging settles (`AtRest` says where) |

`KeepsPromise` is one property under three mappings. In `SeccV2` and `SeccDin` a
session is authorized when the backend has accepted it, and a cable is safe when an
insulation test has passed since the parameters were agreed (or the session is AC). The
code of `SeccV20` does not tell a rejection from a consent and lets a renegotiation pass
the authorization, so there "authorized" is "decided or renegotiated", and every cable
counts as safe; the mapping says no more than the code does. After a read error the
session is "abandoned" in all three: its output is not switched off, and the promise says
nothing more.

Type invariants are conjuncts of `ValuesFit`, `CountBelowStop` and `RequestsBounded`,
and an invariant of `profile`; those of `Engine`, `SeccHandler` and the three stations are
conjuncts of the proved inductive invariants.

### Ends without a stop

`rcv_loop` (`iso15118/shared/comm_session.py:473`) catches a timeout and a reset of the
read. Any other exception of it, an `ssl.SSLError` or another `OSError`, ends the task of
the session, which is only logged: no `stop()`, no `StopNotification`, the connection stays
open. In the models this is `ReadError`, possible at every read of either side:

* the station's output stays as it is (`SeccSession`, "dead"; `Abandon` in
  `ChargingSession`), and discovery stays paused unless another session is still to stop
  (`Abandoned` in `SeccHandler`);
* the vehicle's control pilot stays as it was (`PilotFollowsSession` allows it after no other end), and
  its handler waits for a notification that does not come (`AtRest`);
* in `DinCharging` the other side runs into its timeout.

`SeccHandler` goes on after it, since the TCP server is still open and a vehicle that knows
the port may connect without discovery. The machines of the session do not: what a second
session meets after an abandoned one, with the output possibly on, is not modelled.

On the vehicle an error of the UDP socket (`evcc/transport/udp_client.py:112`) clears
`started`, which nothing sets again. The next `send_sdp` polls it for ever
(`evcc/comm_session_handler.py:327`) and the handler waits for `send_sdp`: `UdpError` and the
phase "polling". `Settles` counts it as rest, for no request is sent any more; it does not say
that the vehicle succeeds.

### Disagreements of code and documentation

Each of these runs checks one statement of a comment, and TLC finds a behaviour of the
code that breaks it. `PROJECT.json` quotes the lines. They are the ones that take
several steps of several actors, or a computation, to show.

| Run | The code |
|---|---|
| `engine_lost_resume` | a resume that meets a thread on its way out neither keeps nor replaces it |
| `profile_excess` | an excess over the third slot is accepted |

Others were met while modelling. The models do as the code does there; no run is kept for
them.

* `engine/engine.py:144`: a second stop empties `stopped_tasks` and skips the tasks
  already marked, so the next resume restarts none of them.
* `task/task_uds_echo.py:121`: a consecutive frame is not compared with its first
  frame, so the frames of a request whose first frame was lost complete an earlier
  one that was given up. `ReassembledIntact` holds while no first frame has been lost.
* `task/task_uds_echo.py:113`: no flow control is sent for a multi-frame request.
* `engine/engine.py:146`: a stop reaches the periodic threads only; listeners go on
  answering, although the README says UDS Echo stops too.
* `task/task_throttle.py:56`: the branch for mode 0x03 belongs to the test of the
  length, so the stored trouble codes are never answered.
* `doip_lib/server.py:112`: `reader.read()` returns at the end of the stream only, so
  a routing activation is answered after the client has closed its side.
* `iso15118/secc/comm_session_handler.py:352`: `close_session` looks up the socket
  name in a table whose keys are hosts.
* `iso15118/secc/states/iso15118_2_states.py`: `:1683` high-level charging stays
  announced after an end without a stop; `:1600` after a stop of DC charging a start
  is accepted without a cable check; `:1958` a metering receipt takes an AC session to
  `CurrentDemand`; `:1508` "still calculating" raises instead of answering "ongoing";
  `:564` a certificate is installed though the service was not offered; `:321` a session
  paused over TLS is offered Plug & Charge when it is resumed without TLS; `:1871` the last entry
  of a profile is compared with slots that end before it starts, so a profile that follows a
  rising schedule is rejected.
* `iso15118/shared/security.py:915`: `verify_signature` raises on a message without a
  signature, so that a `CertificateInstallationReq`, an `AuthorizationReq` under Plug & Charge
  or a `MeteringReceiptReq` that lacks it ends the session unanswered
  (`AnsweredUnlessRaised` excepts them); in ISO 15118-20 likewise (`:400` of its states).
* `iso15118/shared/comm_session.py:473` and `iso15118/evcc/transport/udp_client.py:112`: see
  "Ends without a stop".
* `iso15118/secc/comm_session_handler.py`: `:290` a client whose connection is lost before its
  peer name is read has no address, and `:409` the answer to a discovery request needs an
  address that a server which could not start may not have; both raise out of the handler.
* `iso15118/evcc/evcc_config.py:57`: `ENFORCE_TLS` is to overrule `USE_TLS`. A vehicle with
  `ENFORCE_TLS` and without `USE_TLS` asks for a connection without TLS, refuses one without
  it and finds a response with it a mismatch as well (`comm_session_handler.py:517`): it never
  has a session. `SecuredAsSet` says what both the comment and the code agree on, and the
  fleet contains this vehicle.
* `iso15118/secc/states/secc_state.py:347`: a `CertificateUpdateReq` raises instead of
  being answered, as no failed response is known for it.
* `doip_lib/server.py`: two coroutines that restart the server at once close each
  other's, every five seconds, for ever; the port is back in between.
* `iso15118/secc/comm_session_handler.py`: the cancelled task of a session is that of
  `start()`; `rcv_loop` goes on reading.
* `iso15118/secc/states/iso15118_2_states.py`: the schedule of a paused session is read
  from `sa_schedule_tuple_id` (`ev_data.py:892`), which nobody assigns.
* `iso15118/secc/states/din_spec_states.py`: `:317` a rejected authorization is answered
  "ongoing"; only the vehicle's timer ends such a session; `:690` after a stop a start is
  accepted again on the test and the pre-charge from before it.
* `doip_lib/server.py:125`: a session whose message is the one that stops the server finds
  none when another one has just stopped it; the count is set back all the same.
* `iso15118/secc/states/iso15118_20_states.py`: a rejected authorization is answered
  "finished" and the session goes on (`:459`); the selected authorization is not compared
  with the offered ones; a `SessionStopReq` that renegotiates the service leads to
  `ServiceDiscovery` from the states before the authorization (`:1248`), and from
  `ACChargeLoop` leaves the output on; the docstring of `ScheduleExchange` (`:889`) names the
  one request expected first, while the state takes any of its list (`:909`), so that
  `PowerDelivery` is reached without a schedule and the DC loop without a cable check, and a
  cable check in an AC session; `:1810` passes whether the session is bidirectional where
  `interface.py:827` takes whether this is a pre-charge.
* `iso15118/evcc`, discovery: the handler idles for ever after a failed connection, a
  response that does not fit the configured security, an undecodable datagram or an empty
  list of protocols; TLS removes DIN SPEC 70121 from the configuration for all later
  sessions; a late datagram answers the next request; a wireless response raises out of the
  loop; discovery gives up at the limit of requests even if cycles are left.
* `iso15118/evcc/states`: DIN SPEC 70121 `ChargeParameterDiscovery` goes on with the timer of
  `ContractAuthentication`; in ISO 15118-2 a receipt that says to stop does not set the flag
  of the stop, so the vehicle returns to the loop, and `CurrentDemand` ignores a request to
  renegotiate; in ISO 15118-20 `DCWeldingDetection` does not call `check_msg`, a
  renegotiating `SessionStop` names a next state without a message, and
  `ScheduleExchange` and `DCPreCharge` have no timer. That the battery is full
  is never reset in the controller, so a session after that sends a
  `WeldingDetectionReq` right after its first `PowerDeliveryRes`, which the station
  refuses: the exception in `InStep`.
* `iso15118/shared/comm_session.py:503`: an object that stays keeps its message, so a
  vehicle that stops the state machine there sends its last request once more.

Each property of a passing run has a mutant in `PROJECT.json`: a plausible slip in
one mapped definition, under which TLC finds the property violated.

## 5. Bounds

* `Engine`: two commands and Ctrl-C are three loops over the lists, two of them
  at once; one crash leaves a dead thread with a clear event. A thread is replaced
  at most once by each resume, so three generations suffice.
* `UdsEcho`: one buffer and one reassembly are all the state, so interference needs two
  requests; the other two show that the state after interference is clean. Two losses
  break two requests in a row. A response of 133 bytes has 19 consecutive frames and
  passes the wrap at 16; the VIN is a parameter of the task, 17 characters by default.
  `UdsConstants` keeps requests and responses within the 4095 bytes that a First Frame can
  announce; a longer VIN would be announced modulo 4096.
* `Throttle`: the ranges are scaled (a byte is 0..3, a word 0..9, the sweep 3 steps).
  Sweep length, modulus of the speed and maximum of a byte are equal, as they are in
  the code (255), and the other relations of `ThrottleConstants` hold for both.
* `DoipServer`: three messages make an outage; seven are two outages and one message
  more. Two sessions and two handlers make every pair of kinds race.
* `ChargingProfile`: three slots are the smallest schedule where the carried index is
  wrong; four entries put two into a slot.
* `SeccHandler`: two vehicles and three connections have a session, its replacement
  and a bystander.
* `SeccV2`, `SeccV20`, `SeccDin`, `DinCharging`: no bound on requests, responses or
  sessions; the state is finite. Two schedules distinguish the selected from another
  one, two energy modes an offered from the requested one. The configuration is chosen at the
  start from two: one that offers much, and one where something asked for is missing.
* `Evcc`: two requests of 50, two cycles and one automatic restart let each counter be
  set back by each of the others and still reach its end; one datagram of backlog is one
  that answers the wrong request. The responses of a station are not bounded.

Counters of commands, crashes, losses and messages bound the environment, not the
code. Deadlock is checked for `Throttle`, `ChargingProfile`, `SeccV2`, `SeccV20` and
`DinCharging`; the other instances stop when the bounded environment has nothing left to
send, or the vehicle's handler has come to rest. In the stations and in `DinCharging` a side
that a read error has ended may stutter (`Dead`, `Over`): that is no deadlock but the end of the
model.

## 6. Fairness

* `Engine`, `Throttle`: weak fairness of each thread; the operating system schedules
  them and no step blocks. No fairness for commands, Ctrl-C, requests or exceptions.
* `UdsEcho`: the loop of the handler that sends consecutive frames; none for the tester.
* `DoipServer`: asyncio runs every ready coroutine, and time passes.
* `SeccHandler`: asyncio serves the queue and every session; that a session begins to
  stop is the timeout of `rcv_loop`, which ends a session whose vehicle falls silent, unless
  a read error has ended the loop: `ReadError` disables the step that is fair.
* `DinCharging`: each side takes a message that has arrived, the vehicle notices that the
  station has closed the connection, and time passes. Nothing is assumed about what is
  answered, about breaks or about the next session.
* `Evcc`: the handler takes its notification and the timeout of a datagram, and time
  passes. `rcv_loop` ends each wait with a response or a timeout, but where a station gives
  the same answer again, that may change no variable; `LoopGoesOn` therefore says that the
  loop makes steps that change something, or cannot, or is time and again where an answer that
  changes nothing is possible. Plain weak fairness would claim that such a station gives way.

## 7. Proofs

All are for every value of the constants that the named assumptions admit.

* `EngineProofs`: `EngineTypeOK`, `EngineOneLiveThread`, `EngineAtMostOneLateRun`.
  The inductive invariant adds `Generations` (threads before the current one are
  dead, later ones unborn: a replacement is made only for a dead thread),
  `StartBeforeServe` (no resume before all threads are started) and `LateCount` (the
  run in progress at the stop is over once it is counted, and the next test of the
  event ends the thread). `EngineRecordedAreStopped` needs `RecordKept`, which is about
  the time while a command is in progress: the record lists each slot once and in order,
  and its threads are current and marked, but for those that the running resume has passed
  (`Pending`).
* `SeccHandlerProofs`: `HandlerRecoverable`, `HandlerOwnsListener`.
  That a stop of a replaced session does not take the last witness needs that an
  entry is a session of its address (`EntryOfPeer`, `Addressed`) and that each
  session has at most the one notification that fits where it is (`QueueMatches`,
  `QueuedOnce`).
* `SeccV2Proofs`: `V2AuthorizedEnergy`, `V2PncProven`, `V2InsulationFirst`,
  `V2ScheduleOffered`, `V2EndsCold`, `V2HlcAnnounced`, `V2AnsweredUnlessRaised` (and
  `V2TypeOK`), and the refinement `V2KeepsPromise`. The code has no variable that
  says "authorized", "signed" or "tested": it is encoded in the state class and the
  flags of its object. `AuthorizationKept`, `ProofKept`, `TestedBefore`,
  `ScheduleKept` and `HlcKept` say what each class implies, `OffAtTheEnd` which classes are
  reached with the output off, `ContactorsTested` what the flags of an object imply, and
  `AnswersKept` which request may go without an answer. `AcceptedTypes` spells out what
  `check_msg` accepts, `EndKeeps` covers the ways a session can end. `V2OfferFitsSession`
  follows the context of a paused session from the pause to the next `SessionSetup`
  (`ContextKept`) and from there to the offer (`OfferMade`).
* `DinProofs`, the station alone: `DinLoopPrepared` and `DinKeepsPromise`, from `AuthorizationKept`,
  `PreparedKept` (past a cable check the test has passed, past a pre-charge that was
  answered the voltage is there), `HlcKept` and `ContactorsTested`.
  Station and vehicle: `ChargingImplementsStation`, that the composition implements
  `SeccDin`: whatever vehicle and connection do, a step of the composition is one of the
  station or none of it. What the vehicle chooses lies within what the station's specification
  allows since the modes of the station are known (`ModesKnown`). With it
  `ChargingLoopPrepared` and `ChargingKeepsPromise` follow from the theorems of the station.
  `ChargingInStep`, `ChargingNoMutualWait` and `ChargingFedWhileAsked` are about both
  sides. Neither keeps a record of where the other is, so `WireKept` says it for them: while
  both are in their loops exactly one message is on its way, and a request determines the
  state of the station that awaits it (`Asked`), a response the one that sent it
  (`Answered`). `FeedKept` adds what that means for control pilot and output. Assumed:
  `None` is no message (`NoneIsNoMessage`).
* `SeccV20Proofs`: `V20ReachedAsAgreed` and `V20KeepsPromise`, from `ClearedKept` (only a
  decision or a renegotiation leads past the authorization) and `ServiceKept` (a service
  comes from the station's list by way of the details that were sent).
* `EvccProofs`: `EvccRequestsBounded`, `EvccSecuredAsSet`, `EvccPilotFollowsSession`,
  `EvccCheckedBeforeDemand` and `EvccOwnTimer`, for any fleet and against a station that
  answers anything. For the machines, with a lemma per protocol (`DinStep`, `V2Step`,
  `V20Step`): `PilotKept` names the states where the control pilot may be set,
  `PreparedKept` what a state says about cable check and pre-charge, also on the way back to
  the loop through `MeteringReceipt`, and `TimerOwned` where a timer may run at all. For the
  handler: `Budget` bounds what was asked together with what may still be asked, except in a
  handler that has given up, which resets the one and not the other; `SessionOwned`
  relates the session to the configuration it was begun under. Assumed: the bounds are
  positive (`HandlerConstants`), `None` is no protocol (`NoneIsNoProtocol`).
* `ChargingProfileProofs`: `ProfileTypeOK`, `ProfileRejectedForCause` and
  `ProfileAcceptedFitsTwoSlots`, for schedules and profiles of any length. The index that
  one slot carries over to the next is never too small (`CarryReaches`), and not too large
  while it was carried over once (`CarryExact`); so the entries that a slot has compared
  (`Compared`) are all that overlap it in the first two slots (`SlotsKept`). The third
  slot is where `CarryExact` ends, and where `profile_excess` finds its counterexample.
* `DiagnosticsProofs`, in three parts that share no state. The module extends all three, so
  names of `Throttle` and `UdsEcho` that would meet those of `DoipServer` have prefixes
  (`ThrottleSpec`, `UdsSpec`).
  * `DoipCountBelowStop` and `DoipPortKnown`, for any number of sessions and datagrams. The
    first rests on the types, the second on `PortKept`: at most the newest server listens, at
    most one coroutine has created a server that it has not yet stored, and while it has not,
    `self.tcp_server` is another one, so that nobody closes the new one. That a close leaves no
    other coroutine without its server (`OwnersServe`, a part of the first invariant) needs
    that a coroutine awaits one server only (`OneServerEach`). Assumed: `"none"` is no
    coroutine (`NoneIsNoTask`).
  * `VehicleValuesFit`: a value leaves room for one more increment at every control point
    but those between an increment and its remainder, and so do the values that `reset`
    stores at any time from either thread (`SpeedKept`, `RpmKept`, `SweepKept`).
  * `UdsStreamIntact` from `BufferKept`, for any VIN and requests whose sizes fit 12 bits
    (`UdsConstants`, `SizeFits`): a response cannot replace the buffer while the loop sends. `UdsReassembledIntact` under the
    hypothesis `OneTester`, as the frames of two testers go into one reassembly. No sequence number is
    compared by the code; that a complete reassembly has every frame in its place follows by
    counting (`InPlace`: frame `j` has at least number `j - 1`, and the numbers that
    remain suffice for those behind it).

A refinement is proved in two parts. The lemmas `StepIsSilent`, `StepSwitchesOn`,
`StepSwitchesOff`, `StepAssesses` or `StepAuthorizes`, and `EndCloses` say which kind of
change is which step of `ChargingSession`; `PromiseStep` assigns every action of the machine to one
of them, with the invariant before and after the step.

The invariants were checked with TLC before they were proved. Assumptions on constants are `ASSUME`s in
the modules that declare them, and TLC evaluates them in each run.

Every invariant of a passing run is the statement of a theorem. Only model-checked are the
liveness properties `StopEndsThread`, `ControllersFinish`, `FlowControlCompletes`,
`ResetAnswered`, `BroadcastsAgain`, `PortsComeBack`, `DiscoveryResumes`,
`NoEndlessSession` and `Settles`, since liveness under fairness is out of the prover's
reach.
