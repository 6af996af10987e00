------------------------------ MODULE Throttle ------------------------------
(***************************************************************************)
(* task/task_throttle.py: the vehicle task.  Its state is shared, without  *)
(* a lock, by the periodic thread, which calls get_data, and the notifier  *)
(* thread, which calls on_message_received; each of them may be inside     *)
(* reset.  A step is one load or one store of a shared attribute.          *)
(***************************************************************************)
EXTENDS Naturals

CONSTANTS
    SweepLen,    \* 255: range of the welcome sweep
    SweepRpm,    \* 100: rpm per step of the sweep
    SpeedMod,    \* 255
    RpmStep,     \* 10
    RpmMod,      \* 16384
    ByteMax,     \* 255: largest value of a data byte
    WordMax,     \* 65535: largest value to_bytes(2) converts
    MaxFrames    \* bound: requests received

ASSUME ThrottleConstants ==
    /\ SweepLen \in Nat \ {0} /\ SweepRpm \in Nat
    /\ SpeedMod \in Nat \ {0} /\ RpmStep \in Nat /\ RpmMod \in Nat \ {0}
    /\ ByteMax \in Nat /\ WordMax \in Nat /\ MaxFrames \in Nat
    /\ SweepLen <= ByteMax /\ SpeedMod <= ByteMax
    /\ SweepRpm * (SweepLen - 1) + RpmStep <= WordMax
    /\ RpmMod - 1 + RpmStep <= WordMax

Threads == {"periodic", "notifier"}

\* Requests on 0x7DF by what the handler tells apart: ECU reset, stored DTCs,
\* speed and rpm in frames of more than three bytes, and shorter frames.
Requests == {"reset", "mode3", "mode1", "short"}

ThreadPoints ==
    {"idle", "disarm", "zeroSpeed", "zeroRpm", "sweepSpeed", "sweepRpm", "sweepSend",
     "arm", "respond", "incLoad", "incStore", "modLoad", "modStore", "rpmIncLoad",
     "rpmIncStore", "rpmModLoad", "rpmModStore", "broadcast", "dead"}

VARIABLES
    speed,    \* _speed
    rpm,      \* _rpm
    armed,    \* _init
    at,       \* the control point of each thread
    sweep,    \* the loop variable of reset in each thread
    tmp,      \* the value get_data has loaded and not yet stored
    request,  \* the request the notifier thread handles
    frames,   \* requests received so far
    replied   \* history: the request before last step's return was answered

throttleVars == <<speed, rpm, armed, at, sweep, tmp, request, frames, replied>>

ThrottleTypeOK ==
    /\ speed \in Nat
    /\ rpm \in Nat
    /\ armed \in BOOLEAN
    /\ at \in [Threads -> ThreadPoints]
    /\ sweep \in [Threads -> 0 .. SweepLen]
    /\ tmp \in Nat
    /\ request \in Requests
    /\ frames \in 0 .. MaxFrames
    /\ replied \in BOOLEAN

ThrottleInit ==
    /\ speed = 0
    /\ rpm = 0
    /\ armed = FALSE
    /\ at = [t \in Threads |-> "idle"]
    /\ sweep = [t \in Threads |-> 0]
    /\ tmp = 0
    /\ request = "mode1"
    /\ frames = 0
    /\ replied = FALSE

Step(t, from, to) == at[t] = from /\ at' = [at EXCEPT ![t] = to]

-----------------------------------------------------------------------------
(* reset, on either thread *)

Disarm(t) ==
    /\ Step(t, "disarm", "zeroSpeed")
    /\ armed' = FALSE
    /\ UNCHANGED <<speed, rpm, sweep, tmp, request, frames, replied>>

ZeroSpeed(t) ==
    /\ Step(t, "zeroSpeed", "zeroRpm")
    /\ speed' = 0
    /\ UNCHANGED <<rpm, armed, sweep, tmp, request, frames, replied>>

\* self._rpm = 0, then the reset mark is sent
ZeroRpm(t) ==
    /\ Step(t, "zeroRpm", "sweepSpeed")
    /\ rpm' = 0
    /\ sweep' = [sweep EXCEPT ![t] = 0]
    /\ UNCHANGED <<speed, armed, tmp, request, frames, replied>>

SweepSpeed(t) ==
    /\ Step(t, "sweepSpeed", "sweepRpm")
    /\ speed' = sweep[t]
    /\ UNCHANGED <<rpm, armed, sweep, tmp, request, frames, replied>>

SweepSetRpm(t) ==
    /\ Step(t, "sweepRpm", "sweepSend")
    /\ rpm' = sweep[t] * SweepRpm
    /\ UNCHANGED <<speed, armed, sweep, tmp, request, frames, replied>>

\* The frame is built from the attributes as they are now, not from the index.
SweepSend(t) ==
    /\ Step(t, "sweepSend", IF sweep[t] + 1 < SweepLen THEN "sweepSpeed" ELSE "arm")
    /\ sweep' = [sweep EXCEPT ![t] = @ + 1]
    /\ UNCHANGED <<speed, rpm, armed, tmp, request, frames, replied>>

\* Mutant: the flag is set before the sweep only, never after it.
ArmForgotten(t) ==
    /\ Step(t, "arm", IF t = "notifier" THEN "respond" ELSE "idle")
    /\ UNCHANGED <<speed, rpm, armed, sweep, tmp, request, frames, replied>>

\* Mutant: a reset that finds the flag set returns without the response.
ArmReturns(t) ==
    /\ Step(t, "arm", IF t = "notifier" /\ ~armed THEN "respond" ELSE "idle")
    /\ armed' = TRUE
    /\ UNCHANGED <<speed, rpm, sweep, tmp, request, frames, replied>>

Arm(t) ==
    /\ Step(t, "arm", IF t = "notifier" THEN "respond" ELSE "idle")
    /\ armed' = TRUE
    /\ UNCHANGED <<speed, rpm, sweep, tmp, request, frames, replied>>

Reset(t) == \/ Disarm(t) \/ ZeroSpeed(t) \/ ZeroRpm(t) \/ SweepSpeed(t)
            \/ SweepSetRpm(t) \/ SweepSend(t) \/ Arm(t)

-----------------------------------------------------------------------------
(* get_data on the periodic thread *)

TestInit ==
    /\ Step("periodic", "idle", IF armed THEN "incLoad" ELSE "disarm")
    /\ UNCHANGED <<speed, rpm, armed, sweep, tmp, request, frames, replied>>

Load(from, to, value) ==
    /\ Step("periodic", from, to)
    /\ tmp' = value
    /\ UNCHANGED <<speed, rpm, armed, sweep, request, frames, replied>>

StoreSpeed(from, to) ==
    /\ Step("periodic", from, to)
    /\ speed' = tmp
    /\ UNCHANGED <<rpm, armed, sweep, tmp, request, frames, replied>>

StoreRpm(from, to) ==
    /\ Step("periodic", from, to)
    /\ rpm' = tmp
    /\ UNCHANGED <<speed, armed, sweep, tmp, request, frames, replied>>

\* Mutant: the wrap is one value late.
IncSpeedWrapsLate ==
    \/ Load("incLoad", "incStore", speed + 1)
    \/ StoreSpeed("incStore", "modLoad")
    \/ Load("modLoad", "modStore",
            IF speed > SpeedMod THEN speed % SpeedMod ELSE speed)
    \/ StoreSpeed("modStore", "rpmIncLoad")

\* self._speed += 1; self._speed = self._speed % 255
IncSpeed ==
    \/ Load("incLoad", "incStore", speed + 1)
    \/ StoreSpeed("incStore", "modLoad")
    \/ Load("modLoad", "modStore", speed % SpeedMod)
    \/ StoreSpeed("modStore", "rpmIncLoad")

\* self._rpm += 10; self._rpm = self._rpm % 16384
IncRpm ==
    \/ Load("rpmIncLoad", "rpmIncStore", rpm + RpmStep)
    \/ StoreRpm("rpmIncStore", "rpmModLoad")
    \/ Load("rpmModLoad", "rpmModStore", rpm % RpmMod)
    \/ StoreRpm("rpmModStore", "broadcast")

\* the frame on 0xEEE is built and sent
Broadcast ==
    /\ Step("periodic", "broadcast", "idle")
    /\ UNCHANGED <<speed, rpm, armed, sweep, tmp, request, frames, replied>>

-----------------------------------------------------------------------------
(* on_message_received on the notifier thread *)

\* The elif branches for modes 3 and 1 belong to the length test, so a longer
\* frame is answered only when it asks for a reset; in a shorter one they
\* read mode, which has no value there, and the exception ends the thread.
Receive(r) ==
    /\ frames < MaxFrames
    /\ frames' = frames + 1
    /\ request' = r
    /\ replied' = FALSE
    /\ Step("notifier", "idle", CASE r = "reset" -> "disarm"
                                  [] r = "short" -> "dead"
                                  [] OTHER -> "idle")
    /\ UNCHANGED <<speed, rpm, armed, sweep, tmp>>

\* self.send(0x7E8, [0x02, 0x51, 0x01])
Respond ==
    /\ Step("notifier", "respond", "idle")
    /\ replied' = TRUE
    /\ UNCHANGED <<speed, rpm, armed, sweep, tmp, request, frames>>

ThrottleNext ==
    \/ \E t \in Threads : Reset(t)
    \/ TestInit \/ IncSpeed \/ IncRpm \/ Broadcast
    \/ \E r \in Requests : Receive(r)
    \/ Respond

ThrottleSpec == ThrottleInit /\ [][ThrottleNext]_throttleVars

\* Both threads are scheduled and neither blocks inside a call.
ThrottleFairSpec ==
    /\ ThrottleSpec
    /\ WF_throttleVars(Reset("periodic") \/ TestInit \/ IncSpeed \/ IncRpm \/ Broadcast)
    /\ WF_throttleVars(Reset("notifier") \/ Respond)

-----------------------------------------------------------------------------
(* Properties *)

\* However the loads and stores of get_data and of one or two concurrent resets
\* interleave, the values a frame is built from fit a byte and a word: neither
\* Message nor to_bytes(2) raises on the periodic or on the notifier thread; and
\* every variable keeps its type, the index of a sweep within its list.
ValuesFit == ThrottleTypeOK /\ speed <= ByteMax /\ rpm <= WordMax

\* An ECU reset is answered once its sweep is over, even when the periodic
\* thread resets at the same time, and the vehicle starts again.
ResetAnswered ==
    (request = "reset" /\ at["notifier"] = "disarm")
      ~> (at["notifier"] = "idle" /\ replied)

\* The periodic thread never stays in reset: it returns to broadcasting.
BroadcastsAgain == []<>(at["periodic"] = "broadcast")
=============================================================================
