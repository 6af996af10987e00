---------------------------- MODULE ChargingSession ----------------------------
(***************************************************************************)
(* What a charging station promises, whatever protocol a vehicle speaks:   *)
(* its output is used only in an open session that has been authorized,    *)
(* the cable is put under voltage for the vehicle only when it is known to *)
(* be safe, and closing a session switches the output off in the same      *)
(* step.  A session may also be abandoned without being closed: then the   *)
(* station goes no further, and its output stays what it is.  The state    *)
(* machines of the protocols implement this.                               *)
(***************************************************************************)
VARIABLES
    stage,   \* "closed", "open", "authorized" or "abandoned"
    safe,    \* the cable may carry the vehicle's voltage
    use      \* what the output is used for

vars == <<stage, safe, use>>

Purposes == {"off", "insulation", "precharge", "charging"}

Init ==
    /\ stage = "closed"
    /\ safe \in BOOLEAN
    /\ use = "off"

\* A session begins; what was known of the cable is of no account any more.
Open ==
    /\ stage = "closed"
    /\ stage' = "open"
    /\ safe' \in BOOLEAN
    /\ UNCHANGED use

Authorize ==
    /\ stage = "open"
    /\ stage' = "authorized"
    /\ UNCHANGED <<safe, use>>

\* The cable is tested, or charging is agreed in another way.
Assess ==
    /\ stage = "authorized"
    /\ safe' \in BOOLEAN
    /\ UNCHANGED <<stage, use>>

SwitchOn(u) ==
    /\ stage = "authorized"
    /\ u \in {"precharge", "charging"} => safe
    /\ use' = u
    /\ UNCHANGED <<stage, safe>>

SwitchOff ==
    /\ stage # "abandoned"
    /\ use' = "off"
    /\ UNCHANGED <<stage, safe>>

\* Also by a failure, at any moment.
Close ==
    /\ stage \in {"open", "authorized"}
    /\ stage' = "closed"
    /\ use' = "off"
    /\ safe' \in BOOLEAN

\* The one end that leaves the output alone.
Abandon ==
    /\ stage \in {"open", "authorized"}
    /\ stage' = "abandoned"
    /\ UNCHANGED <<safe, use>>

Next ==
    \/ Open
    \/ Authorize
    \/ Assess
    \/ \E u \in Purposes : SwitchOn(u)
    \/ SwitchOff
    \/ Close
    \/ Abandon

Spec == Init /\ [][Next]_vars
=============================================================================
