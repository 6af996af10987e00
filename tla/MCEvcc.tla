------------------------------- MODULE MCEvcc -------------------------------
(* The instance of Evcc that TLC checks. *)
EXTENDS Evcc

\* An AC vehicle that prefers TLS and needs a certificate, and a DC vehicle
\* that has one and insists on TLS; a DC vehicle without TLS; and one whose
\* ENFORCE_TLS should overrule its USE_TLS.
Fleet ==
    { [ac |-> TRUE, install |-> TRUE, useTls |-> TRUE, enforceTls |-> FALSE, restarts |-> FALSE],
      [ac |-> FALSE, install |-> FALSE, useTls |-> TRUE, enforceTls |-> TRUE, restarts |-> TRUE],
      [ac |-> FALSE, install |-> FALSE, useTls |-> FALSE, enforceTls |-> FALSE, restarts |-> FALSE],
      [ac |-> FALSE, install |-> FALSE, useTls |-> FALSE, enforceTls |-> TRUE, restarts |-> TRUE] }
=============================================================================
