------------------------------- MODULE MCSeccV2 -------------------------------
(* The instance of SeccV2 that TLC checks. *)
EXTENDS SeccV2

\* A station that supports everything, and one with Plug & Charge and DC only,
\* which has nothing to offer without TLS and refuses AC.
Stations ==
    { [auth |-> Auths, install |-> TRUE, modes |-> {"ac", "dc"}],
      [auth |-> {"pnc"}, install |-> FALSE, modes |-> {"dc"}] }
=============================================================================
