----------------------------- MODULE MCUdsEcho -----------------------------
(***************************************************************************)
(* UdsEcho with requests of every kind of outcome.                         *)
(***************************************************************************)
EXTENDS UdsEcho

Req(sid, sub, lo, len) == [sid |-> sid, sub |-> sub, lo |-> lo, len |-> len]

\* One request for every handler, and for its negative response.
AllServices ==
    { Req(1, 0, 0, 2), Req(1, 12, 0, 2), Req(1, 13, 0, 2), Req(2, 0, 0, 2),
      Req(3, 0, 0, 1), Req(4, 0, 0, 1), Req(7, 0, 0, 1), Req(9, 0, 0, 2),
      Req(9, 2, 0, 2), Req(9, 10, 0, 2), Req(9, 4, 0, 2), Req(10, 0, 0, 1),
      Req(16, 3, 0, 2), Req(16, 9, 0, 2), Req(17, 1, 0, 2), Req(17, 4, 0, 2),
      Req(17, 9, 0, 2), Req(20, 0, 0, 4), Req(25, 1, 0, 3), Req(25, 2, 0, 3),
      Req(25, 6, 0, 3), Req(25, 9, 0, 3), Req(34, 241, 144, 3),
      Req(34, 241, 135, 3), Req(34, 241, 137, 3), Req(34, 0, 0, 3),
      Req(34, 241, 0, 2), Req(39, 1, 0, 2), Req(39, 2, 0, 6), Req(40, 0, 0, 3),
      Req(40, 9, 0, 3), Req(46, 241, 144, 3), Req(46, 241, 0, 2),
      Req(49, 1, 2, 4), Req(49, 1, 0, 2), Req(62, 0, 0, 2), Req(133, 1, 0, 2),
      Req(133, 9, 0, 2), Req(5, 0, 0, 2), Req(46, 241, 144, 12), Req(46, 241, 144, 20) }
=============================================================================
