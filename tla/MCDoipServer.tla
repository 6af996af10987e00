---------------------------- MODULE MCDoipServer ----------------------------
(* DoipServer with a few concurrent sessions and datagrams. *)
EXTENDS DoipServer
=============================================================================
