--------------------------- MODULE MCEpollServer ----------------------------
(* Two instances and three connections: the first instance has two of      *)
(* them, so that its worker handles several events at a time.              *)
EXTENDS EpollServer

=============================================================================
