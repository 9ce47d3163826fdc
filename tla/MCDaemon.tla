------------------------------ MODULE MCDaemon ------------------------------
(* The daemon with a channel and a ring buffer small enough to fill up. *)
EXTENDS Daemon
=============================================================================
