-------------------------------- MODULE MCDaemon --------------------------------
(* Module Daemon on a small instance. *)
EXTENDS Daemon
================================================================================
