------------------------------- MODULE MCStreams -------------------------------
(* Module Streams on a small instance. *)
EXTENDS Streams
================================================================================
