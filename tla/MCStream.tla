------------------------------ MODULE MCStream ------------------------------
(* The stream for TLC, with two values: a mix-up of two buffers shows.     *)
EXTENDS Stream
=============================================================================
