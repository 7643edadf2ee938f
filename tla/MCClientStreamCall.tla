------------------------- MODULE MCClientStreamCall -------------------------
(* ClientStreamCall for TLC: the actions of the calls in Call.              *)
EXTENDS ClientStreamCall

MCTag == Op \X Call
=============================================================================
