--------------------------- MODULE MCUnaryServer ---------------------------
(* UnaryServer for TLC: its actions are those of the Calls k1, k2, ...      *)
EXTENDS UnaryServer

CONSTANTS k1, k2, k3, k4

MCTag == {"request", "handling", "finish"} \X Call
=============================================================================
