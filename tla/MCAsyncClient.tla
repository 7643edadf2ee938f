--------------------------- MODULE MCAsyncClient ---------------------------
(* AsyncClient for TLC: two calls, the first of which always has a response *)
(* callback.                                                                *)
EXTENDS AsyncClient

CONSTANTS c1, c2
=============================================================================
