------------------------- MODULE MCConnectionQueue -------------------------
(* The connection queue on a small instance.                               *)
EXTENDS ConnectionQueue
=============================================================================
