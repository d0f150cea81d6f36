-------------------------- MODULE MCServingProcess --------------------------
(* The connection loop inside a small process.                             *)
EXTENDS ServingProcess
=============================================================================
