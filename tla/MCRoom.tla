------------------------------- MODULE MCRoom -------------------------------
(* A small instance of Room for TLC. *)
EXTENDS Room
=============================================================================
