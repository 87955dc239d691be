----------------------------- MODULE MCDiscovery -----------------------------
(* Discovery with one unhandled service and up to two reads in flight.     *)
EXTENDS Discovery
=============================================================================
