------------------------------ MODULE MCWires ------------------------------
(***************************************************************************)
(* The instances of MCTranslator, watched by the wire monitor.             *)
(***************************************************************************)
EXTENDS MCTranslator, WireMonitor
=============================================================================
